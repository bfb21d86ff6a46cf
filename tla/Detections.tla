----------------------------- MODULE Detections -----------------------------
(***************************************************************************)
(* What becomes of an uploaded image and of SAM3's answer about it:        *)
(* prepare_image (src/app/images.py), parse_detections                     *)
(* (src/app/clients.py) and the clamping of _annotate                      *)
(* (src/app/storage.py).  Coordinates are integers in Scale-ths of a       *)
(* pixel; NotANumber stands for all that _number() raises on.              *)
(***************************************************************************)
EXTENDS Integers, Sequences, FiniteSetsExt

CONSTANTS
    MaxImageBytes,   \* max_image_bytes
    MaxImagePixels,  \* max_image_pixels
    Scale,           \* coordinate units in a pixel
    Certain,         \* the score 1, in units
    Threshold,       \* confidence_threshold, in the same units
    NotANumber

ASSUME DetectionAssumption ==
    /\ {MaxImageBytes, MaxImagePixels, Scale, Certain, Threshold} \subseteq Nat
    /\ Scale > 0 /\ Threshold <= Certain
    /\ NotANumber \in Int

Classes == {"fire", "smoke"}  \* sam3_classes
Formats == {"JPEG", "PNG", "WEBP"}

-----------------------------------------------------------------------------
\* An EXIF orientation of 5 to 8 turns the image on its side.
SourceSize(img) == [width |-> img.width, height |-> img.height]
Upright(img) ==
    IF img.orientation \in 5 .. 8
    THEN [width |-> img.height, height |-> img.width] ELSE SourceSize(img)

\* ImageTooLarge and InvalidImage of prepare_image(); a re-encoded image has the
\* size in bytes the encoder gives it.
Oversized(img) ==
    \/ img.bytes > MaxImageBytes
    \/ img.width * img.height > MaxImagePixels
    \/ img.orientation # 1 /\ img.reencoded > MaxImageBytes

Undecodable(img) ==
    img.bytes = 0 \/ img.format \notin Formats \/ img.frames # 1 \/ ~img.intact

Accepted(img) == ~Oversized(img) /\ ~Undecodable(img)

\* The image both models and _annotate get, and the size PreparedImage states.
Inference(img) == Upright(img)
StatedSize(img) == Upright(img)

-----------------------------------------------------------------------------
Clamped(box, size) ==
    <<Max({0, box[1]}), Max({0, box[2]}),
      Min({size.width * Scale, box[3]}), Min({size.height * Scale, box[4]})>>

HasArea(box) == box[1] < box[3] /\ box[2] < box[4]

IsScore(n) == n # NotANumber /\ n \in 0 .. Certain
IsBox(box) == Len(box) = 4 /\ \A i \in DOMAIN box : box[i] # NotANumber

\* "no dict" stands for an item that is none, and so has no label.
IsDict(it) == it.label # "no dict"

\* The two continues of the loop: labels that were not asked for, and low scores.
Ignored(it) ==
    /\ IsDict(it)
    /\ it.label \notin Classes \/ (IsScore(it.score) /\ it.score <= Threshold)

\* One item that raises fails the whole answer.
Malformed(it, size) ==
    /\ ~Ignored(it)
    /\ \/ ~IsDict(it)
       \/ ~IsScore(it.score)
       \/ ~IsBox(it.box)
       \/ IsBox(it.box) /\ ~HasArea(Clamped(it.box, size))

\* An answer is the set of its items: nothing below depends on their order.  One
\* without a results array fails as a malformed item does.
Parsed(items, size) ==
    IF \E it \in items : Malformed(it, size)
    THEN [ok |-> FALSE, boxes |-> {}]
    ELSE [ok |-> TRUE,
          boxes |-> {Clamped(it.box, size) : it \in {x \in items : ~Ignored(x)}}]

\* The rectangle _annotate() draws on the canvas.
Drawn(box, canvas) ==
    LET x(v) == Min({(canvas.width - 1) * Scale, v})
        y(v) == Min({(canvas.height - 1) * Scale, v})
    IN <<x(box[1]), y(box[2]), x(box[3]), y(box[4])>>

-----------------------------------------------------------------------------
CONSTANTS MaxSide, MaxOffset  \* bounds: pixels of a side; units beyond the image

Images ==
    [bytes : {0, MaxImageBytes, MaxImageBytes + 1}, format : {"PNG", "GIF"},
     width : 1 .. MaxSide, height : 1 .. MaxSide, frames : {1, 2}, intact : BOOLEAN,
     orientation : {1, 3, 6}, reencoded : {MaxImageBytes, MaxImageBytes + 1}]

Coordinates == (-MaxOffset .. MaxSide * Scale + MaxOffset) \cup {NotANumber}

Items ==
    [label : {"fire"}, score : {Certain}, box : [1 .. 4 -> Coordinates]] \cup
    [label : {"fire", "other", "no dict"}, score : {Threshold, Certain, NotANumber},
     box : {<<>>, <<0, 0, Scale, Scale>>, <<Scale, 0, 0, NotANumber>>}]

VARIABLES image, item  \* an upload, and what SAM3 answers about it

DetectionInit == image \in {i \in Images : Accepted(i)} /\ item \in Items

\* README.md:274, "coordinates are recorded in the upright size": every box of an
\* accepted answer is a rectangle inside the image the models were shown, and can
\* be drawn on it, whatever SAM3 answered and however the upload was turned.
BoxFits(box, canvas) ==
    /\ 0 <= box[1] /\ box[1] < box[3] /\ box[3] <= canvas.width * Scale
    /\ 0 <= box[2] /\ box[2] < box[4] /\ box[4] <= canvas.height * Scale

BoxDraws(box, canvas) ==
    LET drawn == Drawn(box, canvas) IN
    /\ 0 <= drawn[1] /\ drawn[1] <= drawn[3] /\ drawn[3] <= (canvas.width - 1) * Scale
    /\ 0 <= drawn[2] /\ drawn[2] <= drawn[4] /\ drawn[4] <= (canvas.height - 1) * Scale

BoxesFit ==
    \A box \in Parsed({item}, StatedSize(image)).boxes :
        BoxFits(box, Inference(image)) /\ BoxDraws(box, Inference(image))
=============================================================================
