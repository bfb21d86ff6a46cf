----------------------------- MODULE RulesProofs -----------------------------
(***************************************************************************)
(* Proofs about the components without interleaving: the upload limit, the *)
(* storage thresholds and the boxes of a detection.                        *)
(***************************************************************************)
EXTENDS UploadLimit, StorageRules, Detections,
        WellFoundedInduction, SequenceTheorems, TLAPS

\* A set of naturals that has 0 and the successor of each of its elements is all
\* of them: induction, as a fact about sets.
LEMMA NatSetInduction ==
    ASSUME NEW T, T \subseteq Nat, 0 \in T, \A n \in T : n + 1 \in T
    PROVE  T = Nat
<1> DEFINE R == {p \in Nat \X Nat : p[1] < p[2]}
           Rest == Nat \ T
<1>1. SUFFICES ASSUME Rest # {} PROVE FALSE
  OBVIOUS
<1>2. IsWellFoundedOn(R, Nat)
  BY NatLessThanWellFounded, Zenon DEF OpToRel
<1>3. PICK x \in Rest : \A y \in Rest : <<y, x>> \notin R
  <2> HIDE DEF R
  <2> QED BY <1>1, <1>2, WFMin, Zenon
<1>4. x # 0 /\ x - 1 \in Nat
  OBVIOUS
<1>5. <<x - 1, x>> \in R
  BY <1>4
<1>6. x - 1 \in T
  BY <1>3, <1>4, <1>5
<1> QED BY <1>6

Message == BodyMessage \cup {Disconnect}

\* f is the running sums of the messages, up to the k-th.
IsSums(f, s, k) == f = [i \in 0 .. k |-> IF i = 0 THEN 0 ELSE f[i - 1] + s[i].size]

LEMMA MessageSizes == \A m \in Message : m.size \in Nat
<1>1. MaxChunk \in Nat
  BY LimitAssumption
<1>2. \A m \in BodyMessage : m.size \in 0 .. MaxChunk
  BY DEF BodyMessage
<1> QED BY <1>1, <1>2 DEF Message, Disconnect

LEMMA SumsExist ==
    ASSUME NEW s \in Seq(Message), NEW n \in Nat, n <= Len(s)
    PROVE  \E f \in [0 .. n -> Nat] : IsSums(f, s, n)
<1> DEFINE T == {k \in Nat : k <= Len(s) => \E f \in [0 .. k -> Nat] : IsSums(f, s, k)}
<1>1. 0 \in T
  <2>1. IsSums([i \in 0 .. 0 |-> 0], s, 0)
    BY DEF IsSums
  <2> QED BY <2>1
<1>2. ASSUME NEW k \in T, k + 1 <= Len(s)
      PROVE  \E f \in [0 .. k + 1 -> Nat] : IsSums(f, s, k + 1)
  <2>1. PICK f \in [0 .. k -> Nat] : IsSums(f, s, k)
    BY <1>2
  <2>2. s[k + 1].size \in Nat
    BY <1>2, MessageSizes
  <2> DEFINE g == [i \in 0 .. k + 1 |-> IF i = k + 1 THEN f[k] + s[k + 1].size ELSE f[i]]
  <2>3. g \in [0 .. k + 1 -> Nat]
    BY <2>2
  <2>4. \A i \in 0 .. k : f[i] = IF i = 0 THEN 0 ELSE f[i - 1] + s[i].size
    BY <2>1 DEF IsSums
  <2>5. ASSUME NEW i \in 0 .. k + 1
        PROVE  g[i] = IF i = 0 THEN 0 ELSE g[i - 1] + s[i].size
    <3>1. CASE i = k + 1
      BY <3>1
    <3>2. CASE i # k + 1
      <4>1. i \in 0 .. k /\ (i # 0 => i - 1 \in 0 .. k) /\ i - 1 # k + 1
        BY <3>2
      <4>2. g[i] = f[i] /\ (i # 0 => g[i - 1] = f[i - 1])
        BY <3>2, <4>1
      <4> QED BY <2>4, <4>1, <4>2
    <3> QED BY <3>1, <3>2
  <2>6. IsSums(g, s, k + 1)
    BY <2>5 DEF IsSums
  <2> QED BY <2>3, <2>6
<1>3. T = Nat
  <2>1. ASSUME NEW k \in T PROVE k + 1 \in T
    <3>1. k \in Nat
      OBVIOUS
    <3>2. k + 1 <= Len(s) => \E f \in [0 .. k + 1 -> Nat] : IsSums(f, s, k + 1)
      BY <1>2, Zenon
    <3>3. k + 1 \in Nat
      BY <3>1
    <3> HIDE DEF IsSums
    <3> QED BY <3>2, <3>3, Zenon
  <2> HIDE DEF T
  <2>2. T \subseteq Nat
    BY DEF T
  <2> QED BY <1>1, <2>1, <2>2, NatSetInduction
<1> QED BY <1>3

LEMMA SumsAre == ASSUME NEW s \in Seq(Message) PROVE IsSums(Sums(s), s, Len(s))
<1>1. \E f : IsSums(f, s, Len(s))
  BY SumsExist
<1>2. Sums(s) = CHOOSE h : IsSums(h, s, Len(s))
  BY DEF Sums, IsSums
<1> QED BY <1>1, <1>2

\* The recursion, as equations.
LEMMA SumsStep ==
    ASSUME NEW s \in Seq(Message)
    PROVE  /\ Sums(s)[0] = 0
           /\ \A i \in 1 .. Len(s) : Sums(s)[i] = Sums(s)[i - 1] + s[i].size
           /\ \A i \in 0 .. Len(s) : Sums(s)[i] \in Nat
<1> DEFINE n == Len(s)
           f == Sums(s)
           T == {i \in Nat : i <= n => f[i] \in Nat}
<1>1. n \in Nat /\ \A i \in 1 .. n : s[i].size \in Nat
  BY MessageSizes
<1> HIDE DEF n, f
<1>2. \A i \in 0 .. n : f[i] = IF i = 0 THEN 0 ELSE f[i - 1] + s[i].size
  BY SumsAre DEF IsSums, n, f
<1>3. f[0] = 0 /\ \A i \in 1 .. n : f[i] = f[i - 1] + s[i].size
  BY <1>1, <1>2
<1>4. 0 \in T
  BY <1>3
<1>5. ASSUME NEW i \in T PROVE i + 1 \in T
  <2>1. SUFFICES ASSUME i + 1 <= n PROVE f[i + 1] \in Nat
    OBVIOUS
  <2>2. i + 1 \in 1 .. n /\ (i + 1) - 1 = i /\ i \in Nat
    BY <1>1, <2>1
  <2>3. f[i + 1] = f[i] + s[i + 1].size
    BY <1>3, <2>2
  <2> QED BY <1>1, <2>1, <2>2, <2>3
<1>6. T = Nat
  <2>1. T \subseteq Nat
    OBVIOUS
  <2> HIDE DEF T
  <2> QED BY <1>4, <1>5, <2>1, NatSetInduction
<1> QED BY <1>1, <1>3, <1>6 DEF n, f

LEMMA TotalEmpty == Total(<<>>) = 0
<1>1. <<>> \in Seq(Message) /\ Len(<<>>) = 0
  OBVIOUS
<1> QED BY <1>1, SumsStep DEF Total

LEMMA TotalIsNat == ASSUME NEW s \in Seq(Message) PROVE Total(s) \in Nat
  BY SumsStep DEF Total

\* Sums of sequences of which one continues as the other.
LEMMA SumsShift ==
    ASSUME NEW s \in Seq(Message), NEW r \in Seq(Message), NEW d \in Nat,
           NEW k \in Nat, k <= Len(r), k + d <= Len(s),
           \A i \in 1 .. k : r[i] = s[i + d]
    PROVE  Sums(s)[k + d] = Sums(s)[d] + Sums(r)[k]
<1> DEFINE f == Sums(s)
           g == Sums(r)
           T == {i \in Nat : i <= k => f[i + d] = f[d] + g[i]}
<1> HIDE DEF f, g
<1>1. /\ g[0] = 0 /\ d \in 0 .. Len(s) /\ f[d] \in Nat
      /\ \A i \in 1 .. Len(s) : f[i] = f[i - 1] + s[i].size
      /\ \A i \in 1 .. Len(r) : g[i] = g[i - 1] + r[i].size
      /\ \A i \in 0 .. Len(r) : g[i] \in Nat
  BY SumsStep DEF f, g
<1>2. 0 \in T
  BY <1>1
<1>3. ASSUME NEW i \in T PROVE i + 1 \in T
  <2>1. SUFFICES ASSUME i + 1 <= k PROVE f[(i + 1) + d] = f[d] + g[i + 1]
    OBVIOUS
  <2>2. /\ i + 1 \in 1 .. Len(r) /\ (i + 1) - 1 = i /\ i \in 0 .. Len(r)
        /\ i + 1 \in 1 .. k
        /\ (i + 1) + d \in 1 .. Len(s) /\ ((i + 1) + d) - 1 = i + d
    BY <2>1
  <2>3. f[(i + 1) + d] = f[i + d] + s[(i + 1) + d].size
    BY <1>1, <2>2
  <2>4. g[i + 1] = g[i] + r[i + 1].size
    BY <1>1, <2>2
  <2>5. r[i + 1] = s[(i + 1) + d] /\ r[i + 1].size \in Nat
    BY <2>2, MessageSizes
  <2>6. f[i + d] = f[d] + g[i]
    BY <2>1
  <2>7. f[(i + 1) + d] = (f[d] + g[i]) + r[i + 1].size
    BY <2>3, <2>5, <2>6
  <2>8. f[d] \in Nat /\ g[i] \in Nat
    BY <1>1, <2>2
  <2> QED BY <2>4, <2>5, <2>7, <2>8
<1>4. k \in T
  <2>1. T \subseteq Nat
    OBVIOUS
  <2> HIDE DEF T
  <2> QED BY <1>2, <1>3, <2>1, NatSetInduction
<1> QED BY <1>4 DEF f, g

\* The bytes of a message more, and of the first message less.
LEMMA TotalAppend ==
    ASSUME NEW s \in Seq(Message), NEW m \in Message
    PROVE  Total(Append(s, m)) = Total(s) + m.size
<1> DEFINE r == Append(s, m)
           n == Len(s)
<1>1. /\ r \in Seq(Message) /\ n \in Nat /\ Len(r) = n + 1
      /\ r[n + 1] = m /\ \A i \in 1 .. n : s[i] = r[i + 0]
  OBVIOUS
<1> HIDE DEF r
<1>2. Sums(r)[n + 0] = Sums(r)[0] + Sums(s)[n]
  <2>1. 0 \in Nat /\ n <= Len(s) /\ n + 0 <= Len(r)
    BY <1>1
  <2> QED BY <1>1, <2>1, SumsShift, Zenon
<1>3. Sums(r)[n + 1] = Sums(r)[n] + m.size /\ Sums(r)[0] = 0 /\ Sums(s)[n] \in Nat
  <2>1. n + 1 \in 1 .. Len(r) /\ (n + 1) - 1 = n /\ n \in 0 .. n
    BY <1>1
  <2> QED BY <1>1, <2>1, SumsStep
<1> QED BY <1>1, <1>2, <1>3 DEF Total, r

LEMMA TotalTail ==
    ASSUME NEW s \in Seq(Message), s # <<>>
    PROVE  Total(s) = Head(s).size + Total(Tail(s))
<1> DEFINE r == Tail(s)
           n == Len(r)
<1>1. /\ r \in Seq(Message) /\ n \in Nat /\ Len(s) = n + 1
      /\ Head(s) = s[1] /\ \A i \in 1 .. n : r[i] = s[i + 1]
  OBVIOUS
<1>2. Head(s) \in Message /\ Head(s).size \in Nat
  BY MessageSizes
<1> HIDE DEF r
<1>3. Sums(s)[n + 1] = Sums(s)[1] + Sums(r)[n]
  <2>1. 1 \in Nat /\ n <= Len(r) /\ n + 1 <= Len(s)
    BY <1>1
  <2> QED BY <1>1, <2>1, SumsShift, Zenon
<1>4. Sums(s)[1] = Head(s).size
  <2>1. 1 \in 1 .. Len(s)
    BY <1>1
  <2> QED BY <1>1, <1>2, <2>1, SumsStep
<1> QED BY <1>1, <1>3, <1>4 DEF Total, r

-----------------------------------------------------------------------------
Places == {"headers", "reading", "app", "done"}

UploadTypes ==
    /\ upload \in BOOLEAN /\ at \in Places /\ size \in Nat
    /\ buffered \in Seq(Message) /\ given \in Seq(Message) /\ sent \in Seq(Message)
    /\ answer \in {"none", "400", "413", "app"}

\* The whole body came, and each message of it is given or still to be given.
Whole ==
    /\ given \o buffered = sent
    /\ \E i \in 1 .. Len(sent) : ~sent[i].more /\ ~sent[i].gone

\* What has come so far is held, counted, and given to nobody.
Reading ==
    /\ at \in {"headers", "reading"} =>
         /\ answer = "none" /\ given = <<>> /\ size = Total(sent)
         /\ upload => buffered = sent
    /\ at = "headers" => sent = <<>> /\ buffered = <<>>
    /\ at = "app" => answer = "none"
    /\ answer \in {"400", "413"} => upload
    /\ at = "reading" => upload

\* The inductive invariant of a request.
UploadInv ==
    /\ UploadTypes
    /\ Reading
    /\ BufferBounded
    /\ WholeBodyOrTooLarge

LEMMA MessageFields ==
    /\ Disconnect \in Message
    /\ \A m \in BodyMessage : m \in Message /\ ~m.gone /\ m.more \in BOOLEAN
    /\ \A m \in Message : m.size \in Nat
  BY MessageSizes DEF Message, BodyMessage, Disconnect

LEMMA UploadStarts == UploadInit => UploadInv
<1> SUFFICES ASSUME UploadInit PROVE UploadInv
  OBVIOUS
<1>1. UploadTypes /\ Reading
  BY TotalEmpty DEF UploadInit, UploadTypes, Places, Reading
<1>2. BufferBounded
  BY LimitAssumption, TotalEmpty DEF UploadInit, BufferBounded
<1>3. WholeBodyOrTooLarge
  BY DEF UploadInit, WholeBodyOrTooLarge
<1> QED BY <1>1, <1>2, <1>3 DEF UploadInv

LEMMA HeadersKeep == UploadInv /\ ReadHeaders => UploadInv'
<1> SUFFICES ASSUME UploadInv, ReadHeaders PROVE UploadInv'
  OBVIOUS
<1> USE DEF UploadInv, ReadHeaders
<1>1. /\ at' \in {"app", "done", "reading"} /\ upload' = upload /\ declared' = declared
      /\ sent' = sent /\ size' = size /\ buffered' = buffered /\ given' = given
      /\ at' = "app" => ~upload /\ answer' = "none"
      /\ at' = "reading" => upload /\ answer' = "none"
      /\ at' = "done" => upload /\ answer' \in {"400", "413"}
      /\ answer' = "413" => declared.length > MaxBytes
  BY DEF UploadTypes, Reading, Answer, TooLarge
<1>2. UploadTypes' /\ Reading'
  BY <1>1 DEF UploadTypes, Reading, Places
<1>3. BufferBounded'
  BY <1>1 DEF BufferBounded
<1>4. WholeBodyOrTooLarge'
  BY <1>1, <1>2 DEF WholeBodyOrTooLarge, Reading
<1> QED BY <1>2, <1>3, <1>4

LEMMA ReceiveKeeps == UploadInv /\ (\E m \in BodyMessage : Receive(m)) => UploadInv'
<1> SUFFICES ASSUME UploadInv, NEW m \in BodyMessage, Receive(m) PROVE UploadInv'
  OBVIOUS
<1> USE DEF UploadInv
<1>1. /\ at = "reading" /\ upload /\ upload' = upload /\ declared' = declared
      /\ answer = "none" /\ given = <<>> /\ given' = given
      /\ buffered = sent /\ sent' = Append(sent, m)
      /\ size = Total(sent) /\ size' = size + m.size
      /\ m \in Message /\ ~m.gone /\ m.size \in Nat /\ m.more \in BOOLEAN
  BY MessageFields DEF Receive, Reading
<1>2. Total(sent') = size'
  BY <1>1, TotalAppend DEF UploadTypes
<1>3. sent' \in Seq(Message) /\ size' \in Nat
  BY <1>1 DEF UploadTypes
<1>4. MaxBytes \in Nat
  BY LimitAssumption
<1>5. CASE size + m.size > MaxBytes
  <2>1. at' = "done" /\ answer' = "413" /\ buffered' = buffered
    BY <1>5 DEF Receive, TooLarge, SizeWith, Answer
  <2>2. UploadTypes' /\ Reading'
    BY <1>1, <1>3, <2>1 DEF UploadTypes, Reading, Places
  <2>3. BufferBounded'
    BY <1>1, <2>1 DEF BufferBounded
  <2>4. WholeBodyOrTooLarge'
    BY <1>1, <1>2, <1>5, <2>1 DEF WholeBodyOrTooLarge
  <2> QED BY <2>2, <2>3, <2>4
<1>6. CASE ~(size + m.size > MaxBytes)
  <2>1. /\ buffered' = sent' /\ at' = (IF m.more THEN "reading" ELSE "app")
        /\ answer' = answer
    BY <1>1, <1>6 DEF Receive, TooLarge, SizeWith, Kept
  <2>2. UploadTypes' /\ Reading'
    BY <1>1, <1>2, <1>3, <2>1 DEF UploadTypes, Reading, Places
  <2>3. BufferBounded'
    BY <1>1, <1>2, <1>3, <1>4, <1>6, <2>1 DEF BufferBounded
  <2>4. given' \o buffered' = sent'
    BY <1>1, <1>3, <2>1
  <2>5. ~m.more => \E i \in 1 .. Len(sent') : ~sent'[i].more /\ ~sent'[i].gone
    <3>1. Len(sent') \in 1 .. Len(sent') /\ sent'[Len(sent')] = m
      BY <1>1 DEF UploadTypes
    <3> QED BY <1>1, <3>1
  <2>6. WholeBodyOrTooLarge'
    BY <1>1, <2>1, <2>4, <2>5 DEF WholeBodyOrTooLarge
  <2> QED BY <2>2, <2>3, <2>6
<1> QED BY <1>5, <1>6

LEMMA GoneKeeps == UploadInv /\ ClientGone => UploadInv'
<1> SUFFICES ASSUME UploadInv, ClientGone PROVE UploadInv'
  OBVIOUS
<1>1. UploadTypes' /\ Reading'
  BY DEF UploadInv, ClientGone, UploadTypes, Reading, Places
<1>2. BufferBounded'
  BY DEF UploadInv, ClientGone, BufferBounded
<1>3. WholeBodyOrTooLarge'
  BY DEF UploadInv, ClientGone, Reading, WholeBodyOrTooLarge
<1> QED BY <1>1, <1>2, <1>3 DEF UploadInv

LEMMA AnswerKeeps == UploadInv /\ AppAnswers => UploadInv'
<1> SUFFICES ASSUME UploadInv, AppAnswers PROVE UploadInv'
  OBVIOUS
<1>1. UploadTypes' /\ Reading'
  BY DEF UploadInv, AppAnswers, Answer, UploadTypes, Reading, Places
<1>2. BufferBounded'
  BY DEF UploadInv, AppAnswers, Answer, BufferBounded
<1>3. WholeBodyOrTooLarge'
  BY DEF UploadInv, AppAnswers, Answer, Reading, WholeBodyOrTooLarge
<1> QED BY <1>1, <1>2, <1>3 DEF UploadInv

\* What is taken from one end is put at the other.
LEMMA Replayed ==
    ASSUME NEW a \in Seq(Message), NEW b \in Seq(Message), b # <<>>
    PROVE  Append(a, Head(b)) \o Tail(b) = a \o b
  OBVIOUS

LEMMA AppReceivesKeeps == UploadInv /\ AppReceives => UploadInv'
<1> SUFFICES ASSUME UploadInv, AppReceives PROVE UploadInv'
  OBVIOUS
<1> USE DEF UploadInv
<1>1. /\ at = "app" /\ at' = "app" /\ answer = "none" /\ answer' = "none"
      /\ upload' = upload /\ declared' = declared /\ size' = size
  BY DEF AppReceives, Reading
<1>2. CASE buffered # <<>>
  <2>1. /\ given' = Append(given, Head(buffered)) /\ buffered' = Tail(buffered)
        /\ sent' = sent
    BY <1>2 DEF AppReceives
  <2>2. UploadTypes' /\ Reading'
    BY <1>1, <1>2, <2>1 DEF UploadTypes, Reading
  <2>3. BufferBounded'
    <3>1. Total(buffered) = Head(buffered).size + Total(buffered')
      BY <1>2, <2>1, TotalTail DEF UploadTypes
    <3>2. Head(buffered).size \in Nat /\ Total(buffered') \in Nat
      BY <1>2, <2>2, MessageFields, TotalIsNat DEF UploadTypes
    <3>3. MaxBytes \in Nat
      BY LimitAssumption
    <3> QED BY <1>1, <3>1, <3>2, <3>3 DEF BufferBounded
  <2>4. given' \o buffered' = given \o buffered
    BY <1>2, <2>1, Replayed DEF UploadTypes
  <2>5. WholeBodyOrTooLarge'
    BY <1>1, <2>1, <2>4 DEF WholeBodyOrTooLarge
  <2> QED BY <2>2, <2>3, <2>5
<1>3. CASE buffered = <<>>
  <2>1. PICK m \in {Disconnect} \cup (IF upload THEN {} ELSE BodyMessage) :
            /\ given' = Append(given, m) /\ sent' = Append(sent, m)
            /\ buffered' = buffered
    BY <1>3 DEF AppReceives
  <2>2. m \in Message
    BY MessageFields
  <2>3. UploadTypes' /\ Reading'
    BY <1>1, <2>1, <2>2 DEF UploadTypes, Reading
  <2>4. BufferBounded'
    BY <1>1, <2>1 DEF BufferBounded
  <2>5. ASSUME upload PROVE Whole'
    <3>1. Whole
      BY <1>1, <2>5 DEF WholeBodyOrTooLarge, Whole
    <3>2. given = sent
      BY <1>3, <3>1 DEF UploadTypes, Whole
    <3>3. given' \o buffered' = sent'
      BY <1>3, <2>1, <2>2, <3>2 DEF UploadTypes
    <3>4. PICK i \in 1 .. Len(sent) : ~sent[i].more /\ ~sent[i].gone
      BY <3>1 DEF Whole
    <3>5. i \in 1 .. Len(sent') /\ sent'[i] = sent[i]
      BY <2>1, <2>2 DEF UploadTypes
    <3> QED BY <3>3, <3>4, <3>5 DEF Whole
  <2>6. WholeBodyOrTooLarge'
    BY <1>1, <2>5 DEF WholeBodyOrTooLarge, Whole
  <2> QED BY <2>3, <2>4, <2>6
<1> QED BY <1>2, <1>3

LEMMA UploadInvHolds == UploadSpec => []UploadInv
<1>1. UploadInit => UploadInv
  BY UploadStarts
<1>2. UploadInv /\ UNCHANGED requestVars => UploadInv'
  BY DEF requestVars, UploadInv, UploadTypes, Reading, BufferBounded, WholeBodyOrTooLarge
<1>3. UploadInv /\ [UploadNext]_requestVars => UploadInv'
  BY <1>2, HeadersKeep, ReceiveKeeps, GoneKeeps, AppReceivesKeeps, AnswerKeeps DEF UploadNext
<1> QED BY <1>1, <1>3, PTL DEF UploadSpec

\* However the client cuts its body, and whatever it declares, no more than the
\* limit is ever held for an upload, for any limit and any sizes.
THEOREM BufferIsBounded == UploadSpec => []BufferBounded
<1>1. UploadInv => BufferBounded
  BY DEF UploadInv
<1> QED BY <1>1, UploadInvHolds, PTL

\* The application gets the whole body or is not called, and only what was declared
\* or came larger than the limit is refused for its size.
THEOREM BodiesAreWhole == UploadSpec => []WholeBodyOrTooLarge
<1>1. UploadInv => WholeBodyOrTooLarge
  BY DEF UploadInv
<1> QED BY <1>1, UploadInvHolds, PTL

-----------------------------------------------------------------------------
LEMMA RulesNumbers == (\A n \in Percent : n \in Int) /\ (\A n \in Sizes : n \in Int)
  BY RulesAssumption

\* Uploads are refused for want of space exactly while the capacity cleanup works,
\* for any thresholds the settings allow and any usage of the disk.
THEOREM RefusalsAreCleaned == RulesInit => RefusedIsCleaned
<1> SUFFICES ASSUME RulesInit, Decidable
             PROVE  /\ ~IsReady(settings, usage) <=> CapacityCleanup(settings, usage)
                    /\ AtTarget(settings, usage) => IsReady(settings, usage)
  BY DEF RefusedIsCleaned
<1>1. /\ settings.max \in Int /\ settings.target \in Int /\ usage.used \in Int
      /\ settings.target < settings.max
  <2>1. /\ settings.max \in Percent /\ settings.target \in Percent
        /\ settings.target < settings.max /\ usage.used \in Percent
    BY DEF RulesInit, Settings, Usages, Watermarks
  <2> QED BY <2>1, RulesNumbers
<1>2. usage.writable /\ CapacityValid(settings, usage)
  BY DEF Decidable
<1>3. IsReady(settings, usage) <=> ~UnderPressure(settings, usage)
  BY <1>1, <1>2 DEF IsReady, Reasons, UnderPressure
<1>4. AtTarget(settings, usage) => ~UnderPressure(settings, usage)
  <2>1. settings.minFree \in Sizes /\ usage.free \in Sizes
    BY DEF RulesInit, Settings, Usages
  <2>2. settings.minFree \in Int /\ usage.free \in Int
    BY <2>1, RulesNumbers
  <2> QED BY <1>1, <2>2 DEF AtTarget, UnderPressure
<1> QED BY <1>2, <1>3, <1>4 DEF CapacityCleanup

LEMMA TwoMax ==
    ASSUME NEW a \in Int, NEW b \in Int
    PROVE  Max({a, b}) \in {a, b} /\ Max({a, b}) >= a /\ Max({a, b}) >= b
<1>1. \E x \in {a, b} : \A y \in {a, b} : x >= y
  OBVIOUS
<1> QED BY <1>1 DEF Max

LEMMA TwoMin ==
    ASSUME NEW a \in Int, NEW b \in Int
    PROVE  Min({a, b}) \in {a, b} /\ Min({a, b}) <= a /\ Min({a, b}) <= b
<1>1. \E x \in {a, b} : \A y \in {a, b} : x <= y
  OBVIOUS
<1> QED BY <1>1 DEF Min

LEMMA FourNumbers ==
    ASSUME NEW box \in Seq(Int), Len(box) = 4
    PROVE  box[1] \in Int /\ box[2] \in Int /\ box[3] \in Int /\ box[4] \in Int
<1>1. box \in [1 .. Len(box) -> Int]
  BY LenProperties
<1>2. box \in [1 .. 4 -> Int]
  BY <1>1
<1> QED BY <1>2

\* What is left of a box that keeps an area when it is cut to the image.
LEMMA ClampedFits ==
    ASSUME NEW canvas, canvas.width \in Nat \ {0}, canvas.height \in Nat \ {0},
           NEW box \in Seq(Int), Len(box) = 4, HasArea(Clamped(box, canvas))
    PROVE  /\ Clamped(box, canvas) \in [1 .. 4 -> Int]
           /\ BoxFits(Clamped(box, canvas), canvas)
<1> DEFINE W == canvas.width * Scale
           H == canvas.height * Scale
           c == Clamped(box, canvas)
<1>1. W \in Int /\ H \in Int
  BY DetectionAssumption
<1>2. box[1] \in Int /\ box[2] \in Int /\ box[3] \in Int /\ box[4] \in Int
  BY FourNumbers
<1> HIDE DEF W, H
<1>3. c = <<Max({0, box[1]}), Max({0, box[2]}), Min({W, box[3]}), Min({H, box[4]})>>
  BY DEF Clamped, W, H
<1>4. /\ c[1] = Max({0, box[1]}) /\ c[2] = Max({0, box[2]})
      /\ c[3] = Min({W, box[3]}) /\ c[4] = Min({H, box[4]})
  BY <1>3
<1>5. c[1] \in Int /\ c[1] >= 0 /\ c[2] \in Int /\ c[2] >= 0
  <2>1. ASSUME NEW v \in Int PROVE Max({0, v}) \in {0, v} /\ Max({0, v}) >= 0
    BY 0 \in Int, TwoMax
  <2> QED BY <1>2, <1>4, <2>1
<1>6. c[3] \in Int /\ c[3] <= W /\ c[4] \in Int /\ c[4] <= H
  <2>1. /\ Min({W, box[3]}) \in {W, box[3]} /\ Min({W, box[3]}) <= W
        /\ Min({H, box[4]}) \in {H, box[4]} /\ Min({H, box[4]}) <= H
    BY <1>1, <1>2, TwoMin
  <2> QED BY <1>1, <1>2, <1>4, <2>1
<1>7. c[1] < c[3] /\ c[2] < c[4]
  BY DEF HasArea
<1>8. c \in [1 .. 4 -> Int]
  BY <1>3, <1>4, <1>5, <1>6
<1> HIDE DEF c
<1>9. BoxFits(c, canvas)
  BY <1>5, <1>6, <1>7 DEF BoxFits, W, H
<1> QED BY <1>8, <1>9 DEF c

\* A box in the image can be drawn: its corners keep their order on the canvas.
LEMMA FittingDraws ==
    ASSUME NEW canvas, canvas.width \in Nat \ {0}, canvas.height \in Nat \ {0},
           NEW box \in [1 .. 4 -> Int], BoxFits(box, canvas)
    PROVE  BoxDraws(box, canvas)
<1> DEFINE X == (canvas.width - 1) * Scale
           Y == (canvas.height - 1) * Scale
           d == Drawn(box, canvas)
<1>1. X \in Nat /\ Y \in Nat
  <2>1. canvas.width - 1 \in Nat /\ canvas.height - 1 \in Nat /\ Scale \in Nat
    BY DetectionAssumption
  <2> QED BY <2>1
<1>2. /\ box[1] \in Int /\ box[2] \in Int /\ box[3] \in Int /\ box[4] \in Int
      /\ 0 <= box[1] /\ box[1] < box[3] /\ 0 <= box[2] /\ box[2] < box[4]
  BY DEF BoxFits
<1> HIDE DEF X, Y
<1>3. d = <<Min({X, box[1]}), Min({Y, box[2]}), Min({X, box[3]}), Min({Y, box[4]})>>
  BY DEF Drawn, X, Y
<1>4. /\ d[1] = Min({X, box[1]}) /\ d[2] = Min({Y, box[2]})
      /\ d[3] = Min({X, box[3]}) /\ d[4] = Min({Y, box[4]})
  BY <1>3
<1>5. ASSUME NEW Z \in Nat, NEW v \in Int
      PROVE  Min({Z, v}) \in {Z, v} /\ Min({Z, v}) <= Z /\ Min({Z, v}) <= v
  <2>1. Z \in Int
    OBVIOUS
  <2> QED BY <2>1, TwoMin
<1>6. d[1] \in {X, box[1]} /\ d[1] <= X /\ d[1] <= box[1] /\ d[3] \in {X, box[3]} /\ d[3] <= X
  BY <1>1, <1>2, <1>4, <1>5
<1>7. d[2] \in {Y, box[2]} /\ d[2] <= Y /\ d[2] <= box[2] /\ d[4] \in {Y, box[4]} /\ d[4] <= Y
  BY <1>1, <1>2, <1>4, <1>5
<1> HIDE DEF d
<1>8. 0 <= d[1] /\ d[1] <= d[3] /\ d[3] <= X /\ 0 <= d[2] /\ d[2] <= d[4] /\ d[4] <= Y
  BY <1>1, <1>2, <1>6, <1>7
<1> QED BY <1>8 DEF BoxDraws, X, Y, d

LEMMA BothSeeUpright ==
    ASSUME NEW img, img.width \in Nat \ {0}, img.height \in Nat \ {0}
    PROVE  /\ StatedSize(img) = Inference(img)
           /\ Inference(img).width \in Nat \ {0} /\ Inference(img).height \in Nat \ {0}
  BY DEF StatedSize, Inference, Upright, SourceSize

\* Whatever items SAM3 answers about whatever image, turned or not: a box that
\* parse_detections lets through lies in the image, and _annotate can draw it.
THEOREM AnyBoxFits ==
    ASSUME NEW img, img.width \in Nat \ {0}, img.height \in Nat \ {0},
           NEW items, \A it \in items : it.box \in Seq(Int)
    PROVE  \A box \in Parsed(items, StatedSize(img)).boxes :
              BoxFits(box, Inference(img)) /\ BoxDraws(box, Inference(img))
<1> DEFINE canvas == Inference(img)
<1>1. StatedSize(img) = canvas /\ canvas.width \in Nat \ {0} /\ canvas.height \in Nat \ {0}
  BY BothSeeUpright
<1> HIDE DEF canvas
<1>2. SUFFICES ASSUME ~ \E it \in items : Malformed(it, canvas),
                      NEW it \in items, ~Ignored(it)
               PROVE  /\ BoxFits(Clamped(it.box, canvas), canvas)
                      /\ BoxDraws(Clamped(it.box, canvas), canvas)
  BY <1>1 DEF Parsed, canvas
<1>3. Len(it.box) = 4 /\ HasArea(Clamped(it.box, canvas))
  BY <1>2 DEF Malformed, IsBox
<1>4. it.box \in Seq(Int)
  OBVIOUS
<1>5. Clamped(it.box, canvas) \in [1 .. 4 -> Int] /\ BoxFits(Clamped(it.box, canvas), canvas)
  BY <1>1, <1>3, <1>4, ClampedFits
<1> QED BY <1>1, <1>5, FittingDraws

\* In particular for the images and items of the runs, with any bounds.
THEOREM AcceptedBoxesFit == DetectionInit => BoxesFit
<1> SUFFICES ASSUME DetectionInit PROVE BoxesFit
  OBVIOUS
<1>1. image.width \in 1 .. MaxSide /\ image.height \in 1 .. MaxSide
  BY DEF DetectionInit, Images
<1>2. image.width \in Nat \ {0} /\ image.height \in Nat \ {0}
  BY <1>1
<1>3. item.box \in Seq(Int)
  <2>1. Scale \in Int /\ Coordinates \subseteq Int
    BY DetectionAssumption DEF Coordinates
  <2>2. \/ item.box \in [1 .. 4 -> Coordinates]
        \/ item.box \in {<<>>, <<0, 0, Scale, Scale>>, <<Scale, 0, 0, NotANumber>>}
    BY DEF DetectionInit, Items
  <2>3. <<>> \in Seq(Int) /\ <<0, 0, Scale, Scale>> \in Seq(Int)
    BY <2>1
  <2>4. <<Scale, 0, 0, NotANumber>> \in Seq(Int)
    BY <2>1, DetectionAssumption
  <2>5. ASSUME NEW b \in [1 .. 4 -> Coordinates] PROVE b \in Seq(Int)
    <3>1. b \in [1 .. 4 -> Int]
      BY <2>1
    <3> QED BY <3>1, SeqDef
  <2> QED BY <2>2, <2>3, <2>4, <2>5
<1> QED BY <1>2, <1>3, AnyBoxFits DEF BoxesFit
==============================================================================
