---------------------------- MODULE UploadLimit ----------------------------
(***************************************************************************)
(* UploadLimitMiddleware (src/app/main.py), one request: the body of an    *)
(* upload is buffered message by message up to a limit, and only a whole   *)
(* body is replayed to the application.  A message counts by its size.     *)
(***************************************************************************)
EXTENDS Naturals, Sequences

CONSTANTS
    MaxBytes,    \* max_bytes
    MaxChunk,    \* bound on the body of a message
    MaxMessages  \* bound on the messages of a request

ASSUME LimitAssumption == {MaxBytes, MaxChunk, MaxMessages} \subseteq Nat

BodyMessage == [size : 0 .. MaxChunk, more : BOOLEAN, gone : {FALSE}]
Disconnect == [size |-> 0, more |-> FALSE, gone |-> TRUE]

VARIABLES
    upload,    \* the request is a POST to /v1/frames
    declared,  \* Content-Length, 0 when absent; not known: no number, or negative
    at,        \* "headers", "reading", "app" or "done"
    size,
    buffered,  \* messages, and later what replay() has still to give
    given,     \* what the application has received
    answer,    \* "none", "400" or "413" of the middleware, or "app"
    sent       \* history: what receive() returned

requestVars == <<upload, declared, at, size, buffered, given, answer, sent>>

\* The bytes of the first i of some messages, for each i; and of all of them.
Sums(messages) ==
    LET sum[i \in 0 .. Len(messages)] ==
            IF i = 0 THEN 0 ELSE sum[i - 1] + messages[i].size
    IN sum

Total(messages) == Sums(messages)[Len(messages)]

UploadInit ==
    /\ upload \in BOOLEAN
    /\ declared \in [known : {TRUE}, length : 0 .. MaxBytes + 1]
                    \cup {[known |-> FALSE, length |-> 0]}
    /\ at = "headers" /\ size = 0
    /\ buffered = <<>> /\ given = <<>> /\ sent = <<>>
    /\ answer = "none"

-----------------------------------------------------------------------------
TooLarge(n) == n > MaxBytes

Answer(code) == at' = "done" /\ answer' = code

\* Another request goes to the application untouched; an upload by its header.
ReadHeaders ==
    /\ at = "headers"
    /\ CASE ~upload -> at' = "app" /\ UNCHANGED answer
         [] upload /\ ~declared.known -> Answer("400")
         [] upload /\ declared.known /\ TooLarge(declared.length) -> Answer("413")
         [] OTHER -> at' = "reading" /\ UNCHANGED answer
    /\ UNCHANGED <<upload, declared, size, buffered, given, sent>>

SizeBefore(m) == size
SizeWith(m) == size + m.size
KeptUnlessLast(m) == IF m.more THEN Append(buffered, m) ELSE buffered
Kept(m) == Append(buffered, m)

\* The loop over receive(): the message that exceeds the limit is not kept.
Receive(m) ==
    /\ at = "reading" /\ Len(sent) < MaxMessages
    /\ sent' = Append(sent, m)
    /\ size' = size + m.size
    /\ IF TooLarge(SizeWith(m))
       THEN Answer("413") /\ UNCHANGED buffered
       ELSE /\ buffered' = Kept(m)
            /\ at' = (IF m.more THEN "reading" ELSE "app") /\ UNCHANGED answer
    /\ UNCHANGED <<upload, declared, given>>

\* The client goes away while its body is read: nobody is called or answered.
ClientGone ==
    /\ at = "reading"
    /\ at' = "done"
    /\ UNCHANGED <<upload, declared, size, buffered, given, answer, sent>>

\* The application receives: replay() first, and then what the server has.
AppReceives ==
    /\ at = "app"
    /\ IF buffered # <<>>
       THEN /\ given' = Append(given, Head(buffered)) /\ buffered' = Tail(buffered)
            /\ UNCHANGED sent
       ELSE \E m \in {Disconnect} \cup (IF upload THEN {} ELSE BodyMessage) :
               /\ Len(sent) < MaxMessages + 1
               /\ given' = Append(given, m) /\ sent' = Append(sent, m)
               /\ UNCHANGED buffered
    /\ UNCHANGED <<upload, declared, at, size, answer>>

AppAnswers ==
    /\ at = "app" /\ Answer("app")
    /\ UNCHANGED <<upload, declared, size, buffered, given, sent>>

UploadNext == \/ ReadHeaders \/ (\E m \in BodyMessage : Receive(m)) \/ ClientGone
              \/ AppReceives \/ AppAnswers

UploadSpec == UploadInit /\ [][UploadNext]_requestVars

-----------------------------------------------------------------------------
\* main.py, "Bound the whole multipart body": whatever the client declares and
\* however it cuts its body, no more than the limit is ever held for it.
BufferBounded == upload => Total(buffered) <= MaxBytes

\* The application sees the body the client sent, message for message and to its
\* end, or is not called at all; and it is refused only what was declared, or came,
\* larger than the limit.
WholeBodyOrTooLarge ==
    /\ upload /\ (at = "app" \/ answer = "app")
       => /\ given \o buffered = sent
          /\ \E i \in 1 .. Len(sent) : ~sent[i].more /\ ~sent[i].gone
    /\ answer = "413"
       => given = <<>> /\ (declared.length > MaxBytes \/ Total(sent) > MaxBytes)
=============================================================================
