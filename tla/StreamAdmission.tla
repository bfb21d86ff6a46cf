--------------------------- MODULE StreamAdmission ---------------------------
(***************************************************************************)
(* What the per-stream admission of LLM work promises, without saying how  *)
(* it remembers anything: a stream that holds a slot is refused, a stream  *)
(* whose last grant is less than Cooldown ago is refused, every other      *)
(* request is granted.  Nothing is ever forgotten here.  StreamGate        *)
(* implements this with a table it prunes.                                 *)
(***************************************************************************)
EXTENDS Naturals

CONSTANTS Streams,   \* the (machine_id, stream_id) pairs
          Cooldown,  \* LLM_STREAM_COOLDOWN_SECONDS, in ticks
          MaxClock   \* bound on the clock

VARIABLES holding,   \* the streams that hold a slot
          granted,   \* stream -> time of its latest grant, for those granted once
          answer,    \* the latest answer, <<>> once time or the slots moved on
          clock

vars == <<holding, granted, answer, clock>>

Init ==
    /\ holding = {}
    /\ granted = [s \in {} |-> 0]
    /\ answer = <<>>
    /\ clock = 0

Waited(s) == s \in DOMAIN granted => clock - granted[s] >= Cooldown

AnswerInflight(s) ==
    /\ s \in holding
    /\ answer' = <<s, "stream_inflight">>
    /\ UNCHANGED <<holding, granted, clock>>

AnswerCooldown(s) ==
    /\ s \notin holding
    /\ ~Waited(s)
    /\ answer' = <<s, "cooldown">>
    /\ UNCHANGED <<holding, granted, clock>>

AnswerAdmitted(s) ==
    /\ s \notin holding
    /\ Waited(s)
    /\ answer' = <<s, "admitted">>
    /\ holding' = holding \cup {s}
    /\ granted' = [t \in DOMAIN granted \cup {s} |->
                     IF t = s THEN clock ELSE granted[t]]
    /\ UNCHANGED clock

GiveBack(s) ==
    /\ holding' = holding \ {s}
    /\ answer' = <<>>
    /\ UNCHANGED <<granted, clock>>

Tick ==
    /\ clock < MaxClock
    /\ clock' = clock + 1
    /\ answer' = <<>>
    /\ UNCHANGED <<holding, granted>>

Next ==
    \/ \E s \in Streams :
          \/ AnswerInflight(s)
          \/ AnswerCooldown(s)
          \/ AnswerAdmitted(s)
          \/ GiveBack(s)
    \/ Tick

Spec == Init /\ [][Next]_vars
=============================================================================
