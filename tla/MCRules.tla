------------------------------- MODULE MCRules -------------------------------
(* The rules that need no interleaving, each on every bounded input, beside  *)
(* the requests of UploadLimit: a behaviour is about one of the three.       *)
EXTENDS UploadLimit, StorageRules, Detections

AnyUsage == settings = (CHOOSE s \in Settings : TRUE) /\ usage = (CHOOSE u \in Usages : TRUE)

AnyDetection == image = (CHOOSE i \in Images : Accepted(i)) /\ item = (CHOOSE i \in Items : TRUE)

NoRequest ==
    /\ upload = TRUE /\ declared = [known |-> TRUE, length |-> 0] /\ at = "done"
    /\ size = 0 /\ buffered = <<>> /\ given = <<>> /\ sent = <<>> /\ answer = "none"

Init == \/ UploadInit /\ AnyUsage /\ AnyDetection
        \/ NoRequest /\ RulesInit /\ AnyDetection
        \/ NoRequest /\ AnyUsage /\ DetectionInit

Next == UploadNext /\ UNCHANGED <<settings, usage, image, item>>

Spec == Init /\ [][Next]_<<requestVars, settings, usage, image, item>>
=============================================================================
