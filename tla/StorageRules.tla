---------------------------- MODULE StorageRules ----------------------------
(***************************************************************************)
(* The decisions of EvidenceStore (src/app/storage.py) over the state of   *)
(* the file system: status(), _under_pressure() and _at_cleanup_target(),  *)
(* which EvidenceStore.tla takes as one measure.                           *)
(***************************************************************************)
EXTENDS Integers

CONSTANTS
    Percent,   \* the percentages, 0 .. 100
    Sizes      \* numbers of bytes

ASSUME RulesAssumption == Percent \subseteq Nat /\ Sizes \subseteq Nat

NoInodes == -1  \* the platform has no statvfs

\* validate_storage_watermarks()
Watermarks(s) == s.target < s.max

Settings == {s \in [max : Percent, target : Percent, minFree : Sizes, minInodes : Percent] :
                s.max \in 1 .. 99 /\ s.target < 99 /\ Watermarks(s)}

Usages == {u \in [total : Sizes, free : Sizes, used : Percent,
                  inodes : Percent \cup {NoInodes}, writable : BOOLEAN] :
             u.free <= u.total /\ (u.total = 0 => u.used = 100)}

-----------------------------------------------------------------------------
CapacityValid(s, u) == ~(s.minFree >= u.total /\ u.total # 0)

FewInodes(s, u) == u.inodes # NoInodes /\ u.inodes < s.minInodes

\* The reasons of status(); ready without any.
Reasons(s, u) ==
    (IF u.writable THEN {} ELSE {"not_writable"}) \cup
    (IF ~CapacityValid(s, u) THEN {"minimum_exceeds_capacity"}
     ELSE IF u.free < s.minFree THEN {"minimum_free"} ELSE {}) \cup
    (IF u.used >= s.max THEN {"maximum_usage"} ELSE {}) \cup
    (IF FewInodes(s, u) THEN {"minimum_inodes"} ELSE {})

IsReady(s, u) == Reasons(s, u) = {}

UnderPressureAbove(s, u) == u.used > s.max \/ u.free < s.minFree \/ FewInodes(s, u)
UnderPressure(s, u) == u.used >= s.max \/ u.free < s.minFree \/ FewInodes(s, u)

AtTarget(s, u) == u.used <= s.target /\ u.free >= s.minFree /\ ~FewInodes(s, u)

\* maintain() deletes by capacity.
CapacityCleanup(s, u) == CapacityValid(s, u) /\ UnderPressure(s, u)

-----------------------------------------------------------------------------
VARIABLES settings, usage

RulesInit == settings \in Settings /\ usage \in Usages

Decidable == usage.writable /\ CapacityValid(settings, usage)

\* Uploads are refused for want of space exactly while the capacity cleanup works,
\* and accepted again where it stops: there is no usage at which the service stays
\* refused and nothing is deleted, but for a minimum the file system cannot meet.
RefusedIsCleaned ==
    Decidable => /\ ~IsReady(settings, usage) <=> CapacityCleanup(settings, usage)
                 /\ AtTarget(settings, usage) => IsReady(settings, usage)
=============================================================================
