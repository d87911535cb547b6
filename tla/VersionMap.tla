----------------------------- MODULE VersionMap -----------------------------
(***************************************************************************)
(* What one account's log promises (the StateStore trait of                *)
(* src/src/records.rs): a map from slots to what the account held, to      *)
(* which only newer versions are added, which thinning narrows to what the *)
(* retention tiers keep, and which an import widens without changing what  *)
(* is there.  RecordStore's ver[a] is such a map, one step per call.       *)
(***************************************************************************)
EXTENDS Coverage

CONSTANTS
    Slots,
    Values          \* what the account may hold, absent included

VARIABLE
    versions        \* the versions held, a set of [slot, val] records

SlotsHeld == {v.slot : v \in versions}

Init == versions = {}

Record(v) ==
    /\ \A s \in SlotsHeld : s < v.slot
    /\ versions' = versions \cup {v}

ThinAsOf(n) == versions' = {v \in versions : IsKept(SlotsHeld, v.slot, n)}

\* A pack adds versions at slots that have none.
Import ==
    /\ versions \subseteq versions'
    /\ \A v \in versions' \ versions :
            v.slot \in Slots \ SlotsHeld /\ v.val \in Values
    /\ \A v, w \in versions' : v.slot = w.slot => v = w

Next ==
    \/ Import
    \/ \E v \in [slot : Slots, val : Values] : Record(v)
    \/ \E n \in Slots : ThinAsOf(n)

Spec == Init /\ [][Next]_versions
=============================================================================
