------------------------------ MODULE KeptSlots ------------------------------
(***************************************************************************)
(* kept_slots (src/src/records.rs), the pass over one log's slots that     *)
(* decides which versions survive thinning, one step per iteration, and    *)
(* the declarative reading of the retention tiers it must agree with       *)
(* (IsKept of Coverage.tla, the one RecordStore thins by).                 *)
(***************************************************************************)
EXTENDS Coverage, Sequences

CONSTANTS
    Logs,       \* the slots of the logs thinned: index_of of each
    AsOf,       \* the slots thin is called with
    Nowhere     \* no index yet

ASSUME KeptSlotsAssumption ==
    /\ \A log \in Logs :
        /\ log \in Seq(Nat)
        /\ \A j, k \in DOMAIN log : j < k => log[j] < log[k]
    /\ AsOf \subseteq Nat
    /\ Nowhere \notin Nat

VARIABLES
    slots,      \* the argument
    now,        \* the argument
    cursor,     \* the iteration
    keep,       \* the indices marked true
    lastSparse, \* last_bucket: the sparse index kept last, or Nowhere
    anchor,     \* the newest index before the retention window, or Nowhere
    returned

vars == <<slots, now, cursor, keep, lastSparse, anchor, returned>>

DenseFrom == Minus(now, Dense)
KeepFrom == Minus(now, Retention)
BucketAt(j) == slots[j] \div Bucket

Init ==
    /\ slots \in Logs
    /\ now \in AsOf
    /\ cursor = 1
    /\ keep = {}
    /\ lastSparse = Nowhere
    /\ anchor = Nowhere
    /\ returned = FALSE

PassOld ==
    /\ cursor <= Len(slots)
    /\ slots[cursor] < KeepFrom
    /\ anchor' = cursor
    /\ cursor' = cursor + 1
    /\ UNCHANGED <<slots, now, keep, lastSparse, returned>>

PassDense ==
    /\ cursor <= Len(slots)
    /\ slots[cursor] >= KeepFrom
    /\ slots[cursor] >= DenseFrom
    /\ keep' = keep \cup {cursor}
    /\ cursor' = cursor + 1
    /\ UNCHANGED <<slots, now, lastSparse, anchor, returned>>

\* mutant: a newer version of a bucket does not displace the one kept before
SupersededNone(j) == {}

\* The one kept last if it lies in the bucket of index j.
Superseded(j) ==
    IF lastSparse # Nowhere /\ BucketAt(lastSparse) = BucketAt(j)
    THEN {lastSparse} ELSE {}

PassSparse ==
    /\ cursor <= Len(slots)
    /\ slots[cursor] >= KeepFrom
    /\ slots[cursor] < DenseFrom
    /\ keep' = (keep \ Superseded(cursor)) \cup {cursor}
    /\ lastSparse' = cursor
    /\ cursor' = cursor + 1
    /\ UNCHANGED <<slots, now, anchor, returned>>

Return ==
    /\ cursor > Len(slots)
    /\ ~returned
    /\ keep' = IF anchor = Nowhere THEN keep ELSE keep \cup {anchor}
    /\ returned' = TRUE
    /\ UNCHANGED <<slots, now, cursor, lastSparse, anchor>>

Next == PassOld \/ PassDense \/ PassSparse \/ Return

Spec == Init /\ [][Next]_vars

-----------------------------------------------------------------------------
SlotsOf == {slots[j] : j \in DOMAIN slots}

(* What kept_slots returns is exactly what the tiers say survives: every   *)
(* dense version, the newest of each sparse bucket, one anchor.            *)
ReturnsKept ==
    returned => \A j \in DOMAIN slots :
                    j \in keep <=> IsKept(SlotsOf, slots[j], now)

-----------------------------------------------------------------------------
(* The loop invariant: what each variable says of the indices before it.   *)

Old(j) == slots[j] < KeepFrom
Sparse(j) == KeepFrom <= slots[j] /\ slots[j] < DenseFrom

TypeOK ==
    /\ slots \in Logs
    /\ now \in AsOf
    /\ cursor \in 1 .. Len(slots) + 1
    /\ keep \subseteq 1 .. cursor - 1
    /\ lastSparse \in (1 .. cursor - 1) \cup {Nowhere}
    /\ anchor \in (1 .. cursor - 1) \cup {Nowhere}
    /\ returned \in BOOLEAN
    /\ returned => cursor > Len(slots)

LastSparseRight ==
    /\ lastSparse # Nowhere => Sparse(lastSparse)
    /\ \A j \in 1 .. cursor - 1 : Sparse(j) => lastSparse # Nowhere /\ j <= lastSparse

AnchorRight ==
    /\ anchor # Nowhere => Old(anchor)
    /\ \A j \in 1 .. cursor - 1 : Old(j) => anchor # Nowhere /\ j <= anchor

\* j is the newest of its bucket among the sparse indices before cursor.
NewestOfBucket(j) ==
    Sparse(j) /\ \A k \in 1 .. cursor - 1 :
                    (Sparse(k) /\ BucketAt(k) = BucketAt(j)) => k <= j

KeepRight ==
    ~returned => \A j \in 1 .. cursor - 1 :
        j \in keep <=> slots[j] >= DenseFrom \/ NewestOfBucket(j)

LoopInv == TypeOK /\ LastSparseRight /\ AnchorRight /\ KeepRight
=============================================================================
