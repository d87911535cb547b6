------------------------------ MODULE Coverage ------------------------------
(***************************************************************************)
(* What the recorder remembers of its own polling (src/src/records.rs):    *)
(* the slots of the rounds inside the dense window, and the polled ranges, *)
(* here sets (the source keeps both ascending, and ranges never overlap);  *)
(* and which of an account's recorded slots the retention tiers keep.      *)
(***************************************************************************)
EXTENDS Naturals

CONSTANTS
    MaxGap,         \* MAX_COVERAGE_GAP
    Dense,          \* DENSE_SLOTS
    Retention,      \* RETENTION_SLOTS
    Bucket          \* SPARSE_BUCKET

ASSUME CoverageAssumption ==
    /\ MaxGap \in Nat
    /\ Dense \in Nat
    /\ Retention \in Nat
    /\ Bucket \in Nat \ {0}
    /\ Dense <= Retention

Ranges(S) == [first : S, last : S]

\* saturating_sub
Minus(x, y) == IF x >= y THEN x - y ELSE 0

IsNewest(g, ranges) == g \in ranges /\ \A h \in ranges : h.last <= g.last

\* note_round keeps a round newer than all others, and trims the list to the
\* dense window behind it.
NotedRounds(rounds, r) ==
    IF \A q \in rounds : q < r
    THEN {q \in rounds \cup {r} : q >= Minus(r, Dense)}
    ELSE rounds

\* note_round extends the newest range over a short gap, else opens one.
NotedRanges(ranges, r) ==
    LET near == {g \in ranges : IsNewest(g, ranges) /\ r - g.last <= MaxGap}
        grown == IF near = {} THEN {[first |-> r, last |-> r]}
                 ELSE {[g EXCEPT !.last = r] : g \in near}
    IN  IF \E g \in ranges : g.last >= r THEN ranges
        ELSE (ranges \ near) \cup grown

\* round_in(from, to): r is the round its binary search lands on.
IsRoundIn(rounds, r, from, to) ==
    /\ r \in rounds /\ from <= r /\ r <= to
    /\ \A q \in rounds : q >= from => r <= q

\* covers
CoversSlot(ranges, f) ==
    /\ \A g \in ranges : f + Dense >= g.last
    /\ \E g \in ranges : g.first <= f /\ f <= g.last

\* thin(n) forgets the ranges that ended before the retention window.
RetainedRanges(ranges, n) == {g \in ranges : g.last >= Minus(n, Retention)}

\* kept_slots, declaratively: which slots of S survive thinning as of n.  All
\* of the dense tier, the newest of each bucket of the sparse tier, and one
\* anchor, the newest slot before the retention window.
IsKept(S, s, n) ==
    LET denseFrom == Minus(n, Dense)
        keepFrom == Minus(n, Retention)
    IN  /\ s \in S
        /\ \/ s >= denseFrom
           \/ /\ keepFrom <= s /\ s < denseFrom
              /\ \A t \in S :
                    (t < denseFrom /\ t \div Bucket = s \div Bucket) => t <= s
           \/ /\ s < keepFrom
              /\ \A t \in S : t < keepFrom => t <= s
=============================================================================
