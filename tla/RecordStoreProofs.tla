-------------------------- MODULE RecordStoreProofs --------------------------
(***************************************************************************)
(* For every set of accounts, chunk size, retention and chain length: the  *)
(* types of RecordStore, and the soundness of the claims of its lookups.   *)
(***************************************************************************)
EXTENDS RecordStore, TLAPS

(***************************************************************************)
(* Types.                                                                  *)
(***************************************************************************)

LEMMA MinusInNat == ASSUME NEW x \in Nat, NEW y \in Nat
                    PROVE  Minus(x, y) \in Nat /\ Minus(x, y) <= x
  BY DEF Minus

LEMMA NotedRoundsType ==
    ASSUME NEW R \in SUBSET Slot, NEW r \in Slot
    PROVE  NotedRounds(R, r) \in SUBSET Slot
  BY DEF NotedRounds

LEMMA NotedRangesType ==
    ASSUME NEW G \in SUBSET Ranges(Slot), NEW r \in Slot
    PROVE  NotedRanges(G, r) \in SUBSET Ranges(Slot)
  <1> DEFINE near == {g \in G : IsNewest(g, G) /\ r - g.last <= MaxGap}
             grown == IF near = {} THEN {[first |-> r, last |-> r]}
                      ELSE {[g EXCEPT !.last = r] : g \in near}
  <1>1. grown \subseteq Ranges(Slot)
    BY DEF Ranges
  <1> HIDE DEF grown
  <1>2. QED
    BY <1>1 DEF NotedRanges, grown

LEMMA RecordedType ==
    ASSUME ver \in [Account -> [Slot -> OptSlot]],
           NEW a \in Account, NEW s \in Slot, NEW v \in Slot
    PROVE  Recorded(a, s, v) \in [Account -> [Slot -> OptSlot]]
  <1>1. v \in OptSlot
    BY DEF OptSlot
  <1>2. [ver EXCEPT ![a][s] = v] \in [Account -> [Slot -> OptSlot]]
    BY <1>1
  <1>3. QED
    BY <1>2 DEF Recorded

\* A version is stored, or refused, without leaving the types.
LEMMA ExceptType ==
    ASSUME NEW S, NEW T, NEW f \in [S -> T], NEW x \in S, NEW v \in T
    PROVE  [f EXCEPT ![x] = v] \in [S -> T]
  OBVIOUS

\* The fields of the poller and of the reader, and the states they go to.
LEMMA ReaderTypes ==
    ASSUME TypeOK
    PROVE  /\ IdlePoll \in [todo : SUBSET Account, chunk : SUBSET Account,
                             slot : Slot]
           /\ IdleReader \in Reader
           /\ Unproven \in Reader
           /\ \A r \in Slot : Claimed(r) \in Reader
  <1>1. 0 \in Slot /\ None \in OptSlot
    BY StoreAssumption DEF Slot, OptSlot
  <1>2. rd \in Reader
    BY DEF TypeOK
  <1>3. IdlePoll \in [todo : SUBSET Account, chunk : SUBSET Account, slot : Slot]
    BY <1>1 DEF IdlePoll
  <1>4. IdleReader \in Reader
    BY <1>1 DEF IdleReader, Reader
  <1>5. Unproven \in Reader
    BY <1>2, <1>1 DEF Unproven, Reader, IdleReader
  <1>6. \A r \in Slot : Claimed(r) \in Reader
    BY <1>2, <1>1 DEF Claimed, Reader, IdleReader
  <1>7. QED
    BY <1>3, <1>4, <1>5, <1>6

\* Every step keeps the types.
LEMMA TypeStep == TypeOK /\ [Next]_vars => TypeOK'
  <1> SUFFICES ASSUME TypeOK, [Next]_vars PROVE TypeOK'
    OBVIOUS
  <1> USE DEF chainVars, storeVars
  <1>a. /\ MaxSlot \in Nat /\ None \notin Nat /\ Dense \in Nat
        /\ 0 \in Slot /\ None \in OptSlot /\ Slot \subseteq OptSlot
    BY StoreAssumption, CoverageAssumption DEF Slot, OptSlot
  <1>b. now \in Slot /\ (1 .. now) \subseteq Slot /\ thinned \in Slot
    BY <1>a DEF TypeOK, Slot
  <1>c. /\ truth \in [Account -> [Slot -> Slot]]
        /\ ver \in [Account -> [Slot -> OptSlot]]
        /\ compared \in [Account -> SUBSET Slot]
    BY DEF TypeOK
  <1>d. /\ poll.todo \subseteq Account
        /\ poll.chunk \subseteq Account
        /\ poll.slot \in Slot
        /\ rd \in Reader
        /\ rd.pc # "idle" => rd.acct \in Account
    BY DEF TypeOK
  <1>1. ASSUME NEW W \in SUBSET Account, Advance(W) PROVE TypeOK'
    <2>1. now + 1 \in Slot /\ now' = now + 1
      BY <1>1, <1>a, <1>b DEF Advance, Slot
    <2> DEFINE t(a) == [truth[a] EXCEPT ![now + 1] =
                           IF a \in W THEN now + 1 ELSE truth[a][now]]
    <2>2. ASSUME NEW a \in Account PROVE t(a) \in [Slot -> Slot]
      <3>1. truth[a] \in [Slot -> Slot] /\ truth[a][now] \in Slot
        BY <1>b, <1>c
      <3>2. (IF a \in W THEN now + 1 ELSE truth[a][now]) \in Slot
        BY <2>1, <3>1
      <3>3. QED
        BY <2>1, <3>1, <3>2, ExceptType
    <2>3. truth' = [a \in Account |-> t(a)]
      BY <1>1 DEF Advance
    <2> HIDE DEF t
    <2>4. truth' \in [Account -> [Slot -> Slot]]
      BY <2>2, <2>3
    <2>5. QED
      BY <1>1, <2>1, <2>4 DEF Advance, TypeOK
  <1>2. CASE StartRound
    BY <1>2 DEF StartRound, TypeOK
  <1>3. ASSUME NEW C \in SUBSET poll.todo, NEW r \in 1 .. now, FetchChunk(C, r)
        PROVE  TypeOK'
    <2>1. rounds' \subseteq Slot /\ cov' \subseteq Ranges(Slot)
      BY <1>3, <1>b, NotedRoundsType, NotedRangesType DEF FetchChunk, TypeOK
    <2>2. poll' \in [todo : SUBSET Account, chunk : SUBSET Account, slot : Slot]
      BY <1>3, <1>b, <1>d DEF FetchChunk
    <2>3. QED
      BY <1>3, <2>1, <2>2 DEF FetchChunk, TypeOK
  <1>4. ASSUME NEW a \in Account, CompareOne(a) PROVE TypeOK'
    <2>1. truth[a][poll.slot] \in Slot
      BY <1>c, <1>d
    <2>2. ver' \in [Account -> [Slot -> OptSlot]]
      BY <1>4, <1>c, <1>d, <2>1, RecordedType DEF CompareOne
    <2>3. compared' \in [Account -> SUBSET Slot]
      BY <1>4, <1>c, <1>d DEF CompareOne
    <2>4. poll' \in [todo : SUBSET Account, chunk : SUBSET Account, slot : Slot]
      <3>1. poll' = [poll EXCEPT !.chunk = @ \ {a},
                        !.slot = IF poll.chunk = {a} THEN 0 ELSE @]
        BY <1>4 DEF CompareOne
      <3>2. (IF poll.chunk = {a} THEN 0 ELSE poll.slot) \in Slot
        BY <1>a, <1>d
      <3>3. QED
        BY <3>1, <3>2 DEF TypeOK
    <2>5. QED
      BY <1>4, <2>2, <2>3, <2>4 DEF CompareOne, TypeOK
  <1>5. CASE PollFails
    BY <1>5, ReaderTypes DEF PollFails, TypeOK
  <1>6. ASSUME NEW n \in 1 .. now, Thin(n) PROVE TypeOK'
    <2>1. n \in Nat /\ n <= MaxSlot
      BY <1>a, <1>b DEF Slot
    <2>2. Minus(n, Dense) \in Slot
      BY <1>a, <2>1 DEF Minus, Slot
    <2>3. thinned' \in Slot
      BY <1>6, <1>b, <2>2 DEF Thin
    <2>4. ver' \in [Account -> [Slot -> OptSlot]]
      <3>1. ASSUME NEW a \in Account, NEW s \in Slot
            PROVE  (IF Kept(a, s, n) THEN ver[a][s] ELSE None) \in OptSlot
        BY <1>a, <1>c
      <3>2. QED
        BY <1>6, <3>1 DEF Thin
    <2>5. cov' \subseteq Ranges(Slot)
      BY <1>6 DEF Thin, RetainedRanges, TypeOK
    <2>6. QED
      BY <1>6, <2>3, <2>4, <2>5 DEF Thin, TypeOK
  <1>7. ASSUME NEW a \in Account, NEW f \in 1 .. now, BeginLookup(a, f)
        PROVE  TypeOK'
    <2>1. truth[a][f] \in Slot
      BY <1>b, <1>c
    <2>2. PICK v \in OptSlot :
            rd' = [IdleReader EXCEPT !.pc = "begun", !.acct = a, !.floor = f,
                                     !.streamed = v]
      <3>1. StreamAnswers(a, f) \subseteq OptSlot /\ {None} \subseteq OptSlot
        BY <2>1, <1>a DEF StreamAnswers
      <3>2. QED
        BY <1>7, <3>1 DEF BeginLookup
    <2>3. rd' \in Reader /\ rd'.acct \in Account
      BY <2>2, <1>a, <1>b DEF IdleReader, Reader
    <2>4. QED
      BY <1>7, <2>3 DEF BeginLookup, TypeOK
  <1>8. CASE ReadStart
    <2>1. rd.acct \in Account
      BY <1>8, <1>d DEF ReadStart
    <2>2. rd' \in Reader /\ (rd'.pc # "idle" => rd'.acct \in Account)
      <3>1. CASE rd' = Unproven
        BY <3>1, <2>1, ReaderTypes DEF Unproven, IdleReader
      <3>2. ASSUME NEW s \in Slot,
                   rd' = [rd EXCEPT !.pc = "started", !.start = s,
                                    !.val = ver[rd.acct][s]]
            PROVE  rd' \in Reader /\ (rd'.pc # "idle" => rd'.acct \in Account)
        <4>1. ver[rd.acct][s] \in OptSlot /\ s \in OptSlot
          BY <2>1, <1>a, <1>c
        <4>2. QED
          BY <3>2, <4>1, <2>1, <1>d DEF Reader
      <3>3. QED
        BY <1>8, <3>1, <3>2 DEF ReadStart
    <2>3. QED
      BY <1>8, <2>1, <2>2 DEF ReadStart, TypeOK
  <1>9. CASE ReadNext
    <2>1. rd.acct \in Account /\ compared[rd.acct] \in SUBSET Slot
      BY <1>9, <1>c, <1>d DEF ReadNext
    <2>2. rd' \in Reader /\ rd'.acct \in Account
      BY <1>9, <1>d, <2>1 DEF ReadNext, Reader
    <2>3. QED
      BY <1>9, <2>2 DEF ReadNext, TypeOK
  <1>10. CASE ReadProof
    <2>1. rd.acct \in Account
      BY <1>10, <1>d DEF ReadProof
    <2>2. Unproven.acct = rd.acct /\ \A r \in Slot : Claimed(r).acct = rd.acct
      BY DEF Unproven, Claimed, IdleReader
    <2>3. rd' \in Reader /\ rd'.acct \in Account
      BY <1>10, <2>1, <2>2, ReaderTypes DEF ReadProof
    <2>4. QED
      BY <1>10, <2>3 DEF ReadProof, TypeOK
  <1>11. CASE WriteThrough
    <2>1. rd.acct \in Account /\ rd.streamed \in Slot \cup {None}
      BY <1>11, <1>d DEF WriteThrough, Reader, OptSlot
    <2>2. ver' \in [Account -> [Slot -> OptSlot]]
      BY <1>11, <1>c, <2>1, RecordedType DEF WriteThrough
    <2>3. QED
      BY <1>11, <2>2, ReaderTypes DEF WriteThrough, TypeOK, IdleReader
  <1>12. CASE FinishLookup
    BY <1>12, ReaderTypes DEF FinishLookup, TypeOK, IdleReader
  <1>13. ASSUME NEW a \in Account, NEW f \in 1 .. now, RecordUnwatched(a, f)
         PROVE  TypeOK'
    <2>1. truth[a][f] \in Slot
      BY <1>b, <1>c
    <2>2. ver' \in [Account -> [Slot -> OptSlot]]
      BY <1>13, <1>c, <2>1, RecordedType DEF RecordUnwatched
    <2>3. QED
      BY <1>13, <2>2 DEF RecordUnwatched, TypeOK
  <1>14. CASE Restart
    BY <1>14, ReaderTypes DEF Restart, TypeOK, IdleReader
  <1>15. CASE UNCHANGED vars
    BY <1>15 DEF vars, TypeOK
  <1>16. QED
    BY <1>1, <1>2, <1>3, <1>4, <1>5, <1>6, <1>7, <1>8, <1>9, <1>10, <1>11,
       <1>12, <1>13, <1>14, <1>15 DEF Next, Poller, Request

(* Every behaviour of the store keeps its types, and no slot it remembers  *)
(* leaves the chain's range, for every value of the constants.             *)
THEOREM TypeCorrect == Spec => []TypeOK
  <1>1. Init => TypeOK
    BY StoreAssumption DEF Init, TypeOK, IdlePoll, IdleReader, Reader, Slot,
                           OptSlot
  <1>2. QED
    BY <1>1, TypeStep, PTL DEF Spec

(***************************************************************************)
(* The inductive invariant behind ClaimSound.                              *)
(***************************************************************************)

\* What an account holds only moves forward, and is the slot of a write.
TruthMonotone ==
    \A a \in Account : \A s, t \in Slot :
        (s <= t /\ t <= now) => truth[a][s] <= truth[a][t]

TruthIsWrite ==
    \A a \in Account : \A s \in Slot :
        s <= now => /\ truth[a][s] <= s
                    /\ truth[a][truth[a][s]] = truth[a][s]

\* A version holds what the account held at its stamp.
VersionsTrue ==
    \A a \in Account : \A s \in Held(a) : s <= now /\ ver[a][s] = truth[a][s]

\* A round that compared an account and is not thinned yet finds, as the
\* newest version at or before it, what the account held then.
HeldAt(a, r) == \E s \in Slot : IsNewestAt(a, s, r) /\ ver[a][s] = truth[a][r]

ComparedHeld ==
    \A a \in Account : \A r \in compared[a] :
        r <= now /\ (thinned <= r => HeldAt(a, r))

PollSlot == poll.slot <= now

\* The streamed version is a write of the account.
StreamedTrue ==
    (rd.pc \in {"begun", "started", "next", "unproven"} /\ rd.streamed # None)
        => rd.streamed <= now /\ truth[rd.acct][rd.streamed] = rd.streamed

\* What the reader has read so far.
StartTrue ==
    rd.pc \in {"started", "next"} =>
        /\ rd.start \in Slot /\ rd.start <= rd.floor
        /\ rd.val = truth[rd.acct][rd.start]

Before(r, u) == u # None => r < u

NextTrue ==
    rd.pc = "next" =>
        \A r \in rd.snap :
            (rd.floor <= r /\ Before(r, rd.next) /\ thinned <= rd.floor)
                => rd.val = truth[rd.acct][rd.floor]

ReaderTrue ==
    /\ rd.pc # "idle" => rd.floor <= now
    /\ StreamedTrue
    /\ StartTrue
    /\ NextTrue

Inv ==
    /\ TypeOK
    /\ TruthMonotone
    /\ TruthIsWrite
    /\ VersionsTrue
    /\ ComparedHeld
    /\ PollSlot
    /\ ReaderTrue
    /\ ClaimSound

\* The types the steps below use, in the form they use them.
LEMMA BasicTypes ==
    ASSUME TypeOK
    PROVE  /\ MaxSlot \in Nat /\ None \notin Nat
           /\ Slot \subseteq Nat /\ now \in Slot /\ thinned \in Slot
           /\ \A a \in Account : \A s \in Slot :
                 truth[a][s] \in Slot /\ ver[a][s] \in OptSlot
           /\ \A a \in Account : compared[a] \subseteq Slot
           /\ \A a \in Account : Held(a) \subseteq Slot
           /\ \A f \in 1 .. now : f \in Slot /\ f <= now
  <1>1. /\ truth \in [Account -> [Slot -> Slot]]
        /\ ver \in [Account -> [Slot -> OptSlot]]
        /\ compared \in [Account -> SUBSET Slot]
    BY DEF TypeOK
  <1>2. \A a \in Account : \A s \in Slot :
            truth[a][s] \in Slot /\ ver[a][s] \in OptSlot
    BY <1>1
  <1>3. MaxSlot \in Nat /\ None \notin Nat /\ Slot \subseteq Nat
    BY StoreAssumption DEF Slot
  <1>4. now \in Slot /\ thinned \in Slot
    BY DEF TypeOK
  <1>5. \A f \in 1 .. now : f \in Slot /\ f <= now
    BY <1>3, <1>4 DEF Slot
  <1>6. QED
    BY <1>1, <1>2, <1>3, <1>4, <1>5 DEF Held

\* Storing what an account held at a slot, newest version or not at all,
\* keeps every version true and every comparison in force.
LEMMA RecordHeld ==
    ASSUME TypeOK, TruthMonotone, VersionsTrue, ComparedHeld,
           NEW a \in Account, NEW s \in Slot, s <= now,
           ver' = Recorded(a, s, truth[a][s]),
           UNCHANGED <<now, truth>>
    PROVE  /\ VersionsTrue'
           /\ \A b \in Account : \A r \in compared[b] :
                 r <= now /\ (thinned <= r => HeldAt(b, r)')
           /\ (\A t \in Held(a) : t < s) => HeldAt(a, s)'
  <1> USE BasicTypes
  <1>1. CASE \E t \in Held(a) : t >= s
    <2>1. ver' = ver
      BY <1>1 DEF Recorded
    <2>2. QED
      BY <2>1, <1>1 DEF VersionsTrue, ComparedHeld, HeldAt, IsNewestAt, Held
  <1>2. CASE \A t \in Held(a) : t < s
    <2>1. ver' = [ver EXCEPT ![a][s] = truth[a][s]]
      BY <1>2 DEF Recorded
    <2>2. /\ ver'[a][s] = truth[a][s]
          /\ \A b \in Account : \A t \in Slot :
                (b # a \/ t # s) => ver'[b][t] = ver[b][t]
      BY <2>1 DEF TypeOK
    <2>3. /\ Held(a)' = Held(a) \cup {s}
          /\ \A b \in Account : b # a => Held(b)' = Held(b)
      BY <2>2 DEF Held, OptSlot
    <2>4. VersionsTrue'
      BY <2>2, <2>3 DEF VersionsTrue
    <2>5. IsNewestAt(a, s, s)'
      BY <2>3 DEF IsNewestAt
    <2>6. ASSUME NEW b \in Account, NEW r \in compared[b], thinned <= r
          PROVE  HeldAt(b, r)'
      <3>1. PICK m \in Slot : IsNewestAt(b, m, r) /\ ver[b][m] = truth[b][r]
        BY <2>6 DEF ComparedHeld, HeldAt
      <3>2. r \in Slot /\ r <= now
        BY DEF ComparedHeld
      <3>3. CASE b = a /\ s <= r
        <4>1. IsNewestAt(b, s, r)'
          BY <2>3, <3>2, <3>3, <1>2 DEF IsNewestAt
        <4>2. m < s /\ truth[a][m] = truth[a][r]
          BY <3>1, <3>3, <1>2 DEF IsNewestAt, VersionsTrue
        <4>3. truth[a][m] <= truth[a][s] /\ truth[a][s] <= truth[a][r]
          BY <4>2, <3>2, <3>3 DEF TruthMonotone
        <4>4. truth[a][s] = truth[a][r]
          BY <4>2, <4>3, <3>2
        <4>5. QED
          BY <4>1, <4>4, <2>2, <3>3 DEF HeldAt
      <3>4. CASE b # a
        <4>1. IsNewestAt(b, m, r)' /\ ver'[b][m] = truth[b][r]
          BY <3>1, <3>4, <2>2, <2>3 DEF IsNewestAt
        <4>2. QED
          BY <4>1 DEF HeldAt
      <3>5. CASE b = a /\ r < s
        <4>1. m # s
          BY <3>1, <3>5, <3>2 DEF IsNewestAt
        <4>2. IsNewestAt(b, m, r)' /\ ver'[b][m] = truth[b][r]
          BY <3>1, <3>2, <3>5, <4>1, <2>2, <2>3 DEF IsNewestAt
        <4>3. QED
          BY <4>2 DEF HeldAt
      <3>6. QED
        BY <3>2, <3>3, <3>4, <3>5
    <2>7. HeldAt(a, s)'
      BY <2>2, <2>5 DEF HeldAt
    <2>8. QED
      BY <2>4, <2>6, <2>7 DEF ComparedHeld
  <1>3. QED
    BY <1>1, <1>2

\* The newest version at or before a slot of the dense tier survives thin.
LEMMA ThinKeeps ==
    ASSUME TypeOK, NEW a \in Account, NEW n \in 1 .. now, NEW r \in Slot,
           Minus(n, Dense) <= r, NEW m \in Slot, IsNewestAt(a, m, r)
    PROVE  Kept(a, m, n)
  <1> USE BasicTypes
  <1>1. n \in Nat /\ Minus(n, Dense) \in Nat /\ Minus(n, Retention) \in Nat
    BY CoverageAssumption, MinusInNat
  <1>2. m \in Held(a) /\ m <= r /\ \A t \in Held(a) : t <= r => t <= m
    BY DEF IsNewestAt
  <1>3. \A t \in Held(a) : t < Minus(n, Dense) => t <= m
    BY <1>1, <1>2
  <1>4. Minus(n, Retention) <= Minus(n, Dense)
    BY <1>1, CoverageAssumption DEF Minus
  <1>5. \A t \in Held(a) : t < Minus(n, Retention) => t <= m
    BY <1>1, <1>3, <1>4
  <1>6. QED
    BY <1>1, <1>2, <1>3, <1>5 DEF Kept, IsKept

LEMMA ThinStep ==
    ASSUME TypeOK, VersionsTrue, ComparedHeld,
           NEW n \in 1 .. now, Thin(n)
    PROVE  VersionsTrue' /\ ComparedHeld' /\ thinned <= thinned'
  <1> USE BasicTypes
  <1>1. Minus(n, Dense) \in Nat
    BY CoverageAssumption, MinusInNat
  <1>2. thinned' \in Nat /\ thinned <= thinned' /\ Minus(n, Dense) <= thinned'
    BY <1>1 DEF Thin
  <1>3. UNCHANGED <<now, truth, compared>>
    BY DEF Thin, chainVars
  <1>4. \A a \in Account : \A s \in Slot :
            ver'[a][s] = IF Kept(a, s, n) THEN ver[a][s] ELSE None
    BY DEF Thin
  <1>5. \A a \in Account : Held(a)' \subseteq Held(a)
    BY <1>4 DEF Held
  <1>6. VersionsTrue'
    BY <1>3, <1>4, <1>5 DEF VersionsTrue, Held
  <1>7. ASSUME NEW a \in Account, NEW r \in compared[a], thinned' <= r
        PROVE  HeldAt(a, r)'
    <2>1. r \in Slot /\ r <= now /\ thinned <= r /\ Minus(n, Dense) <= r
      BY <1>1, <1>2, <1>7 DEF ComparedHeld
    <2>2. PICK m \in Slot : IsNewestAt(a, m, r) /\ ver[a][m] = truth[a][r]
      BY <2>1 DEF ComparedHeld, HeldAt
    <2>3. Kept(a, m, n)
      BY <2>1, <2>2, ThinKeeps
    <2>4. m \in Held(a)' /\ ver'[a][m] = truth[a][r]
      BY <1>4, <2>2, <2>3 DEF Held, IsNewestAt
    <2>5. IsNewestAt(a, m, r)'
      BY <1>5, <2>2, <2>4 DEF IsNewestAt
    <2>6. QED
      BY <2>4, <2>5, <1>3 DEF HeldAt
  <1>8. QED
    BY <1>2, <1>3, <1>6, <1>7 DEF ComparedHeld

\* A reader that does not move, on a chain that keeps its past.
LEMMA ReaderStays ==
    ASSUME TypeOK, ReaderTrue, ClaimSound, UNCHANGED rd,
           now' \in Slot, now <= now', thinned' \in Slot, thinned <= thinned',
           \A a \in Account : \A s \in Slot :
               s <= now => truth'[a][s] = truth[a][s]
    PROVE  ReaderTrue' /\ ClaimSound'
  <1> USE BasicTypes
  <1>1. rd \in Reader /\ (rd.pc # "idle" => rd.acct \in Account)
    BY DEF TypeOK
  <1>2. rd.floor \in Slot /\ rd.streamed \in OptSlot
    BY <1>1 DEF Reader
  <1>3. StreamedTrue'
    BY <1>1, <1>2 DEF ReaderTrue, StreamedTrue, OptSlot
  <1>4. StartTrue'
    <2>1. CASE rd.pc \in {"started", "next"}
      <3>1. /\ rd.acct \in Account /\ rd.floor <= now /\ rd.start \in Slot
            /\ rd.start <= rd.floor /\ rd.val = truth[rd.acct][rd.start]
        BY <1>1, <2>1 DEF ReaderTrue, StartTrue
      <3>2. rd.start <= now
        BY <1>2, <3>1
      <3>3. QED
        BY <3>1, <3>2 DEF StartTrue
    <2>2. QED
      BY <2>1 DEF StartTrue
  <1>5. NextTrue'
    <2>1. CASE rd.pc = "next"
      <3>1. rd.acct \in Account /\ rd.floor <= now
        BY <1>1, <2>1 DEF ReaderTrue
      <3>2. truth'[rd.acct][rd.floor] = truth[rd.acct][rd.floor]
        BY <1>2, <3>1
      <3>3. thinned' <= rd.floor => thinned <= rd.floor
        BY <1>2
      <3>4. QED
        BY <3>2, <3>3 DEF NextTrue, ReaderTrue
    <2>2. QED
      BY <2>1 DEF NextTrue
  <1>6. ClaimSound'
    <2>1. CASE rd.pc = "claimed"
      <3>1. rd.acct \in Account /\ rd.floor <= now
        BY <1>1, <2>1 DEF ReaderTrue
      <3>2. truth'[rd.acct][rd.floor] = truth[rd.acct][rd.floor]
        BY <1>2, <3>1
      <3>3. thinned' <= rd.floor => thinned <= rd.floor
        BY <1>2
      <3>4. QED
        BY <3>2, <3>3 DEF ClaimSound
    <2>2. QED
      BY <2>1 DEF ClaimSound
  <1>7. rd.pc # "idle" => rd.floor <= now'
    BY <1>2 DEF ReaderTrue
  <1>8. QED
    BY <1>3, <1>4, <1>5, <1>6, <1>7 DEF ReaderTrue

\* What holds of the chain and the store when neither moves.
LEMMA StoreStays ==
    ASSUME Inv, UNCHANGED <<now, truth, ver, compared, thinned>>
    PROVE  TruthMonotone' /\ TruthIsWrite' /\ VersionsTrue' /\ ComparedHeld'
  BY DEF Inv, TruthMonotone, TruthIsWrite, VersionsTrue, ComparedHeld, HeldAt,
         IsNewestAt, Held

\* An idle reader has claimed nothing.
LEMMA IdleIsTrue ==
    ASSUME rd' = IdleReader PROVE ReaderTrue' /\ ClaimSound'
  BY DEF IdleReader, ReaderTrue, StreamedTrue, StartTrue, NextTrue, ClaimSound

LEMMA AdvanceStep ==
    ASSUME Inv, NEW W \in SUBSET Account, Advance(W), TypeOK'
    PROVE  Inv'
  <1>t. /\ TypeOK /\ TruthMonotone /\ TruthIsWrite /\ VersionsTrue
        /\ ComparedHeld /\ PollSlot /\ ReaderTrue /\ ClaimSound
    BY DEF Inv
  <1>n. /\ Slot \subseteq Nat /\ now \in Slot /\ now \in Nat /\ thinned \in Slot
        /\ \A a \in Account : \A s \in Slot : truth[a][s] \in Slot
    BY <1>t, BasicTypes
  <1>1. /\ now' = now + 1 /\ now' \in Slot
        /\ UNCHANGED <<ver, compared, thinned, poll, rd>>
    BY DEF Advance, storeVars, TypeOK
  <1>2. \A a \in Account : \A s \in Slot :
            truth'[a][s] = IF s = now + 1
                           THEN IF a \in W THEN now + 1 ELSE truth[a][now]
                           ELSE truth[a][s]
    BY <1>t DEF Advance, TypeOK
  <1>3. \A a \in Account : \A s \in Slot : s <= now => truth'[a][s] = truth[a][s]
    BY <1>2, <1>n
  <1>4. \A a \in Account : truth[a][now] \in Slot /\ truth[a][now] <= now
    BY <1>t, <1>n DEF TruthIsWrite
  <1>5. TruthMonotone'
    <2>1. ASSUME NEW a \in Account, NEW s \in Slot, NEW t \in Slot,
                 s <= t, t <= now'
          PROVE  truth'[a][s] <= truth'[a][t]
      <3>n. s \in Nat /\ t \in Nat
        BY <1>n
      <3>1. CASE t <= now
        <4>1. s <= now /\ truth[a][s] <= truth[a][t]
          BY <3>1, <3>n, <2>1, <1>t, <1>n DEF TruthMonotone
        <4>2. QED
          BY <4>1, <3>1, <1>3
      <3>2. CASE t = now + 1 /\ s <= now
        <4>1. truth[a][s] <= truth[a][now] /\ truth[a][s] \in Nat
              /\ truth[a][now] \in Nat /\ truth[a][now] <= now
          <5>0. truth[a][s] \in Slot /\ truth[a][now] \in Slot
            BY <1>n
          <5>1. /\ truth[a][s] \in Nat /\ truth[a][now] \in Nat
                /\ truth[a][now] <= now /\ now <= now
            <6>1. truth[a][s] \in Nat /\ truth[a][now] \in Nat
              BY <5>0, <1>n
            <6>2. now <= now
              BY <1>n
            <6>3. QED
              BY <6>1, <6>2, <1>4
          <5>2. TruthMonotone
            BY <1>t
          <5>3. truth[a][s] <= truth[a][now]
            BY <3>2, <1>n, <5>1, <5>2 DEF TruthMonotone
          <5>4. QED
            BY <5>1, <5>3
        <4>2. truth'[a][s] = truth[a][s]
          BY <3>2, <1>3
        <4>3. truth'[a][t] \in {now + 1, truth[a][now]}
          BY <3>2, <1>2
        <4>4. QED
          BY <4>1, <4>2, <4>3, <1>n
      <3>3. CASE s = now + 1 /\ t = now + 1
        <4>1. truth'[a][s] \in Nat
          BY <3>3, <1>2, <1>n
        <4>2. QED
          BY <4>1, <3>3
      <3>4. QED
        BY <2>1, <1>1, <1>n, <3>n, <3>1, <3>2, <3>3
    <2>2. QED
      BY <2>1 DEF TruthMonotone
  <1>6. TruthIsWrite'
    <2>1. ASSUME NEW a \in Account, NEW s \in Slot, s <= now'
          PROVE  truth'[a][s] <= s /\ truth'[a][truth'[a][s]] = truth'[a][s]
      <3>n. s \in Nat
        BY <1>n
      <3>1. CASE s <= now
        <4>1. truth[a][s] \in Slot /\ truth[a][s] <= s
              /\ truth[a][truth[a][s]] = truth[a][s]
          BY <3>1, <1>t, <1>n DEF TruthIsWrite
        <4>2. truth'[a][s] = truth[a][s]
          BY <3>1, <1>3
        <4>3. truth[a][s] <= now
          <5>1. truth[a][s] \in Nat
            BY <4>1, <1>n
          <5>2. QED
            BY <4>1, <3>1, <3>n, <1>n, <5>1
        <4>4. QED
          BY <4>1, <4>2, <4>3, <1>3
      <3>2. CASE s = now + 1 /\ a \in W
        <4>1. truth'[a][s] = s
          BY <3>2, <1>2
        <4>2. QED
          BY <4>1, <3>n
      <3>3. CASE s = now + 1 /\ a \notin W
        <4>1. truth'[a][s] = truth[a][now]
          BY <3>3, <1>2
        <4>2. truth[a][truth[a][now]] = truth[a][now]
          BY <1>t, <1>n DEF TruthIsWrite
        <4>3. truth'[a][truth[a][now]] = truth[a][now]
          BY <4>2, <1>3, <1>4
        <4>4. truth[a][now] <= s
          <5>1. truth[a][now] \in Nat /\ truth[a][now] <= now
            BY <1>4, <1>n
          <5>2. QED
            BY <5>1, <3>3, <1>n
        <4>5. QED
          BY <4>1, <4>3, <4>4
      <3>4. QED
        BY <2>1, <1>1, <1>n, <3>n, <3>1, <3>2, <3>3
    <2>2. QED
      BY <2>1 DEF TruthIsWrite
  <1>7. VersionsTrue'
    <2>1. \A a \in Account : Held(a)' = Held(a) /\ Held(a) \subseteq Slot
      BY <1>1 DEF Held
    <2>2. ASSUME NEW a \in Account, NEW s \in Held(a)
          PROVE  s <= now' /\ ver'[a][s] = truth'[a][s]
      <3>1. s \in Slot /\ s \in Nat /\ s <= now /\ ver[a][s] = truth[a][s]
        BY <2>1, <1>t, <1>n DEF VersionsTrue
      <3>2. QED
        BY <3>1, <1>1, <1>3, <1>n
    <2>3. QED
      BY <2>1, <2>2 DEF VersionsTrue
  <1>8. ComparedHeld'
    <2>1. ASSUME NEW a \in Account, NEW r \in compared[a]
          PROVE  r <= now' /\ (thinned <= r => HeldAt(a, r)')
      <3>1. r \in Slot /\ r \in Nat /\ r <= now /\ (thinned <= r => HeldAt(a, r))
        BY <1>t, <1>n, BasicTypes DEF ComparedHeld
      <3>2. HeldAt(a, r) => HeldAt(a, r)'
        BY <3>1, <1>1, <1>3 DEF HeldAt, IsNewestAt, Held
      <3>3. QED
        BY <3>1, <3>2, <1>1, <1>n
    <2>2. QED
      BY <2>1, <1>1 DEF ComparedHeld
  <1>9. PollSlot'
    <2>1. poll.slot \in Nat /\ poll.slot <= now
      BY <1>t, <1>n DEF PollSlot, TypeOK
    <2>2. QED
      BY <2>1, <1>1, <1>n DEF PollSlot
  <1>10. ReaderTrue' /\ ClaimSound'
    <2>1. now <= now' /\ thinned' \in Slot /\ thinned <= thinned'
      BY <1>1, <1>n
    <2>2. QED
      BY <2>1, <1>1, <1>3, <1>t, ReaderStays
  <1>11. QED
    BY <1>5, <1>6, <1>7, <1>8, <1>9, <1>10 DEF Inv

LEMMA CompareStep ==
    ASSUME Inv, NEW a \in Account, CompareOne(a), TypeOK'
    PROVE  Inv'
  <1>0. PICK r \in Slot : r = poll.slot
    BY DEF Inv, TypeOK
  <1> DEFINE unchanged == LatestIs(a, truth[a][r])
             seen == \A t \in Held(a) : t < r \/ (t = r /\ unchanged)
  <1>t. /\ TypeOK /\ TruthMonotone /\ TruthIsWrite /\ VersionsTrue
        /\ ComparedHeld /\ PollSlot /\ ReaderTrue /\ ClaimSound
    BY DEF Inv
  <1>n. /\ Slot \subseteq Nat /\ now \in Slot /\ now \in Nat /\ thinned \in Slot
        /\ thinned \in Nat
    BY <1>t, BasicTypes
  <1>1. r \in Slot /\ r \in Nat /\ r <= now
    BY <1>0, <1>t, <1>n DEF PollSlot
  <1>2. /\ ver' = IF unchanged THEN ver ELSE Recorded(a, r, truth[a][r])
        /\ compared' = IF seen THEN [compared EXCEPT ![a] = @ \cup {r}]
                       ELSE compared
        /\ UNCHANGED <<now, truth, thinned, rd>>
    BY <1>0 DEF CompareOne, chainVars
  <1>3. PollSlot'
    <2>1. poll'.slot = poll.slot \/ poll'.slot = 0
      BY <1>t DEF CompareOne, TypeOK
    <2>2. QED
      BY <1>0, <1>1, <1>2, <1>n, <2>1 DEF PollSlot
  <1>4. TruthMonotone' /\ TruthIsWrite'
    BY <1>2, <1>t DEF TruthMonotone, TruthIsWrite
  <1>5. ReaderTrue' /\ ClaimSound'
    <2>1. /\ now' \in Slot /\ now <= now' /\ thinned' \in Slot
          /\ thinned <= thinned' /\ UNCHANGED rd
          /\ \A b \in Account : \A s \in Slot :
                s <= now => truth'[b][s] = truth[b][s]
      BY <1>2, <1>n
    <2>2. QED
      BY <2>1, <1>t, ReaderStays
  \* the versions, before the round is added to compared
  <1>6. /\ VersionsTrue'
        /\ \A b \in Account : \A q \in compared[b] :
              q <= now /\ (thinned <= q => HeldAt(b, q)')
        /\ seen => HeldAt(a, r)'
    <2>1. CASE unchanged
      <3>1. ver' = ver
        BY <1>2, <2>1
      <3>2. PICK m \in Slot : IsLast(a, m) /\ ver[a][m] = truth[a][r]
        BY <2>1 DEF LatestIs
      <3>3. seen => IsNewestAt(a, m, r)
        <4>1. m \in Held(a) /\ m \in Nat /\ \A t \in Held(a) : t <= m
          BY <3>2, <1>n DEF IsLast
        <4>2. seen => m <= r
          BY <4>1, <1>1
        <4>3. QED
          BY <4>1, <4>2 DEF IsNewestAt
      <3>4. \A b \in Account : \A q \in Slot : HeldAt(b, q)' <=> HeldAt(b, q)
        BY <1>2, <3>1 DEF HeldAt, IsNewestAt, Held
      <3>5. VersionsTrue'
        BY <1>2, <1>t, <3>1 DEF VersionsTrue, Held
      <3>6. seen => HeldAt(a, r)
        BY <3>2, <3>3 DEF HeldAt
      <3>7. \A b \in Account : \A q \in compared[b] :
                q \in Slot /\ q <= now /\ (thinned <= q => HeldAt(b, q))
        BY <1>t, BasicTypes DEF ComparedHeld
      <3> HIDE DEF unchanged, seen
      <3>8. QED
        BY <1>1, <3>4, <3>5, <3>6, <3>7
    <2>2. CASE ~unchanged
      <3>1. ver' = Recorded(a, r, truth[a][r]) /\ UNCHANGED <<now, truth>>
        BY <1>2, <2>2
      <3>2. seen => \A t \in Held(a) : t < r
        BY <2>2
      <3> HIDE DEF unchanged, seen
      <3>3. QED
        BY <1>1, <1>t, <3>1, <3>2, RecordHeld
    <2>3. QED
      BY <2>1, <2>2
  <1>7. ComparedHeld'
    <2>1. \A b \in Account : \A q \in compared'[b] :
              q \in compared[b] \/ (b = a /\ q = r /\ seen)
      BY <1>2, <1>t DEF TypeOK
    <2> HIDE DEF unchanged, seen
    <2>2. QED
      BY <1>1, <1>2, <1>6, <2>1 DEF ComparedHeld
  <1>8. QED
    BY <1>3, <1>4, <1>5, <1>6, <1>7 DEF Inv

\* Steps of the poller that leave what it recorded alone.
LEMMA QuietStep ==
    ASSUME Inv, TypeOK', PollSlot',
           UNCHANGED <<now, truth, ver, compared, thinned, rd>>
    PROVE  Inv'
  <1>1. TruthMonotone' /\ TruthIsWrite' /\ VersionsTrue' /\ ComparedHeld'
    BY StoreStays
  <1>2. ReaderTrue' /\ ClaimSound'
    <2>1. /\ TypeOK /\ ReaderTrue /\ ClaimSound /\ UNCHANGED rd
          /\ \A a \in Account : \A s \in Slot :
                s <= now => truth'[a][s] = truth[a][s]
      BY DEF Inv
    <2>2. now \in Slot /\ thinned \in Slot /\ now \in Nat /\ thinned \in Nat
      BY <2>1, BasicTypes
    <2>3. /\ now' \in Slot /\ now <= now'
          /\ thinned' \in Slot /\ thinned <= thinned'
      BY <2>2
    <2>4. QED
      BY <2>1, <2>3, ReaderStays
  <1>3. QED
    BY <1>1, <1>2 DEF Inv

\* Steps of the reader that leave the store alone.
LEMMA ReaderMoves ==
    ASSUME Inv, TypeOK', ReaderTrue', ClaimSound',
           UNCHANGED <<now, truth, ver, compared, thinned, poll>>
    PROVE  Inv'
  <1>1. PollSlot'
    BY DEF Inv, PollSlot
  <1>2. QED
    BY <1>1, StoreStays DEF Inv

\* Steps of a request that record what an account held.
LEMMA RecordStep ==
    ASSUME Inv, TypeOK', NEW a \in Account, NEW s \in Slot, s <= now,
           ver' = Recorded(a, s, truth[a][s]),
           UNCHANGED <<now, truth, compared, thinned, poll>>,
           rd' = rd \/ rd' = IdleReader
    PROVE  Inv'
  <1>1. VersionsTrue' /\ ComparedHeld'
    BY RecordHeld DEF Inv, ComparedHeld
  <1>2. TruthMonotone' /\ TruthIsWrite' /\ PollSlot'
    BY DEF Inv, TruthMonotone, TruthIsWrite, PollSlot
  <1>3. ReaderTrue' /\ ClaimSound'
    <2>1. CASE rd' = rd
      <3>1. /\ TypeOK /\ ReaderTrue /\ ClaimSound /\ UNCHANGED rd
            /\ \A b \in Account : \A t \in Slot :
                  t <= now => truth'[b][t] = truth[b][t]
        BY <2>1 DEF Inv
      <3>2. now \in Slot /\ thinned \in Slot /\ now \in Nat /\ thinned \in Nat
        BY <3>1, BasicTypes
      <3>3. /\ now' \in Slot /\ now <= now'
            /\ thinned' \in Slot /\ thinned <= thinned'
        BY <3>2
      <3>4. QED
        BY <3>1, <3>3, ReaderStays
    <2>2. QED
      BY <2>1, IdleIsTrue
  <1>4. QED
    BY <1>1, <1>2, <1>3 DEF Inv

LEMMA BeginStep ==
    ASSUME Inv, TypeOK', NEW a \in Account, NEW f \in 1 .. now,
           BeginLookup(a, f)
    PROVE  Inv'
  <1>1. TypeOK /\ TruthIsWrite
    BY DEF Inv
  <1>2. /\ f \in Slot /\ f \in Nat /\ f <= now /\ now \in Nat
        /\ truth[a][f] \in Slot /\ truth[a][f] \in Nat
    BY <1>1, BasicTypes
  <1>3. truth[a][f] <= f /\ truth[a][truth[a][f]] = truth[a][f]
    BY <1>1, <1>2 DEF TruthIsWrite
  <1>4. truth[a][f] <= now
    BY <1>2, <1>3
  <1>5. PICK v : /\ v \in {None, truth[a][f]}
                 /\ rd' = [IdleReader EXCEPT !.pc = "begun", !.acct = a,
                                             !.floor = f, !.streamed = v]
    BY DEF BeginLookup, StreamAnswers
  <1>6. UNCHANGED <<now, truth, ver, compared, thinned, poll>>
    BY DEF BeginLookup, chainVars, storeVars
  <1>7. /\ rd'.pc = "begun" /\ rd'.acct = a /\ rd'.floor = f
        /\ rd'.streamed = v
    BY <1>5 DEF IdleReader
  <1>8. ReaderTrue' /\ ClaimSound'
    BY <1>2, <1>3, <1>4, <1>5, <1>6, <1>7
       DEF ReaderTrue, StreamedTrue, StartTrue, NextTrue, ClaimSound
  <1>9. QED
    BY <1>6, <1>8, ReaderMoves

\* A lookup that ends unproven keeps what the stream gave it.
LEMMA UnprovenIsTrue ==
    ASSUME Inv, rd.pc \in {"begun", "next"}, rd' = Unproven,
           UNCHANGED <<now, truth>>
    PROVE  ReaderTrue' /\ ClaimSound'
  <1>1. TypeOK /\ ReaderTrue
    BY DEF Inv
  <1>2. /\ rd'.pc = "unproven" /\ rd'.acct = rd.acct /\ rd'.floor = 0
        /\ rd'.streamed = rd.streamed
    BY DEF Unproven, IdleReader
  <1>3. now \in Nat
    BY <1>1, BasicTypes
  <1>4. QED
    BY <1>1, <1>2, <1>3
       DEF ReaderTrue, StreamedTrue, StartTrue, NextTrue, ClaimSound

LEMMA ReadStartStep ==
    ASSUME Inv, TypeOK', ReadStart
    PROVE  Inv'
  <1>1. /\ TypeOK /\ VersionsTrue /\ ReaderTrue
        /\ rd.pc = "begun" /\ rd.acct \in Account /\ rd.floor <= now
        /\ rd \in Reader
    BY DEF Inv, ReadStart, ReaderTrue, TypeOK
  <1>2. UNCHANGED <<now, truth, ver, compared, thinned, poll>>
    BY DEF ReadStart, chainVars
  <1>3. CASE rd' = Unproven
    BY <1>1, <1>2, <1>3, UnprovenIsTrue, ReaderMoves
  <1>4. ASSUME NEW s \in Slot, IsNewestAt(rd.acct, s, rd.floor),
               rd' = [rd EXCEPT !.pc = "started", !.start = s,
                                !.val = ver[rd.acct][s]]
        PROVE  Inv'
    <2>1. s <= rd.floor /\ ver[rd.acct][s] = truth[rd.acct][s]
      BY <1>1, <1>4 DEF IsNewestAt, VersionsTrue
    <2>2. /\ rd'.pc = "started" /\ rd'.acct = rd.acct
          /\ rd'.floor = rd.floor /\ rd'.streamed = rd.streamed
          /\ rd'.start = s /\ rd'.val = ver[rd.acct][s]
      BY <1>1, <1>4 DEF Reader
    <2>3. ReaderTrue' /\ ClaimSound'
      BY <1>1, <1>2, <2>1, <2>2
         DEF ReaderTrue, StreamedTrue, StartTrue, NextTrue, ClaimSound
    <2>4. QED
      BY <1>2, <2>3, ReaderMoves
  <1>5. QED
    BY <1>3, <1>4 DEF ReadStart

\* If u is the next version after s, a round before u that compared the
\* account found s the newest, so nothing was written from s to that round.
LEMMA NothingBetween ==
    ASSUME TypeOK, TruthMonotone, VersionsTrue, ComparedHeld,
           NEW a \in Account, NEW s \in Slot, NEW f \in Slot,
           NEW u \in OptSlot, NEW r \in compared[a],
           IsNextAfter(a, u, s), s <= f, f <= r, Before(r, u), thinned <= f
    PROVE  truth[a][s] = truth[a][f]
  <1>1. /\ Slot \subseteq Nat /\ now \in Slot /\ thinned \in Slot
        /\ Held(a) \subseteq Slot /\ compared[a] \subseteq Slot
        /\ \A t \in Slot : truth[a][t] \in Slot
    BY BasicTypes
  <1>2. /\ s \in Nat /\ f \in Nat /\ r \in Slot /\ r \in Nat
        /\ thinned \in Nat /\ now \in Nat
    BY <1>1
  <1>3. r <= now /\ HeldAt(a, r)
    <2>1. thinned <= r
      BY <1>2
    <2>2. QED
      BY <2>1 DEF ComparedHeld
  <1>4. PICK m \in Slot : IsNewestAt(a, m, r) /\ ver[a][m] = truth[a][r]
    BY <1>3 DEF HeldAt
  <1>5. m \in Held(a) /\ m <= r /\ truth[a][m] = truth[a][r]
    BY <1>4 DEF IsNewestAt, VersionsTrue
  <1>6. m <= s
    <2>1. m \in Nat /\ (u # None => u \in Nat)
      BY <1>1, <1>5 DEF OptSlot
    <2>2. u = None => m <= s
      <3>1. None \notin Held(a)
        BY <1>1, StoreAssumption
      <3>2. QED
        BY <3>1, <1>5 DEF IsNextAfter
    <2>3. u # None => (m > s => u <= m) /\ r < u
      BY <1>5 DEF IsNextAfter, Before
    <2>4. QED
      BY <2>1, <2>2, <2>3, <1>2, <1>5
  <1>7. /\ truth[a][m] \in Nat /\ truth[a][s] \in Nat
        /\ truth[a][f] \in Nat /\ truth[a][r] \in Nat
    <2>1. /\ truth[a][m] \in Slot /\ truth[a][s] \in Slot
          /\ truth[a][f] \in Slot /\ truth[a][r] \in Slot
      BY <1>1, <1>2
    <2>2. QED
      BY <2>1, <1>1
  <1>8. s <= now /\ f <= now
    <2>1. r <= now
      BY <1>3
    <2>2. QED
      BY <2>1, <1>2
  <1>9. /\ truth[a][m] <= truth[a][s] /\ truth[a][s] <= truth[a][f]
        /\ truth[a][f] <= truth[a][r]
    <2>1. r <= now
      BY <1>3
    <2>2. truth[a][m] <= truth[a][s]
      BY <1>6, <1>8 DEF TruthMonotone
    <2>3. truth[a][s] <= truth[a][f]
      BY <1>8 DEF TruthMonotone
    <2>4. truth[a][f] <= truth[a][r]
      BY <1>2, <2>1 DEF TruthMonotone
    <2>5. QED
      BY <2>2, <2>3, <2>4
  <1>10. QED
    BY <1>5, <1>7, <1>9

LEMMA ReadNextStep ==
    ASSUME Inv, TypeOK', ReadNext
    PROVE  Inv'
  <1>1. /\ TypeOK /\ TruthMonotone /\ VersionsTrue /\ ComparedHeld
        /\ ReaderTrue /\ rd.pc = "started" /\ rd.acct \in Account
        /\ rd.floor <= now /\ rd \in Reader /\ rd.floor \in Slot
    BY DEF Inv, ReadNext, ReaderTrue, TypeOK, Reader
  <1>2. UNCHANGED <<now, truth, ver, compared, thinned, poll>>
    BY DEF ReadNext, chainVars, storeVars
  <1>3. PICK u \in OptSlot :
            /\ IsNextAfter(rd.acct, u, rd.start)
            /\ rd' = [rd EXCEPT !.pc = "next", !.next = u,
                                !.snap = compared[rd.acct]]
    BY DEF ReadNext
  <1>4. /\ rd'.pc = "next" /\ rd'.acct = rd.acct /\ rd'.floor = rd.floor
        /\ rd'.streamed = rd.streamed /\ rd'.start = rd.start
        /\ rd'.val = rd.val /\ rd'.next = u /\ rd'.snap = compared[rd.acct]
    BY <1>1, <1>3 DEF Reader
  <1>5. /\ rd.start \in Slot /\ rd.start <= rd.floor
        /\ rd.val = truth[rd.acct][rd.start]
    BY <1>1 DEF ReaderTrue, StartTrue
  <1>6. ASSUME NEW r \in compared[rd.acct], rd.floor <= r, Before(r, u),
               thinned <= rd.floor
        PROVE  rd.val = truth[rd.acct][rd.floor]
    BY <1>1, <1>3, <1>5, <1>6, NothingBetween
  <1>7. NextTrue'
    BY <1>2, <1>4, <1>6 DEF NextTrue, Before
  <1>8. ReaderTrue' /\ ClaimSound'
    BY <1>1, <1>2, <1>4, <1>5, <1>7
       DEF ReaderTrue, StreamedTrue, StartTrue, ClaimSound
  <1>9. QED
    BY <1>2, <1>8, ReaderMoves

LEMMA ReadProofStep ==
    ASSUME Inv, TypeOK', ReadProof
    PROVE  Inv'
  <1>1. /\ TypeOK /\ ReaderTrue /\ rd.pc = "next" /\ rd.acct \in Account
        /\ rd.floor <= now /\ rd \in Reader
    BY DEF Inv, ReadProof, ReaderTrue, TypeOK
  <1>2. UNCHANGED <<now, truth, ver, compared, thinned, poll>>
    BY DEF ReadProof, chainVars, storeVars
  <1>3. CASE rd' = Unproven
    BY <1>1, <1>2, <1>3, UnprovenIsTrue, ReaderMoves
  <1>4. ASSUME NEW r \in Slot, Proves(r), rd' = Claimed(r)
        PROVE  Inv'
    <2>1. /\ rd'.pc = "claimed" /\ rd'.acct = rd.acct
          /\ rd'.floor = rd.floor /\ rd'.val = rd.val
          /\ rd'.snap = rd.snap \cap {r}
      BY <1>4 DEF Claimed, IdleReader
    <2>2. rd.floor <= r /\ Before(r, rd.next)
      <3>1. /\ rd.floor <= r
            /\ r <= (IF rd.next = None THEN MaxSlot ELSE rd.next - 1)
        BY <1>4 DEF Proves, IsRoundIn
      <3>2. r \in Nat /\ (rd.next # None => rd.next \in Nat)
        BY <1>1, BasicTypes DEF Reader, OptSlot
      <3>3. QED
        BY <3>1, <3>2 DEF Before
    <2>3. (rd'.snap # {} /\ thinned <= rd.floor)
              => rd.val = truth[rd.acct][rd.floor]
      BY <1>1, <2>1, <2>2 DEF ReaderTrue, NextTrue
    <2>4. ReaderTrue' /\ ClaimSound'
      BY <1>1, <1>2, <2>1, <2>3
         DEF ReaderTrue, StreamedTrue, StartTrue, NextTrue, ClaimSound
    <2>5. QED
      BY <1>2, <2>4, ReaderMoves
  <1>5. QED
    BY <1>3, <1>4 DEF ReadProof

\* Every step keeps the invariant.
LEMMA InvStep == Inv /\ [Next]_vars => Inv'
  <1> SUFFICES ASSUME Inv, [Next]_vars PROVE Inv'
    OBVIOUS
  <1>t. TypeOK /\ TypeOK' /\ PollSlot /\ TruthIsWrite /\ ReaderTrue
    BY TypeStep DEF Inv
  <1>n. /\ Slot \subseteq Nat /\ now \in Slot /\ now \in Nat
        /\ \A a \in Account : \A s \in Slot : truth[a][s] \in Slot
        /\ \A f \in 1 .. now : f \in Slot /\ f <= now
    BY <1>t, BasicTypes
  <1> USE DEF chainVars, storeVars
  <1>1. ASSUME NEW W \in SUBSET Account, Advance(W) PROVE Inv'
    BY <1>t, <1>1, AdvanceStep
  <1>2. CASE StartRound
    <2>1. PollSlot' /\ UNCHANGED <<now, truth, ver, compared, thinned, rd>>
      BY <1>2, <1>t DEF StartRound, PollSlot, TypeOK
    <2>2. QED
      BY <1>t, <2>1, QuietStep
  <1>3. ASSUME NEW C \in SUBSET poll.todo, NEW r \in 1 .. now, FetchChunk(C, r)
        PROVE  Inv'
    <2>1. PollSlot' /\ UNCHANGED <<now, truth, ver, compared, thinned, rd>>
      BY <1>3, <1>n DEF FetchChunk, PollSlot
    <2>2. QED
      BY <1>t, <2>1, QuietStep
  <1>4. ASSUME NEW a \in Account, CompareOne(a) PROVE Inv'
    BY <1>t, <1>4, CompareStep
  <1>5. CASE PollFails
    <2>1. PollSlot' /\ UNCHANGED <<now, truth, ver, compared, thinned, rd>>
      BY <1>5, <1>n DEF PollFails, PollSlot, IdlePoll
    <2>2. QED
      BY <1>t, <2>1, QuietStep
  <1>6. ASSUME NEW n \in 1 .. now, Thin(n) PROVE Inv'
    <2>1. /\ TypeOK /\ VersionsTrue /\ ComparedHeld /\ ReaderTrue
          /\ ClaimSound /\ TruthMonotone
      BY DEF Inv
    <2>2. UNCHANGED <<now, truth, poll, rd>> /\ thinned' \in Slot
      BY <1>6, <1>t DEF Thin, TypeOK
    <2>3. VersionsTrue' /\ ComparedHeld' /\ thinned <= thinned'
      BY <1>6, <2>1, ThinStep
    <2>4. TruthMonotone' /\ TruthIsWrite' /\ PollSlot'
      BY <1>t, <2>1, <2>2 DEF TruthMonotone, TruthIsWrite, PollSlot
    <2>5. ReaderTrue' /\ ClaimSound'
      <3>1. now' \in Slot /\ now <= now'
        BY <1>n, <2>2
      <3>2. \A a \in Account : \A s \in Slot :
                s <= now => truth'[a][s] = truth[a][s]
        BY <2>2
      <3>3. QED
        BY <2>1, <2>2, <2>3, <3>1, <3>2, ReaderStays
    <2>6. QED
      BY <1>t, <2>3, <2>4, <2>5 DEF Inv
  <1>7. ASSUME NEW a \in Account, NEW f \in 1 .. now, BeginLookup(a, f)
        PROVE  Inv'
    BY <1>t, <1>7, BeginStep
  <1>8. CASE ReadStart
    BY <1>t, <1>8, ReadStartStep
  <1>9. CASE ReadNext
    BY <1>t, <1>9, ReadNextStep
  <1>10. CASE ReadProof
    BY <1>t, <1>10, ReadProofStep
  <1>11. CASE WriteThrough
    <2>1. rd.acct \in Account /\ rd.streamed \in OptSlot /\ rd' = IdleReader
      BY <1>11, <1>t DEF WriteThrough, TypeOK, Reader
    <2>2. UNCHANGED <<now, truth, compared, thinned, poll>>
      BY <1>11 DEF WriteThrough
    <2>3. CASE rd.streamed = None
      <3>1. ver' = ver
        BY <1>11, <2>3 DEF WriteThrough
      <3>2. ReaderTrue' /\ ClaimSound'
        BY <2>1, IdleIsTrue
      <3>3. QED
        BY <1>t, <2>2, <3>1, <3>2, ReaderMoves
    <2>4. CASE rd.streamed # None
      <3>1. ver' = Recorded(rd.acct, rd.streamed, rd.streamed)
        BY <1>11, <2>4 DEF WriteThrough
      <3>2. /\ rd.streamed \in Slot /\ rd.streamed <= now
            /\ truth[rd.acct][rd.streamed] = rd.streamed
        BY <1>11, <1>t, <2>1, <2>4
           DEF WriteThrough, ReaderTrue, StreamedTrue, OptSlot
      <3>3. ver' = Recorded(rd.acct, rd.streamed, truth[rd.acct][rd.streamed])
        BY <3>1, <3>2
      <3>4. QED
        BY <1>t, <2>1, <2>2, <3>2, <3>3, RecordStep
    <2>5. QED
      BY <2>3, <2>4
  <1>12. CASE FinishLookup
    <2>1. /\ rd' = IdleReader
          /\ UNCHANGED <<now, truth, ver, compared, thinned, poll>>
      BY <1>12 DEF FinishLookup
    <2>2. QED
      BY <1>t, <2>1, IdleIsTrue, ReaderMoves
  <1>13. ASSUME NEW a \in Account, NEW f \in 1 .. now, RecordUnwatched(a, f)
         PROVE  Inv'
    <2>1. /\ f \in Slot /\ f \in Nat /\ f <= now
          /\ truth[a][f] \in Slot /\ truth[a][f] \in Nat
      BY <1>n
    <2>2. truth[a][f] <= f /\ truth[a][truth[a][f]] = truth[a][f]
      BY <1>t, <2>1 DEF TruthIsWrite
    <2>3. truth[a][f] <= now
      BY <1>n, <2>1, <2>2
    <2>4. /\ ver' = Recorded(a, truth[a][f], truth[a][truth[a][f]])
          /\ UNCHANGED <<now, truth, compared, thinned, poll, rd>>
      BY <1>13, <2>2 DEF RecordUnwatched
    <2>5. QED
      BY <1>t, <2>1, <2>3, <2>4, RecordStep
  <1>14. CASE Restart
    <2>1. /\ rd' = IdleReader /\ poll' = IdlePoll
          /\ UNCHANGED <<now, truth, ver, compared, thinned>>
      BY <1>14 DEF Restart
    <2>2. PollSlot'
      BY <1>n, <2>1 DEF PollSlot, IdlePoll
    <2>3. QED
      BY <1>t, <2>1, <2>2, IdleIsTrue, StoreStays DEF Inv
  <1>15. CASE UNCHANGED vars
    <2>1. PollSlot' /\ UNCHANGED <<now, truth, ver, compared, thinned, rd>>
      BY <1>15, <1>t DEF vars, PollSlot
    <2>2. QED
      BY <1>t, <2>1, QuietStep
  <1>16. QED
    BY <1>1, <1>2, <1>3, <1>4, <1>5, <1>6, <1>7, <1>8, <1>9, <1>10, <1>11,
       <1>12, <1>13, <1>14, <1>15 DEF Next, Poller, Request

(* A lookup that claims a recorded version is right whenever the round it  *)
(* rests on had compared the account by the time the next version was read *)
(* and the floor is above what thin() has reached: for any accounts, chunk *)
(* size, lag, window and retention, and any interleaving with the poller,  *)
(* thinning, other requests and restarts (records.rs, scope.rs path 3).    *)
THEOREM LookupsSound == Spec => []ClaimSound
  <1>1. Init => Inv
    <2> SUFFICES ASSUME Init PROVE Inv
      OBVIOUS
    <2>1. TypeOK /\ 0 \in Slot /\ 0 <= 0
      BY StoreAssumption DEF Init, TypeOK, IdlePoll, IdleReader, Reader, Slot,
                             OptSlot
    <2>2. \A s \in Slot : s \in Nat
      BY <2>1, BasicTypes
    <2>3. TruthMonotone /\ TruthIsWrite
      BY <2>1, <2>2 DEF Init, TruthMonotone, TruthIsWrite
    <2>4. VersionsTrue /\ ComparedHeld
      BY DEF Init, VersionsTrue, ComparedHeld, Held
    <2>5. PollSlot /\ ReaderTrue /\ ClaimSound
      BY <2>1 DEF Init, PollSlot, IdlePoll, IdleReader, ReaderTrue,
                  StreamedTrue, StartTrue, NextTrue, ClaimSound
    <2>6. QED
      BY <2>1, <2>3, <2>4, <2>5 DEF Inv
  <1>2. Inv => ClaimSound
    BY DEF Inv
  <1>3. QED
    BY <1>1, <1>2, InvStep, PTL DEF Spec
=============================================================================
