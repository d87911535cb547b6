------------------------ MODULE ReconstructProofs ------------------------
(* Reconstruct, for every chain, every list of accounts and every budget:  *)
(* with_reconstruction_budget bounds what is replayed for each account,    *)
(* whatever fails; what goes to the record store on the way is what the    *)
(* account held at the slot it is stored for; and what the certificate     *)
(* vouches for is what was there.  And WhatIfSearch, for every outcome a   *)
(* replay may have: what the searches report is true.                      *)
EXTENDS Reconstruct, WhatIfSearch, FiniteSetTheorems, WellFoundedInduction, TLAPS

\* BudgetPerAccount alone is not inductive: a reconstruction replays no more
\* than what is left, so what is left must never exceed the budget, nor fall
\* below zero.
BudgetInv ==
    /\ world \in Worlds
    /\ left \in 0..world.budget
    /\ next \in Nat \ {0}
    /\ spent \in Nat
    /\ BudgetPerAccount

\* A reconstruction replays at most the writes it found, and finitely many.
LEMMA ToReplayFinite ==
    ASSUME NEW skipped \in SUBSET ToReplay
    PROVE  /\ Cardinality(ToReplay) \in Nat
           /\ Cardinality(ToReplay \ skipped) \in Nat
           /\ Cardinality(ToReplay \ skipped) <= Cardinality(ToReplay)
<1>1. Tx = 1..Len(SlotOf) /\ Len(SlotOf) \in Nat
  BY ReconstructAssumption DEF Tx
<1>2. IsFiniteSet(Tx)
  BY <1>1, FS_Interval
<1>3. ToReplay \subseteq Tx
  BY DEF ToReplay
<1>4. IsFiniteSet(ToReplay)
  BY <1>2, <1>3, FS_Subset
<1>5. ToReplay \ skipped \subseteq ToReplay
  OBVIOUS
<1>6. IsFiniteSet(ToReplay \ skipped) /\ Cardinality(ToReplay \ skipped) <= Cardinality(ToReplay)
  BY <1>4, <1>5, FS_Subset
<1> QED
  BY <1>4, <1>6, FS_CardinalityType

\* One more account, at most one more budget.
LEMMA OneMoreAccount ==
    ASSUME NEW b \in Nat, NEW n \in Nat \ {0}, NEW done \in Nat, NEW more \in 0..b,
           done <= b * (n - 1)
    PROVE  /\ done + more <= b * ((n + 1) - 1)
           /\ done <= b * ((n + 1) - 1)
<1>1. b * ((n + 1) - 1) = b * (n - 1) + b
  BY SMT
<1>2. b * (n - 1) \in Int
  BY SMT
<1> DEFINE used == b * (n - 1)
<1>3. b * ((n + 1) - 1) = used + b /\ used \in Int /\ done <= used
  BY <1>1, <1>2
<1> HIDE DEF used
<1> QED
  BY <1>3

\* A step that passes the account after replaying no more than what is left.
LEMMA PassAccount ==
    ASSUME BudgetInv, world' = world, next' = next + 1,
           NEW more \in 0..left, spent' = spent + more,
           left' \in 0..left
    PROVE  BudgetInv'
<1>1. world.budget \in Nat
  BY ReconstructAssumption DEF BudgetInv
<1>2. left \in 0..world.budget /\ next \in Nat \ {0} /\ spent \in Nat
      /\ spent <= world.budget * (next - 1)
  BY DEF BudgetInv, BudgetPerAccount
<1>3. more \in 0..world.budget /\ left' \in 0..world.budget /\ spent' \in Nat
  BY <1>1, <1>2
<1>4. next' \in Nat \ {0}
  BY <1>2
<1>5. spent + more <= world.budget * ((next + 1) - 1)
  BY <1>1, <1>2, <1>3, OneMoreAccount
<1>6. spent' <= world'.budget * (next' - 1)
  BY <1>5
<1> QED
  BY <1>3, <1>4, <1>6 DEF BudgetInv, BudgetPerAccount

\* A step that passes the account and replays nothing.
LEMMA PassFreely ==
    ASSUME BudgetInv, world' = world, next' = next + 1, UNCHANGED <<left, spent>>
    PROVE  BudgetInv'
<1>1. left \in Nat /\ spent \in Nat
  BY ReconstructAssumption DEF BudgetInv
<1>2. 0 \in 0..left /\ spent' = spent + 0 /\ left' \in 0..left
  BY <1>1
<1> QED
  BY <1>2, PassAccount

\* The only step that spends: it starts only if all it found fits, or gives
\* up when what is left is used.
LEMMA RebuildSpends ==
    ASSUME BudgetInv, Rebuild
    PROVE  BudgetInv'
<1>1. world' = world /\ next' = next + 1
  BY DEF Rebuild, Settle
<1>2. left \in Nat /\ spent \in Nat
  BY ReconstructAssumption DEF BudgetInv
<1>3. CASE UNCHANGED <<left, spent>>
  BY <1>1, <1>3, PassFreely
<1>4. CASE UNCHANGED left /\ spent' = spent + left
  <2>1. left \in 0..left /\ left' \in 0..left
    BY <1>2, <1>4
  <2> QED
    BY <1>1, <1>4, <2>1, PassAccount
<1>5. CASE /\ left # 0
           /\ Affordable
           /\ spent' = spent + Cardinality(ToReplay)
           /\ \E skipped \in SUBSET ToReplay :
                LET writes == Cardinality(ToReplay \ skipped)
                IN  \/ UNCHANGED left
                    \/ left' = IF writes < 1 THEN left - 1 ELSE left - writes
  <2>1. PICK skipped \in SUBSET ToReplay :
          \/ left' = left
          \/ left' = IF Cardinality(ToReplay \ skipped) < 1 THEN left - 1
                     ELSE left - Cardinality(ToReplay \ skipped)
    BY <1>5
  <2> DEFINE writes == Cardinality(ToReplay \ skipped)
             found == Cardinality(ToReplay)
  <2>2. writes \in Nat /\ writes <= found /\ found \in Nat
    BY ToReplayFinite
  <2>3. found <= left /\ left # 0
    BY <1>5 DEF Affordable
  <2>4. left' = left \/ left' = IF writes < 1 THEN left - 1 ELSE left - writes
    BY <2>1
  <2>5. spent' = spent + found
    BY <1>5
  <2> HIDE DEF writes, found
  <2>6. found \in 0..left /\ left' \in 0..left
    BY <1>2, <2>2, <2>3, <2>4
  <2> QED
    BY <1>1, <2>5, <2>6, PassAccount
<1>6. \/ UNCHANGED <<left, spent>>
      \/ UNCHANGED left /\ spent' = spent + left
      \/ /\ left # 0
         /\ Affordable
         /\ spent' = spent + Cardinality(ToReplay)
         /\ \E skipped \in SUBSET ToReplay :
              LET writes == Cardinality(ToReplay \ skipped)
              IN  \/ UNCHANGED left
                  \/ left' = IF writes < 1 THEN left - 1 ELSE left - writes
  BY DEF Rebuild
<1> QED
  BY <1>3, <1>4, <1>5, <1>6

\* The request starts with the whole budget and nothing spent.
LEMMA BudgetInit == Init => BudgetInv
<1> SUFFICES ASSUME Init PROVE BudgetInv
  OBVIOUS
<1>1. world \in Worlds /\ left = world.budget /\ spent = 0 /\ next = 1
  BY DEF Init
<1>2. world.budget \in Nat
  BY <1>1, ReconstructAssumption
<1>3. world.budget * (1 - 1) = 0
  BY <1>2
<1> QED
  BY <1>1, <1>2, <1>3 DEF BudgetInv, BudgetPerAccount

\* No other source replays: lookups are free of the budget, and so is the
\* block's prefix, which the budget does not count.
LEMMA BudgetStep == BudgetInv /\ [Next]_vars => BudgetInv'
<1> SUFFICES ASSUME BudgetInv, [Next]_vars PROVE BudgetInv'
  OBVIOUS
<1>1. ASSUME UNCHANGED <<world, next, left, spent>> PROVE BudgetInv'
  BY <1>1 DEF BudgetInv, BudgetPerAccount
<1>2. CASE AskStream
  BY <1>1, <1>2 DEF AskStream
<1>3. CASE Key
  <2>1. CASE KeepProgram
    BY PassFreely, <2>1 DEF KeepProgram, Settle
  <2>2. CASE SeedSigner
    BY PassFreely, <2>2 DEF SeedSigner, Settle
  <2>3. CASE TakeClosed
    BY PassFreely, <2>3 DEF TakeClosed, Settle
  <2>4. CASE TakeRecord
    BY PassFreely, <2>4 DEF TakeRecord, Settle
  <2>5. CASE TakeVersion
    BY PassFreely, <2>5 DEF TakeVersion, Settle
  <2>6. CASE TakeStreamed
    BY PassFreely, <2>6 DEF TakeStreamed, Settle
  <2>7. CASE TakeEvent
    BY PassFreely, <2>7 DEF TakeEvent, Settle
  <2>8. CASE TakeListed
    BY PassFreely, <2>8 DEF TakeListed, Settle
  <2>9. CASE OverBudget
    BY PassFreely, <2>9 DEF OverBudget, Settle
  <2>10. CASE TakeCurrent
    BY PassFreely, <2>10 DEF TakeCurrent, Settle
  <2>11. CASE Rebuild
    BY <2>11, RebuildSpends
  <2> QED
    BY <1>3, <2>1, <2>2, <2>3, <2>4, <2>5, <2>6, <2>7, <2>8, <2>9, <2>10, <2>11 DEF Key
<1>4. CASE BlockUnread
  BY <1>1, <1>4 DEF BlockUnread
<1>5. CASE NothingBefore
  BY <1>1, <1>5 DEF NothingBefore
<1>6. CASE LabelOnly
  BY <1>1, <1>6 DEF LabelOnly
<1>7. CASE StartPrefix
  BY <1>1, <1>7 DEF StartPrefix
<1>8. CASE RunOne
  BY <1>1, <1>8 DEF RunOne
<1>9. CASE Bake
  BY <1>1, <1>9 DEF Bake
<1>10. CASE UNCHANGED vars
  BY <1>1, <1>10 DEF vars
<1> QED
  BY <1>2, <1>3, <1>4, <1>5, <1>6, <1>7, <1>8, <1>9, <1>10 DEF Next

\* Whatever the chain, the answers and the failures, the loop replays no
\* more than the budget for each account it has passed.
THEOREM BudgetBounds == Spec => []BudgetPerAccount
<1>1. BudgetInv => BudgetPerAccount
  BY DEF BudgetInv
<1> QED
  BY BudgetInit, BudgetStep, <1>1, PTL DEF Spec

-----------------------------------------------------------------------------
\* What is written to the record store.

\* The least element of a non-empty set of positions.
LEMMA FirstOf ==
    ASSUME NEW P \in SUBSET Nat, P # {}
    PROVE  \E i \in P : \A j \in P : i <= j
<1> DEFINE R == {ss \in Nat \X Nat : ss[1] < ss[2]}
<1>1. R = OpToRel(<, Nat)
  BY Zenon DEF OpToRel
<1>2. IsWellFoundedOn(R, Nat)
  BY <1>1, NatLessThanWellFounded, Zenon
<1>3. PICK i \in P : \A j \in P : <<j, i>> \notin R
  <2> HIDE DEF R
  <2> QED
    BY <1>2, WFMin, Zenon
<1>4. ASSUME NEW j \in P PROVE i <= j
  <2>1. <<j, i>> \notin R /\ i \in Nat /\ j \in Nat
    BY <1>3
  <2> QED
    BY <2>1
<1> QED
  BY <1>4

\* The greatest element of a set of positions, 0 if it has none.
LEMMA LastOf ==
    ASSUME NEW n \in Nat, NEW P \in SUBSET (1..n)
    PROVE  LastIn(P) \in P \cup {0} /\ \A j \in P : j <= LastIn(P)
<1> DEFINE Q == P \cup {0}
           D == {d \in 0..n : n - d \in Q}
<1>1. D \subseteq Nat /\ n \in D
  OBVIOUS
<1>2. PICK d \in D : \A e \in D : d <= e
  <2> HIDE DEF D
  <2> QED
    BY <1>1, FirstOf
<1>3. n - d \in Q
  BY <1>2
<1>4. \A j \in Q : j <= n - d
  <2> TAKE j \in Q
  <2>1. j \in 0..n /\ n - j \in 0..n /\ n - (n - j) = j
    OBVIOUS
  <2>2. n - j \in D
    BY <2>1
  <2>3. d <= n - j
    BY <1>1, <1>2, <2>2, <2>1
  <2> QED
    BY <1>1, <1>2, <2>1, <2>3
<1>5. \E i \in Q : \A j \in P : j <= i
  BY <1>3, <1>4
<1> HIDE DEF Q
<1>6. LastIn(P) \in Q /\ \A j \in P : j <= LastIn(P)
  BY <1>5 DEF LastIn, Q
<1> QED
  BY <1>6 DEF Q

\* Every account is what the transactions made it.
ChainMade ==
    /\ world \in Worlds
    /\ chain = [a \in Account |-> [i \in 0..Last |-> StateAfter(a, i)]]

\* The bytes of an account are those of its newest write since it was closed.
WritesSince(a, i) ==
    {j \in LastIn({k \in 1..i : Did(a, k) = "close"})+1 .. i : Did(a, j) = "write"}

LEMMA BytesMade ==
    ASSUME ChainMade, NEW a \in Account, NEW i \in 0..Last
    PROVE  Held(a, i).data = LastIn(WritesSince(a, i))
<1> DEFINE since == {j \in LastIn({k \in 1..i : Did(a, k) = "close"})+1 .. i :
                      Did(a, j) \in {"write", "pay"}}
           paid == {j \in since : Did(a, j) = "pay"}
<1>1. Held(a, i) = StateAfter(a, i)
  BY DEF ChainMade, Held
<1>2. since \ paid = WritesSince(a, i)
  BY DEF WritesSince
<1>3. CASE since = {}
  <2>1. WritesSince(a, i) = {}
    BY <1>2, <1>3
  <2>2. LastIn({}) = 0
    BY DEF LastIn
  <2>3. StateAfter(a, i).data = 0
    BY <1>3 DEF StateAfter, Gone
  <2> QED
    BY <1>1, <2>1, <2>2, <2>3
<1>4. CASE since # {}
  <2>1. StateAfter(a, i).data = LastIn(since \ paid)
    BY <1>4 DEF StateAfter
  <2> QED
    BY <1>1, <1>2, <2>1
<1> QED
  BY <1>3, <1>4

LEMMA AccountTyped ==
    ASSUME ChainMade, NEW a \in Account, NEW i \in 0..Last
    PROVE  Held(a, i) \in [data : Nat, bal : Nat]
<1>1. Last \in Nat /\ i \in Nat
  BY ReconstructAssumption DEF Last
<1> DEFINE closed == {k \in 1..i : Did(a, k) = "close"}
           c == LastIn(closed)
           since == {j \in c+1 .. i : Did(a, j) \in {"write", "pay"}}
           paid == {j \in since : Did(a, j) = "pay"}
<1>2. c \in Nat
  <2>1. closed \in SUBSET (1..i)
    OBVIOUS
  <2>2. c \in closed \cup {0}
    <3> HIDE DEF closed
    <3> QED
      BY <1>1, <2>1, LastOf
  <2> HIDE DEF c
  <2> QED
    BY <1>1, <2>1, <2>2
<1> HIDE DEF c
<1>3. since \in SUBSET (1..i) /\ since \ paid \in SUBSET (1..i) /\ paid \in SUBSET (1..i)
  BY <1>1, <1>2
<1>4. Held(a, i) = IF since = {} THEN Gone
                  ELSE [data |-> LastIn(since \ paid),
                        bal |-> IF paid = {} THEN CHOOSE j \in since : \A k \in since : j <= k
                                ELSE LastIn(paid)]
  BY DEF ChainMade, Held, StateAfter, c, closed
<1> HIDE DEF since, paid
<1>5. LastIn(since \ paid) \in Nat /\ LastIn(paid) \in Nat
  <2>1. ASSUME NEW P \in SUBSET (1..i) PROVE LastIn(P) \in Nat
    <3>1. i \in Nat /\ P \in SUBSET (1..i)
      BY <1>1, <2>1
    <3>2. LastIn(P) \in P \cup {0}
      BY <3>1, LastOf
    <3>3. \A x \in P \cup {0} : x \in Nat
      BY <3>1
    <3> QED
      BY <3>2, <3>3
  <2> QED
    BY <1>3, <2>1
<1>6. since # {} => (CHOOSE j \in since : \A k \in since : j <= k) \in Nat
  <2>1. since # {} => \E j \in since : \A k \in since : j <= k
    <3>1. since \in SUBSET Nat
      BY <1>1, <1>3
    <3> QED
      BY <3>1, FirstOf
  <2> DEFINE least == CHOOSE j \in since : \A k \in since : j <= k
  <2>2. since # {} => least \in since
    BY <2>1
  <2> HIDE DEF least
  <2>3. \A x \in since : x \in Nat
    BY <1>1, <1>3
  <2>4. since # {} => least \in Nat
    BY <2>2, <2>3
  <2> QED
    BY <2>4 DEF least
<1> DEFINE first == CHOOSE j \in since : \A k \in since : j <= k
<1> HIDE DEF first
<1>7. since # {} => first \in Nat
  BY <1>6 DEF first
<1>8. Held(a, i) = IF since = {} THEN Gone
                  ELSE [data |-> LastIn(since \ paid),
                        bal |-> IF paid = {} THEN first ELSE LastIn(paid)]
  BY <1>4 DEF first
<1> QED
  BY <1>5, <1>7, <1>8 DEF Gone

\* They stay until the account is written or closed again.
LEMMA BytesKept ==
    ASSUME ChainMade, NEW a \in Account, NEW i \in Tx, NEW j \in Tx, i <= j,
           \A k \in Tx : i < k /\ k <= j => Did(a, k) \notin Changes
    PROVE  Held(a, i).data = Held(a, j).data
<1>1. Tx = 1..Last /\ Last \in Nat
  BY ReconstructAssumption DEF Tx, Last
<1> DEFINE closed(n) == {k \in 1..n : Did(a, k) = "close"}
<1>2. closed(i) = closed(j)
  BY <1>1 DEF Changes
<1> DEFINE c == LastIn(closed(i))
<1>3. c \in 0..i
  <2>1. closed(i) \in SUBSET (1..i) /\ i \in Nat
    BY <1>1
  <2>2. c \in closed(i) \cup {0}
    <3> HIDE DEF closed
    <3> QED
      BY <2>1, LastOf
  <2> QED
    BY <2>1, <2>2
<1>4. WritesSince(a, i) = {k \in c+1..i : Did(a, k) = "write"}
  BY DEF WritesSince
<1>5. WritesSince(a, j) = {k \in c+1..j : Did(a, k) = "write"}
  BY <1>2 DEF WritesSince
<1> HIDE DEF c
<1>6. WritesSince(a, i) = WritesSince(a, j)
  BY <1>1, <1>3, <1>4, <1>5 DEF Changes
<1>7. i \in 0..Last /\ j \in 0..Last
  BY <1>1
<1> QED
  BY <1>6, <1>7, BytesMade

\* A version stamped with the slot of the account's last change in that slot is
\* what the account held at the end of it.
LEMMA VersionHolds ==
    ASSUME ChainMade, NEW a \in Account, NEW i \in Tx,
           \A k \in Tx : i < k /\ SlotOf[k] = SlotOf[i] => Did(a, k) \notin Changes
    PROVE  Held(a, i).data = Held(a, UpTo(SlotOf[i])).data
<1>1. Tx = 1..Last /\ Last \in Nat
  BY ReconstructAssumption DEF Tx, Last
<1>2. \A k \in Tx : SlotOf[k] \in Nat
  BY ReconstructAssumption DEF Tx
<1> DEFINE P == {k \in Tx : SlotOf[k] <= SlotOf[i]}
           j == LastIn(P)
<1>3. P \in SUBSET (1..Last) /\ i \in P
  BY <1>1, <1>2
<1>4. j \in P \cup {0} /\ \A k \in P : k <= j
  <2> HIDE DEF P
  <2> QED
    BY <1>1, <1>3, LastOf
<1>5. i <= j
  BY <1>3, <1>4
<1>6. j \in Tx /\ SlotOf[j] <= SlotOf[i]
  <2>1. j # 0
    BY <1>1, <1>5
  <2> QED
    BY <1>4, <2>1
<1>7. ASSUME NEW k \in Tx, i < k, k <= j PROVE Did(a, k) \notin Changes
  <2>1. SlotOf[i] <= SlotOf[k] /\ SlotOf[k] <= SlotOf[j]
    BY <1>1, <1>6, <1>7, ReconstructAssumption DEF Tx
  <2>2. SlotOf[k] = SlotOf[i]
    BY <1>2, <1>6, <2>1
  <2> QED
    BY <1>7, <2>2
<1>8. UpTo(SlotOf[i]) = j
  BY DEF UpTo
<1> QED
  <2> HIDE DEF j
  <2> QED
    BY <1>5, <1>6, <1>7, <1>8, BytesKept

True(a, v) == v.data = Held(a, UpTo(v.slot)).data /\ v.data \in Nat

\* The stream's answer is such a version.
LEMMA LastChangeHolds ==
    ASSUME ChainMade, NEW a \in Account, NEW s, LastChange(a, s) # 0
    PROVE  LastChange(a, s) \in Tx /\ True(a, VersionAt(a, LastChange(a, s)))
<1>1. Tx = 1..Last /\ Last \in Nat
  BY ReconstructAssumption DEF Tx, Last
<1> DEFINE P == {i \in Tx : Did(a, i) \in Changes /\ SlotOf[i] <= s}
           i == LastIn(P)
<1>2. LastChange(a, s) = i
  BY DEF LastChange
<1>3. i \in P \cup {0} /\ \A k \in P : k <= i
  <2>1. P \in SUBSET (1..Last)
    BY <1>1
  <2> HIDE DEF P
  <2> QED
    BY <1>1, <2>1, LastOf
<1>4. i \in P
  BY <1>2, <1>3
<1>5. ASSUME NEW k \in Tx, i < k, SlotOf[k] = SlotOf[i] PROVE Did(a, k) \notin Changes
  <2>1. SUFFICES ASSUME Did(a, k) \in Changes PROVE FALSE
    OBVIOUS
  <2>2. k \in P
    BY <1>4, <1>5, <2>1
  <2>3. k <= i
    BY <1>3, <2>2
  <2> HIDE DEF P, i
  <2>4. i \in Nat /\ k \in Nat
    BY <1>1, <1>4 DEF P
  <2> QED
    BY <1>5, <2>3, <2>4
<1>6. i \in Tx
  BY <1>4
<1> HIDE DEF i
<1>7. Held(a, i).data \in Nat
  BY <1>1, <1>6, AccountTyped
<1> QED
  BY <1>2, <1>5, <1>6, <1>7, VersionHolds DEF True, VersionAt

\* So is what is found at the account's newest mention, whichever mentions were
\* passed over.
LEMMA MentionHolds ==
    ASSUME ChainMade, NEW a \in Account, NEW v \in FromMentions(a), v # Nothing
    PROVE  True(a, v)
<1>1. Tx = 1..Last /\ Last \in Nat
  BY ReconstructAssumption DEF Tx, Last
<1>2. PICK lost \in SUBSET WritableSlots(a) : v = AtMention(a, lost)
  BY DEF FromMentions
<1> DEFINE seen == {s \in WritableSlots(a) \ lost : ChangedIn(a, s) # {}}
           P == UNION {ChangedIn(a, s) : s \in seen}
           i == LastIn(P)
<1>3. seen # {} /\ v = VersionAt(a, i)
  BY <1>2 DEF AtMention
<1>4. P \in SUBSET (1..Last) /\ P # {}
  BY <1>1, <1>3 DEF ChangedIn
<1>5. i \in P \cup {0} /\ \A k \in P : k <= i
  <2> HIDE DEF P
  <2> QED
    BY <1>1, <1>4, LastOf
<1>6. i \in P
  <2>1. PICK k \in P : k \in 1..Last /\ k <= i
    BY <1>4, <1>5
  <2> HIDE DEF P, i
  <2> QED
    BY <1>1, <1>5, <2>1
<1>7. PICK s \in seen : i \in ChangedIn(a, s)
  BY <1>6
<1>8. ASSUME NEW k \in Tx, i < k, SlotOf[k] = SlotOf[i] PROVE Did(a, k) \notin Changes
  <2>1. SUFFICES ASSUME Did(a, k) \in Changes PROVE FALSE
    OBVIOUS
  <2>2. SlotOf[i] = s
    BY <1>7 DEF ChangedIn
  <2>3. k \in ChangedIn(a, s)
    BY <1>8, <2>1, <2>2 DEF ChangedIn
  <2>4. k \in P
    BY <1>7, <2>3
  <2>5. k <= i
    BY <1>5, <2>4
  <2> HIDE DEF P, i
  <2>6. i \in Nat /\ k \in Nat
    BY <1>1, <1>4, <1>6
  <2> QED
    BY <1>8, <2>5, <2>6
<1>9. i \in Tx
  BY <1>7 DEF ChangedIn
<1> HIDE DEF i
<1>10. Held(a, i).data \in Nat
  BY <1>1, <1>9, AccountTyped
<1> QED
  BY <1>3, <1>8, <1>9, <1>10, VersionHolds DEF True, VersionAt

\* What is known of the stream's answers for the rest of the request.
WrittenInv ==
    /\ ChainMade
    /\ next \in 1..Len(Keys)+1
    /\ phase = "keys" => next <= Len(Keys)
    /\ phase = "stream" => next = 1
    /\ \A a \in Account : streamed[a] # Nothing => True(a, streamed[a])
    /\ WrittenTrue

Same(w) == w.state.data = Held(w.account, UpTo(w.slot)).data

\* A step that leaves the chain, the answers and the loop alone, and stores
\* nothing but what the account held.
LEMMA WrittenKept ==
    ASSUME WrittenInv, UNCHANGED <<world, chain, streamed>>,
           next' \in 1..Len(Keys)+1, phase' = "keys" => next' <= Len(Keys),
           phase' = "stream" => next' = 1,
           \A w \in written' \ written : Kind(w.account) # "token" => Same(w)
    PROVE  WrittenInv'
<1>1. \A w \in written' : Kind(w.account) # "token" => Same(w)
  BY DEF WrittenInv, WrittenTrue, Same
<1>2. WrittenTrue'
  BY <1>1 DEF WrittenTrue, Same, Held, UpTo, Kind
<1>3. ChainMade'
  BY DEF ChainMade, WrittenInv, StateAfter, Did
<1>4. \A a \in Account : streamed'[a] # Nothing => True(a, streamed[a])'
  BY DEF WrittenInv, True, Held, UpTo
<1> QED
  BY <1>2, <1>3, <1>4 DEF WrittenInv

\* The account the loop is at.
LEMMA AtAccount ==
    ASSUME WrittenInv, phase = "keys"
    PROVE  /\ This \in Account
           /\ next \in Nat /\ next + 1 \in 1..Len(Keys)+1
           /\ next < Len(Keys) => next + 1 <= Len(Keys)
  BY ReconstructAssumption DEF WrittenInv, This, Account

\* Settling one account.
LEMMA SettleKeeps ==
    ASSUME WrittenInv, phase = "keys", NEW st, NEW source, NEW why, Settle(st, source, why),
           \A w \in written' \ written : Kind(w.account) # "token" => Same(w)
    PROVE  WrittenInv'
<1>1. UNCHANGED <<world, chain, streamed>> /\ next' = next + 1
      /\ phase' = IF next < Len(Keys) THEN "keys" ELSE IF OwnSlot THEN "block" ELSE "done"
  BY DEF Settle
<1>2. phase' = "keys" => next < Len(Keys)
  BY <1>1
<1>3. phase' # "stream"
  BY <1>1
<1> QED
  BY <1>1, <1>2, <1>3, AtAccount, WrittenKept

LEMMA SettleSilent ==
    ASSUME WrittenInv, phase = "keys", UNCHANGED written,
           \E st, source, why : Settle(st, source, why)
    PROVE  WrittenInv'
  BY SettleKeeps

\* What is stored when a version goes with its own slot and bytes.
LEMMA WritesAdds ==
    ASSUME NEW v, NEW st, NEW known, Writes(v.slot, st, known),
           st.data = v.data => True(This, v),
           st.data = v.data \/ Kind(This) = "token"
    PROVE  \A w \in written' \ written : Kind(w.account) # "token" => Same(w)
<1> TAKE w \in written' \ written
<1>1. w = [account |-> This, slot |-> v.slot, state |-> st, known |-> known]
  BY DEF Writes
<1>2. w.account = This /\ w.slot = v.slot /\ w.state = st
  BY <1>1
<1> QED
  BY <1>2 DEF Same, True

LEMMA KeepProgramWrites == ASSUME WrittenInv, phase = "keys", KeepProgram PROVE WrittenInv'
<1>1. CASE UNCHANGED written
  <2>1. \E st, source, why : Settle(st, source, why)
    BY DEF KeepProgram
  <2> QED
    BY <1>1, <2>1, SettleSilent
<1>2. CASE \E elf \in FromMentions(This) :
              /\ elf # Nothing
              /\ \E st, source, why : Settle(st, source, why)
              /\ Writes(elf.slot, [data |-> elf.data, bal |-> 0], TRUE)
  <2>1. PICK elf \in FromMentions(This) :
              /\ elf # Nothing
              /\ \E st, source, why : Settle(st, source, why)
              /\ Writes(elf.slot, [data |-> elf.data, bal |-> 0], TRUE)
    BY <1>2
  <2>2. True(This, elf)
    BY <2>1, AtAccount, MentionHolds DEF WrittenInv
  <2> DEFINE st == [data |-> elf.data, bal |-> 0]
  <2>3. st.data = elf.data /\ Writes(elf.slot, st, TRUE)
    BY <2>1
  <2> HIDE DEF st
  <2>4. \A w \in written' \ written : Kind(w.account) # "token" => Same(w)
    BY <2>2, <2>3, WritesAdds
  <2> QED
    BY <2>1, <2>4, SettleKeeps
<1> QED
  BY <1>1, <1>2 DEF KeepProgram

LEMMA TakeClosedWrites == ASSUME WrittenInv, phase = "keys", TakeClosed PROVE WrittenInv'
<1>1. \E st, source, why : Settle(st, source, why)
  BY DEF TakeClosed
<1>2. CASE UNCHANGED written
  BY <1>1, <1>2, SettleSilent
<1>3. CASE StreamedBytes /\ ~UNCHANGED written
  <2> DEFINE st == [data |-> IF OwnSlot /\ TokenListed(This)
                             THEN Meta(This).data ELSE streamed[This].data,
                    bal |-> IF OwnSlot THEN Meta(This).bal ELSE Garbage]
  <2>1. Writes(streamed[This].slot, st, TRUE)
    BY <1>3 DEF TakeClosed
  <2>2. st.data = streamed[This].data \/ Kind(This) = "token"
    BY DEF TokenListed
  <2>3. True(This, streamed[This])
    BY <1>3, AtAccount DEF WrittenInv, StreamedBytes, Streamed
  <2>4. \A w \in written' \ written : Kind(w.account) # "token" => Same(w)
    <3> HIDE DEF st
    <3> QED
      BY <2>1, <2>2, <2>3, WritesAdds
  <2> QED
    BY <1>1, <2>4, SettleKeeps
<1> QED
  BY <1>2, <1>3 DEF TakeClosed

LEMMA TakeRecordWrites == ASSUME WrittenInv, phase = "keys", TakeRecord PROVE WrittenInv'
<1>1. \E st, source, why : Settle(st, source, why)
  BY DEF TakeRecord
<1>2. CASE UNCHANGED written
  BY <1>1, <1>2, SettleSilent
<1>3. CASE IsToken(This) /\ \E st : Writes(streamed[This].slot, st, TRUE)
  <2>1. \A w \in written' \ written : w.account = This
    BY <1>3 DEF Writes
  <2>2. \A w \in written' \ written : Kind(w.account) # "token" => Same(w)
    BY <1>3, <2>1 DEF IsToken
  <2> QED
    BY <1>1, <2>2, SettleKeeps
<1> QED
  BY <1>2, <1>3 DEF TakeRecord

LEMMA TakeStreamedWrites == ASSUME WrittenInv, phase = "keys", TakeStreamed PROVE WrittenInv'
<1> DEFINE v == streamed[This]
           kept == IF v.data = 0 THEN NotLoaded ELSE [data |-> v.data, bal |-> Meta(This).bal]
           st == IF kept = NotLoaded THEN Gone ELSE kept
<1>1. \E source, why : Settle(kept, source, why)
  BY DEF TakeStreamed
<1>2. Writes(v.slot, st, TRUE) /\ Streamed(This)
  BY DEF TakeStreamed
<1>3. True(This, v)
  BY <1>2, AtAccount DEF WrittenInv, Streamed
<1>4. st.data = v.data
  <2>1. CASE v.data = 0
    BY <2>1 DEF Gone
  <2>2. CASE v.data # 0 /\ kept # NotLoaded
    BY <2>2
  <2>3. ~(v.data # 0 /\ kept = NotLoaded)
    <3>1. world.target \in Tx /\ Tx = 1..Last /\ Last \in Nat
      BY ReconstructAssumption DEF WrittenInv, ChainMade, Tx, Last
    <3>2. Meta(This) \in [data : Nat, bal : Nat]
      <4>1. This \in Account /\ world.target - 1 \in 0..Last /\ world.target \in 0..Last
        BY <3>1, AtAccount
      <4>2. ChainMade
        BY DEF WrittenInv
      <4>3. Pre(This) \in [data : Nat, bal : Nat] /\ Post(This) \in [data : Nat, bal : Nat]
        BY <4>1, <4>2, AccountTyped DEF Pre, Post
      <4> QED
        BY <4>3 DEF Meta
    <3>3. v.data \in Nat
      BY <1>3 DEF True
    <3>4. [data |-> v.data, bal |-> Meta(This).bal] \in [data : Nat, bal : Nat]
      BY <3>2, <3>3
    <3> QED
      BY <3>4, ReconstructAssumption DEF States
  <2> QED
    BY <2>1, <2>2, <2>3
<1>5. \A w \in written' \ written : Kind(w.account) # "token" => Same(w)
  <2> HIDE DEF st, v
  <2> QED
    BY <1>2, <1>3, <1>4, WritesAdds
<1> QED
  BY <1>1, <1>5, SettleKeeps

\* What the block's prefix loads to run on.
LEMMA StartPrefixWrites == ASSUME WrittenInv, StartPrefix PROVE WrittenInv'
<1>1. UNCHANGED <<world, chain, streamed, next>> /\ phase' = "prefix"
  BY DEF StartPrefix
<1>2. ASSUME NEW w \in written' \ written PROVE Same(w)
  <2>1. PICK a \in Account :
          /\ LastChange(a, Floor) # 0
          /\ w = [account |-> a, slot |-> SlotOf[LastChange(a, Floor)],
                  state |-> [data |-> Held(a, LastChange(a, Floor)).data, bal |-> 0],
                  known |-> TRUE]
    BY <1>2 DEF StartPrefix, Preceded, Touched, Affected
  <2>2. True(a, VersionAt(a, LastChange(a, Floor)))
    BY <2>1, LastChangeHolds DEF WrittenInv
  <2> QED
    BY <2>1, <2>2 DEF Same, True, VersionAt
<1> QED
  BY <1>1, <1>2, WrittenKept DEF WrittenInv

\* The stream answers.
LEMMA AskStreamWrites == ASSUME WrittenInv, AskStream PROVE WrittenInv'
<1>1. UNCHANGED <<world, chain, next, written>> /\ phase = "stream" /\ phase' = "keys"
  BY DEF AskStream
<1>2. ASSUME NEW a \in Account
      PROVE  streamed'[a] \in {Nothing} \cup StreamBefore(a) \cup FromMentions(a)
  <2>1. PICK got :
          /\ \/ got[a] \in {[v |-> Nothing, why |-> {}]}
             \/ got[a] \in {[v |-> v, why |-> {}] : v \in StreamBefore(a)}
             \/ got[a] \in {[v |-> v, why |-> IF v # Nothing /\ v.slot # AtMention(a, {}).slot
                                              THEN {"answer lost"} ELSE {}] : v \in FromMentions(a)}
          /\ streamed' = [b \in Account |-> got[b].v]
    BY DEF AskStream
  <2>2. streamed'[a] = got[a].v
    BY <2>1
  <2>3. CASE got[a] = [v |-> Nothing, why |-> {}]
    BY <2>2, <2>3
  <2>4. CASE \E v \in StreamBefore(a) : got[a] = [v |-> v, why |-> {}]
    <3>1. PICK u \in StreamBefore(a) : got[a] = [v |-> u, why |-> {}]
      BY <2>4
    <3> QED
      BY <2>2, <3>1
  <2>5. CASE \E v \in FromMentions(a) :
               got[a] = [v |-> v, why |-> IF v # Nothing /\ v.slot # AtMention(a, {}).slot
                                         THEN {"answer lost"} ELSE {}]
    <3>1. PICK u \in FromMentions(a) : \E why : got[a] = [v |-> u, why |-> why]
      BY <2>5
    <3> QED
      BY <2>2, <3>1
  <2> QED
    BY <2>1, <2>3, <2>4, <2>5
<1>3. ASSUME NEW a \in Account, streamed'[a] # Nothing PROVE True(a, streamed'[a])
  <2>1. CASE streamed'[a] \in FromMentions(a)
    BY <1>3, <2>1, MentionHolds DEF WrittenInv
  <2>2. CASE streamed'[a] \in StreamBefore(a)
    BY <1>3, <2>2, LastChangeHolds DEF WrittenInv, StreamBefore
  <2> QED
    BY <1>2, <1>3, <2>1, <2>2
<1>4. \A a \in Account : streamed'[a] # Nothing => True(a, streamed[a])'
  BY <1>1, <1>3 DEF True, Held, UpTo
<1>5. ChainMade'
  BY <1>1 DEF WrittenInv, ChainMade, StateAfter, Did
<1>6. WrittenTrue'
  BY <1>1 DEF WrittenInv, WrittenTrue, Held, UpTo, Kind
<1>7. next' = 1 /\ 1 \in 1..Len(Keys)+1 /\ 1 <= Len(Keys)
  BY <1>1, ReconstructAssumption DEF WrittenInv
<1> QED
  BY <1>1, <1>4, <1>5, <1>6, <1>7 DEF WrittenInv

LEMMA WrittenInit == Init => WrittenInv
<1> SUFFICES ASSUME Init PROVE WrittenInv
  OBVIOUS
<1>1. ChainMade
  BY DEF Init, ChainMade
<1>2. \A a \in Account : streamed[a] = Nothing
  BY DEF Init
<1>3. next = 1 /\ phase # "keys" /\ written = {}
  BY DEF Init
<1> QED
  BY <1>1, <1>2, <1>3, ReconstructAssumption DEF WrittenInv, WrittenTrue

LEMMA WrittenStep == WrittenInv /\ [Next]_vars => WrittenInv'
<1> SUFFICES ASSUME WrittenInv, [Next]_vars PROVE WrittenInv'
  OBVIOUS
<1>1. ASSUME UNCHANGED <<world, chain, streamed, next, written>>,
             phase' \in {"done", "prefix"}
      PROVE  WrittenInv'
  BY <1>1, WrittenKept DEF WrittenInv
<1>2. CASE AskStream
  BY <1>2, AskStreamWrites
<1>3. CASE Key
  <2> SUFFICES ASSUME phase = "keys" PROVE WrittenInv'
    BY <1>3 DEF Key
  <2>1. CASE KeepProgram
    BY <2>1, KeepProgramWrites
  <2>2. CASE SeedSigner
    BY <2>2, SettleSilent DEF SeedSigner
  <2>3. CASE TakeClosed
    BY <2>3, TakeClosedWrites
  <2>4. CASE TakeRecord
    BY <2>4, TakeRecordWrites
  <2>5. CASE TakeVersion
    BY <2>5, SettleSilent DEF TakeVersion
  <2>6. CASE TakeStreamed
    BY <2>6, TakeStreamedWrites
  <2>7. CASE TakeEvent
    BY <2>7, SettleSilent DEF TakeEvent
  <2>8. CASE TakeListed
    BY <2>8, SettleSilent DEF TakeListed
  <2>9. CASE OverBudget
    BY <2>9, SettleSilent DEF OverBudget
  <2>10. CASE TakeCurrent
    BY <2>10, SettleSilent DEF TakeCurrent
  <2>11. CASE Rebuild
    BY <2>11, SettleSilent DEF Rebuild
  <2> QED
    BY <1>3, <2>1, <2>2, <2>3, <2>4, <2>5, <2>6, <2>7, <2>8, <2>9, <2>10, <2>11 DEF Key
<1>4. CASE BlockUnread
  BY <1>1, <1>4 DEF BlockUnread
<1>5. CASE NothingBefore
  BY <1>1, <1>5 DEF NothingBefore
<1>6. CASE LabelOnly
  BY <1>1, <1>6 DEF LabelOnly
<1>7. CASE StartPrefix
  BY <1>7, StartPrefixWrites
<1>8. CASE RunOne
  BY <1>1, <1>8 DEF RunOne
<1>9. CASE Bake
  BY <1>1, <1>9 DEF Bake
<1>10. CASE UNCHANGED vars
  <2>1. UNCHANGED <<world, chain, streamed, next, phase, written>>
    BY <1>10 DEF vars
  <2> QED
    BY <2>1, WrittenKept DEF WrittenInv
<1> QED
  BY <1>2, <1>3, <1>4, <1>5, <1>6, <1>7, <1>8, <1>9, <1>10 DEF Next

\* Whatever the chain and the answers, what a request leaves in the record store
\* is what the account held at the slot it is stored for.
THEOREM RecordsTrue == Spec => []WrittenTrue
<1>1. WrittenInv => WrittenTrue
  BY DEF WrittenInv
<1> QED
  BY WrittenInit, WrittenStep, <1>1, PTL DEF Spec

-----------------------------------------------------------------------------
(* The certificate.  First what an account of the chain is.                  *)

LEMMA TxIs ==
    /\ Tx = 1..Last /\ Last \in Nat
    /\ \A i \in Tx : SlotOf[i] \in Nat
    /\ \A i, j \in Tx : i <= j => SlotOf[i] <= SlotOf[j]
  <1>1. Tx = 1..Last /\ Last \in Nat
    BY ReconstructAssumption DEF Tx, Last
  <1>2. \A i \in Tx : SlotOf[i] \in Nat
    BY ReconstructAssumption DEF Tx
  <1>3. \A i, j \in Tx : i <= j => SlotOf[i] <= SlotOf[j]
    BY ReconstructAssumption DEF Tx
  <1>4. QED
    BY <1>1, <1>2, <1>3

LEMMA LastInIs ==
    ASSUME NEW P \in SUBSET Tx
    PROVE  /\ LastIn(P) \in 0..Last /\ \A j \in P : j <= LastIn(P)
           /\ IF P = {} THEN LastIn(P) = 0 ELSE LastIn(P) \in P
  <1>1. P \in SUBSET (1..Last) /\ Last \in Nat
    BY TxIs
  <1>2. LastIn(P) \in P \cup {0} /\ \A j \in P : j <= LastIn(P)
    BY <1>1, LastOf
  <1> DEFINE l == LastIn(P)
  <1> HIDE DEF l
  <1>3. l \in P \cup {0} /\ \A j \in P : j <= l
    BY <1>2 DEF l
  <1>4. P # {} => l \in P
    <2>1. SUFFICES ASSUME P # {} PROVE l # 0
      BY <1>3
    <2>2. PICK j \in P : j \in 1..Last /\ j <= l
      BY <1>1, <1>3, <2>1
    <2>3. QED
      BY <1>1, <2>2
  <1>5. CASE P = {}
    <2>1. l = 0
      BY <1>3, <1>5
    <2>2. l \in 0..Last
      BY <1>1, <2>1
    <2>3. QED
      BY <1>3, <1>5, <2>1, <2>2 DEF l
  <1>6. CASE P # {}
    <2>1. l \in P
      BY <1>4, <1>6
    <2>2. l \in 0..Last
      BY <1>1, <2>1
    <2>3. QED
      BY <1>3, <1>6, <2>1, <2>2 DEF l
  <1>7. QED
    BY <1>5, <1>6

\* The chain up to a slot, and before it.
LEMMA PlacesIs ==
    ASSUME NEW s \in Int
    PROVE  /\ UpTo(s) \in 0..Last /\ Before(s) \in 0..Last
           /\ \A i \in Tx : (i <= UpTo(s) <=> SlotOf[i] <= s) /\ (i <= Before(s) <=> SlotOf[i] < s)
  <1> DEFINE P == {i \in Tx : SlotOf[i] <= s}
             Q == {i \in Tx : SlotOf[i] < s}
  <1>1. UpTo(s) = LastIn(P) /\ Before(s) = LastIn(Q) /\ P \in SUBSET Tx /\ Q \in SUBSET Tx
    BY DEF UpTo, Before
  <1> DEFINE p == LastIn(P)
             q == LastIn(Q)
  <1>2. p \in 0..Last /\ (\A j \in P : j <= p) /\ (p = 0 \/ p \in P)
    <2> HIDE DEF P
    <2>1. QED
      BY <1>1, LastInIs
  <1>3. q \in 0..Last /\ (\A j \in Q : j <= q) /\ (q = 0 \/ q \in Q)
    <2> HIDE DEF Q
    <2>1. QED
      BY <1>1, LastInIs
  <1>4. ASSUME NEW i \in Tx PROVE (i <= p <=> SlotOf[i] <= s) /\ (i <= q <=> SlotOf[i] < s)
    <2>1. i \in 1..Last /\ Last \in Nat /\ SlotOf[i] \in Nat
      BY TxIs
    <2>2. SlotOf[i] <= s => i <= p
      BY <1>2
    <2>3. SlotOf[i] < s => i <= q
      BY <1>3
    <2>4. ASSUME i <= p PROVE SlotOf[i] <= s
      <3>1. p # 0
        <4> HIDE DEF p
        <4>1. QED
          BY <1>2, <2>1, <2>4
      <3>2. p \in Tx /\ SlotOf[p] <= s
        BY <1>2, <3>1
      <3> HIDE DEF p
      <3>3. SlotOf[i] <= SlotOf[p] /\ SlotOf[p] \in Nat
        BY <2>4, <3>2, TxIs
      <3>4. QED
        BY <2>1, <3>2, <3>3
    <2>5. ASSUME i <= q PROVE SlotOf[i] < s
      <3>1. q # 0
        <4> HIDE DEF q
        <4>1. QED
          BY <1>3, <2>1, <2>5
      <3>2. q \in Tx /\ SlotOf[q] < s
        BY <1>3, <3>1
      <3> HIDE DEF q
      <3>3. SlotOf[i] <= SlotOf[q] /\ SlotOf[q] \in Nat
        BY <2>5, <3>2, TxIs
      <3>4. QED
        BY <2>1, <3>2, <3>3
    <2>6. QED
      BY <2>2, <2>3, <2>4, <2>5
  <1>5. QED
    BY <1>1, <1>2, <1>3, <1>4

UpToIs(s) == UpTo(s) \in 0..Last /\ \A i \in Tx : i <= UpTo(s) <=> SlotOf[i] <= s
BeforeIs(s) == Before(s) \in 0..Last /\ \A i \in Tx : i <= Before(s) <=> SlotOf[i] < s
LEMMA Places ==
    ASSUME NEW s \in Int
    PROVE  UpToIs(s) /\ BeforeIs(s)
  <1>1. QED
    BY PlacesIs DEF UpToIs, BeforeIs

\* When an account was last closed, and what made it since.
ClosedAt(a, i) == LastIn({k \in 1..i : Did(a, k) = "close"})
Made(a, i) == {j \in ClosedAt(a, i)+1 .. i : Did(a, j) \in {"write", "pay"}}
PaidIn(a, i) == {j \in Made(a, i) : Did(a, j) = "pay"}
FirstIn(P) == CHOOSE j \in P : \A k \in P : j <= k
AccountMade(a, i) ==
    /\ ClosedAt(a, i) \in 0..i
    /\ \A k \in 1..i : Did(a, k) = "close" => k <= ClosedAt(a, i)
    /\ ClosedAt(a, i) # 0 => Did(a, ClosedAt(a, i)) = "close"
    /\ Made(a, i) \in SUBSET Tx
    /\ Made(a, i) = {} => Held(a, i) = Gone
    /\ Made(a, i) # {} =>
         /\ Held(a, i) = [data |-> LastIn(Made(a, i) \ PaidIn(a, i)),
                          bal |-> IF PaidIn(a, i) = {} THEN FirstIn(Made(a, i))
                                  ELSE LastIn(PaidIn(a, i))]
         /\ FirstIn(Made(a, i)) \in Made(a, i)
         /\ \A k \in Made(a, i) : FirstIn(Made(a, i)) <= k

LEMMA AccountIs ==
    ASSUME ChainMade, NEW a \in Account, NEW i \in 0..Last
    PROVE  AccountMade(a, i)
  <1> DEFINE C == {k \in 1..i : Did(a, k) = "close"}
             c == ClosedAt(a, i)
             M == Made(a, i)
             P == PaidIn(a, i)
  <1>1. Last \in Nat /\ i \in Nat /\ 1..i \subseteq Tx
    BY TxIs
  <1>2. c \in 0..i /\ (\A k \in C : k <= c) /\ (c # 0 => c \in C)
    <2>1. C \in SUBSET (1..i) /\ c = LastIn(C)
      BY DEF ClosedAt
    <2>2. c \in C \cup {0} /\ \A k \in C : k <= c
      <3> HIDE DEF C, c
      <3>1. QED
        BY <1>1, <2>1, LastOf
    <2> HIDE DEF c
    <2>3. QED
      BY <1>1, <2>2
  <1>3. M \in SUBSET Tx
    <2> HIDE DEF c
    <2>1. c+1..i \subseteq 1..i
      BY <1>1, <1>2
    <2>2. QED
      BY <1>1, <2>1 DEF Made, c
  <1>4. Held(a, i) = IF M = {} THEN Gone
                    ELSE [data |-> LastIn(M \ P),
                          bal |-> IF P = {} THEN FirstIn(M) ELSE LastIn(P)]
    BY DEF ChainMade, Held, StateAfter, Made, PaidIn, ClosedAt, FirstIn
  <1>5. M # {} => FirstIn(M) \in M /\ \A k \in M : FirstIn(M) <= k
    <2> HIDE DEF M
    <2>1. M \in SUBSET Nat
      BY <1>3, TxIs
    <2>2. M # {} => \E j \in M : \A k \in M : j <= k
      BY <2>1, FirstOf
    <2>3. QED
      BY <2>2 DEF FirstIn
  <1>6. QED
    BY <1>2, <1>3, <1>4, <1>5 DEF AccountMade

\* An account stays what it is while nothing writes it.
LEMMA Kept ==
    ASSUME ChainMade, NEW a \in Account, NEW i \in 0..Last, NEW j \in 0..Last, i <= j,
           \A k \in Tx : i < k /\ k <= j => Did(a, k) \notin Writable
    PROVE  Held(a, i) = Held(a, j)
  <1>1. Tx = 1..Last /\ Last \in Nat
    BY TxIs
  <1>2. \A k \in 1..j : k \in 1..i \/ (k \in Tx /\ i < k /\ k <= j)
    BY <1>1
  <1>3. \A k \in 1..j : Did(a, k) \in Writable => k \in 1..i
    BY <1>2
  <1>4. {k \in 1..i : Did(a, k) = "close"} = {k \in 1..j : Did(a, k) = "close"}
    BY <1>1, <1>3 DEF Writable, Changes
  <1>5. ClosedAt(a, i) = ClosedAt(a, j)
    BY <1>4 DEF ClosedAt
  <1>6. ClosedAt(a, i) \in 0..i
    BY AccountIs DEF AccountMade
  <1> DEFINE c == ClosedAt(a, i)
  <1> HIDE DEF c
  <1>7. \A k \in c+1..j : k \in 1..j
    BY <1>1, <1>6 DEF c
  <1>8. {k \in c+1..i : Did(a, k) \in {"write", "pay"}} = {k \in c+1..j : Did(a, k) \in {"write", "pay"}}
    BY <1>1, <1>3, <1>6, <1>7 DEF Writable, Changes, c
  <1>9. Made(a, i) = Made(a, j) /\ PaidIn(a, i) = PaidIn(a, j)
    BY <1>5, <1>8 DEF Made, PaidIn, c
  <1>10. AccountMade(a, i) /\ AccountMade(a, j)
    BY AccountIs
  <1>11. QED
    BY <1>9, <1>10 DEF AccountMade

\* So do its bytes while nothing changes them.
LEMMA BytesStay ==
    ASSUME ChainMade, NEW a \in Account, NEW i \in 0..Last, NEW j \in 0..Last, i <= j,
           \A k \in Tx : i < k /\ k <= j => Did(a, k) \notin Changes
    PROVE  Held(a, i).data = Held(a, j).data
  <1>1. Tx = 1..Last /\ Last \in Nat
    BY TxIs
  <1>2. \A k \in 1..j : k \in 1..i \/ (k \in Tx /\ i < k /\ k <= j)
    BY <1>1
  <1>3. \A k \in 1..j : Did(a, k) \in Changes => k \in 1..i
    BY <1>2
  <1>4. {k \in 1..i : Did(a, k) = "close"} = {k \in 1..j : Did(a, k) = "close"}
    BY <1>1, <1>3 DEF Changes
  <1> DEFINE c == LastIn({k \in 1..i : Did(a, k) = "close"})
  <1>5. c \in 0..i
    BY AccountIs DEF AccountMade, ClosedAt
  <1>6. WritesSince(a, i) = {k \in c+1..i : Did(a, k) = "write"}
    BY DEF WritesSince
  <1>7. WritesSince(a, j) = {k \in c+1..j : Did(a, k) = "write"}
    BY <1>4 DEF WritesSince
  <1> HIDE DEF c
  <1>8. \A k \in c+1..j : k \in 1..j
    BY <1>1, <1>5
  <1>9. WritesSince(a, i) = WritesSince(a, j)
    BY <1>1, <1>3, <1>5, <1>6, <1>7, <1>8 DEF Changes
  <1>10. QED
    BY <1>9, BytesMade

\* What the runtime admits, of this world.
LEMMA Admitted ==
    ASSUME ChainMade, NEW a \in Account
    PROVE  /\ Kind(a) \in {"data", "curve", "token", "signer", "program"}
           /\ Kind(a) = "signer" => \A i \in Tx : Did(a, i) \in {"none", "read", "pay"}
           /\ Kind(a) = "program" => /\ \A i \in Tx : Did(a, i) \in {"none", "read", "write"}
                                    /\ \E i \in Tx : Did(a, i) = "write"
           /\ Did(a, world.target) # "none"
           /\ Kind(a) # "signer" => \A i \in Tx : Did(a, i) = "pay" =>
                \E j \in Tx : /\ j < i /\ Did(a, j) \in {"write", "pay"}
                             /\ \A k \in Tx : j < k /\ k < i => Did(a, k) # "close"
  <1>1. world \in Worlds
    BY DEF ChainMade
  <1>2. QED
    BY <1>1, WorldsAssumption DEF Kind, Did

\* A recorded version is of the floor or older, and held there.
LEMMA RecordedIs ==
    ASSUME ChainMade, NEW a \in Account, Recorded(a)
    PROVE  /\ world.start[a].slot \in Nat /\ world.start[a].slot <= Floor
           /\ world.start[a].held =>
                \A i \in Tx : world.start[a].slot < SlotOf[i] /\ SlotOf[i] <= Floor =>
                    Did(a, i) \notin Writable
  <1>1. world \in Worlds /\ world.start[a] # Nothing
    BY DEF ChainMade, Recorded
  <1>2. Floor = IF world.asked = SlotOf[world.target] THEN world.asked - 1 ELSE world.asked
    BY DEF Floor, OwnSlot, Landed
  <1>3. QED
    BY <1>1, <1>2, WorldsAssumption DEF Did, Writable, Changes

\* The request: its transaction is on the chain.
LEMMA AskedIs ==
    ASSUME ChainMade
    PROVE  /\ world.target \in Tx /\ world.asked \in Nat /\ Landed \in Nat
           /\ world.target - 1 \in 0..Last /\ world.target \in 0..Last
           /\ Floor \in Int
           /\ OwnSlot => world.asked = Landed
           /\ UpTo(world.asked) \in 0..Last /\ Before(world.asked) \in 0..Last
           /\ UpTo(Floor) \in 0..Last
  <1>1. world \in Worlds
    BY DEF ChainMade
  <1>2. world.target \in Tx /\ world.asked \in Nat
    BY <1>1, ReconstructAssumption DEF Tx
  <1>3. Landed \in Nat /\ Floor \in Int
    BY <1>2, TxIs DEF Landed, Floor
  <1>4. world.target - 1 \in 0..Last /\ world.target \in 0..Last
    BY <1>2, TxIs
  <1>5. QED
    BY <1>2, <1>3, <1>4, PlacesIs DEF OwnSlot

\* An account is there when it has a balance, and stands for itself.
LEMMA StandsHeld ==
    ASSUME ChainMade, NEW a \in Account, NEW i \in 0..Last
    PROVE  /\ Held(a, i) \in States /\ Stands(Held(a, i)) = Held(a, i)
           /\ Held(a, i).bal = 0 => Held(a, i) = Gone
           /\ Held(a, i).data # 0 => Held(a, i) # Gone
  <1>1. Held(a, i) \in States
    BY AccountTyped DEF States
  <1>2. AccountMade(a, i)
    BY AccountIs
  <1> DEFINE M == Made(a, i)
             P == PaidIn(a, i)
  <1>3. M \in SUBSET Tx /\ P \in SUBSET M /\ Tx = 1..Last /\ Last \in Nat
    BY <1>2, TxIs DEF AccountMade, PaidIn
  <1>4. ASSUME M # {} PROVE Held(a, i).bal # 0
    <2>1. Held(a, i) = [data |-> LastIn(M \ P),
                        bal |-> IF P = {} THEN FirstIn(M) ELSE LastIn(P)]
      BY <1>2, <1>4 DEF AccountMade
    <2>2. CASE P = {}
      <3>1. Held(a, i).bal = FirstIn(M) /\ FirstIn(M) \in M
        BY <1>2, <1>4, <2>1, <2>2 DEF AccountMade
      <3> HIDE DEF M, P
      <3>2. QED
        BY <1>3, <3>1
    <2>3. CASE P # {}
      <3>1. Held(a, i).bal = LastIn(P)
        BY <2>1, <2>3
      <3> HIDE DEF M, P
      <3>2. P \in SUBSET Tx
        BY <1>3
      <3>3. LastIn(P) \in P
        BY <2>3, <3>2, LastInIs
      <3>4. QED
        BY <1>3, <3>1, <3>3
    <2>4. QED
      BY <2>2, <2>3
  <1>5. M = {} => Held(a, i) = Gone
    BY <1>2 DEF AccountMade
  <1>6. Held(a, i).bal = 0 => Held(a, i) = Gone
    BY <1>4, <1>5
  <1>7. Held(a, i) # NotLoaded
    BY <1>1, ReconstructAssumption
  <1>8. Stands(Held(a, i)) = Held(a, i)
    BY <1>6, <1>7 DEF Stands
  <1>9. QED
    BY <1>1, <1>6, <1>8 DEF Gone

\* Without bytes only a wallet is there.
LEMMA NoBytesGone ==
    ASSUME ChainMade, NEW a \in Account, NEW i \in 0..Last, Kind(a) # "signer",
           Held(a, i).data = 0
    PROVE  Held(a, i) = Gone
  <1>1. AccountMade(a, i)
    BY AccountIs
  <1> DEFINE M == Made(a, i)
             P == PaidIn(a, i)
             c == ClosedAt(a, i)
             m == FirstIn(M)
  <1>2. M \in SUBSET Tx /\ P \in SUBSET M /\ Tx = 1..Last /\ Last \in Nat /\ i \in Nat
    BY <1>1, TxIs DEF AccountMade, PaidIn
  <1>3. SUFFICES ASSUME M # {} PROVE FALSE
    BY <1>1 DEF AccountMade
  <1>4. m \in M /\ \A k \in M : m <= k
    BY <1>1, <1>3 DEF AccountMade
  <1>5. LastIn(M \ P) = 0
    <2>1. Held(a, i) = [data |-> LastIn(M \ P),
                        bal |-> IF P = {} THEN FirstIn(M) ELSE LastIn(P)]
      BY <1>1, <1>3 DEF AccountMade
    <2>2. QED
      BY <2>1
  <1>6. M \ P = {}
    <2> HIDE DEF M, P
    <2>1. M \ P \in SUBSET Tx
      BY <1>2
    <2>2. M \ P # {} => LastIn(M \ P) \in M \ P
      BY <2>1, LastInIs
    <2>3. QED
      BY <1>2, <1>5, <2>2
  <1>7. Did(a, m) = "pay" /\ m \in c+1..i /\ m \in Tx
    <2>1. m \in P
      BY <1>4, <1>6
    <2>2. QED
      BY <1>2, <1>4, <2>1 DEF PaidIn, Made
  <1>8. PICK j \in Tx : /\ j < m /\ Did(a, j) \in {"write", "pay"}
                       /\ \A k \in Tx : j < k /\ k < m => Did(a, k) # "close"
    BY <1>7, Admitted
  <1>9. c \in 0..i /\ (c # 0 => Did(a, c) = "close")
    BY <1>1 DEF AccountMade
  <1>10. j \notin M
    <2> HIDE DEF M, m
    <2>1. QED
      BY <1>2, <1>4, <1>8
  <1>11. j <= c
    <2>1. SUFFICES ASSUME c < j PROVE FALSE
      <3> HIDE DEF c
      <3>1. QED
        BY <1>2, <1>8, <1>9
    <2>2. j \in c+1..i
      <3> HIDE DEF c, m
      <3>1. QED
        BY <1>2, <1>7, <1>8, <1>9, <2>1
    <2>3. QED
      BY <1>8, <1>10, <2>2 DEF Made
  <1> HIDE DEF c, m, M
  <1>12. c # 0 /\ c \in Tx
    BY <1>2, <1>8, <1>9, <1>11
  <1>13. j # c
    BY <1>8, <1>9, <1>12
  <1>14. j < c /\ c < m
    BY <1>2, <1>7, <1>8, <1>9, <1>11, <1>13
  <1>15. QED
    BY <1>8, <1>9, <1>12, <1>14

\* A wallet has none.
LEMMA SignerEmpty ==
    ASSUME ChainMade, NEW a \in Account, NEW i \in 0..Last, Kind(a) = "signer"
    PROVE  Held(a, i).data = 0
  <1>1. AccountMade(a, i)
    BY AccountIs
  <1>2. Tx = 1..Last /\ Last \in Nat /\ ClosedAt(a, i) \in 0..i
    BY <1>1, TxIs DEF AccountMade
  <1>3. WritesSince(a, i) = {}
    <2> DEFINE c == ClosedAt(a, i)
    <2> HIDE DEF c
    <2>1. \A k \in c+1..i : k \in Tx
      BY <1>2 DEF c
    <2>2. \A k \in c+1..i : Did(a, k) # "write"
      BY <2>1, Admitted
    <2>3. QED
      BY <2>2 DEF WritesSince, c, ClosedAt
  <1>4. LastIn({}) = 0
    BY DEF LastIn
  <1>5. QED
    BY <1>3, <1>4, BytesMade

\* A write is what the account then holds.
LEMMA WriteMakes ==
    ASSUME ChainMade, NEW a \in Account, NEW m \in Tx, Did(a, m) = "write"
    PROVE  Held(a, m).data = m
  <1>1. Tx = 1..Last /\ Last \in Nat /\ m \in 0..Last /\ m \in Nat
    BY TxIs
  <1>2. AccountMade(a, m)
    BY <1>1, AccountIs
  <1> DEFINE c == ClosedAt(a, m)
             W == WritesSince(a, m)
  <1>3. c \in 0..m /\ (c # 0 => Did(a, c) = "close")
    BY <1>2 DEF AccountMade
  <1>4. W = {j \in c+1..m : Did(a, j) = "write"}
    BY DEF WritesSince, ClosedAt
  <1> HIDE DEF c, W
  <1>5. c # m
    BY <1>1, <1>3
  <1>6. m \in W /\ W \in SUBSET (1..m)
    BY <1>1, <1>3, <1>4, <1>5
  <1>7. LastIn(W) \in W \cup {0} /\ \A j \in W : j <= LastIn(W)
    BY <1>1, <1>6, LastOf
  <1>8. LastIn(W) = m
    <2> DEFINE l == LastIn(W)
    <2>1. l \in W \cup {0} /\ \A j \in W : j <= l
      BY <1>7
    <2> HIDE DEF l
    <2>2. l = m
      BY <1>1, <1>6, <2>1
    <2>3. QED
      BY <2>2 DEF l
  <1>9. QED
    BY <1>1, <1>8, BytesMade DEF W

\* A program pays once, at its first deploy, and is there from then on.
LEMMA ProgramHeld ==
    ASSUME ChainMade, NEW a \in Account, Kind(a) = "program",
           NEW i \in 0..Last, NEW j \in 0..Last, NEW k \in Tx, k <= i, k <= j,
           Did(a, k) = "write"
    PROVE  Held(a, i).data # 0 /\ Held(a, i).bal = Held(a, j).bal
  <1> DEFINE W == {m \in Tx : Did(a, m) = "write"}
             f == FirstIn(W)
  <1>1. Tx = 1..Last /\ Last \in Nat
    BY TxIs
  <1>2. f \in W /\ \A m \in W : f <= m
    <2>1. W \in SUBSET Nat /\ W # {}
      BY <1>1
    <2> HIDE DEF W
    <2>2. \E m \in W : \A n \in W : m <= n
      BY <2>1, FirstOf
    <2>3. QED
      BY <2>2 DEF FirstIn
  <1> HIDE DEF f
  <1>3. ASSUME NEW n \in 0..Last, k <= n
        PROVE  Held(a, n).data # 0 /\ Held(a, n).bal = f
    <2>1. AccountMade(a, n)
      BY AccountIs
    <2>2. ClosedAt(a, n) = 0
      <3>1. ClosedAt(a, n) # 0 => ClosedAt(a, n) \in Tx /\ Did(a, ClosedAt(a, n)) = "close"
        <4>1. ClosedAt(a, n) \in 0..n
          BY <2>1 DEF AccountMade
        <4> DEFINE c == ClosedAt(a, n)
        <4> HIDE DEF c
        <4>2. c # 0 => c \in Tx
          BY <1>1, <4>1 DEF c
        <4>3. QED
          BY <2>1, <4>2 DEF AccountMade, c
      <3>2. QED
        BY <3>1, Admitted
    <2> DEFINE M == Made(a, n)
               P == PaidIn(a, n)
    <2>3. M = {m \in 1..n : Did(a, m) \in {"write", "pay"}}
      <3>1. ClosedAt(a, n) + 1 = 1
        BY <2>2
      <3>2. QED
        BY <3>1 DEF Made
    <2>4. \A m \in 1..n : m \in Tx
      BY <1>1
    <2>5. P = {} /\ M = {m \in 1..n : m \in W}
      BY <2>3, <2>4, Admitted DEF PaidIn
    <2>6. k \in M /\ M \in SUBSET Tx
      BY <1>1, <1>3, <2>4, <2>5
    <2>7. Held(a, n) = [data |-> LastIn(M \ P), bal |-> FirstIn(M)]
          /\ FirstIn(M) \in M /\ \A m \in M : FirstIn(M) <= m
      BY <2>1, <2>5, <2>6 DEF AccountMade
    <2>8. Held(a, n).data = LastIn(M) /\ Held(a, n).bal = FirstIn(M)
      <3>1. M \ P = M
        BY <2>5
      <3>2. QED
        BY <2>7, <3>1
    <2>9. LastIn(M) # 0
      <3> HIDE DEF M
      <3>1. LastIn(M) \in M
        BY <2>6, LastInIs
      <3>2. QED
        BY <1>1, <2>6, <3>1
    <2>10. f \in M
      <3>1. f \in 1..n
        <4>1. f \in Tx /\ f <= k
          BY <1>2
        <4>2. QED
          BY <1>1, <1>3, <4>1
      <3>2. QED
        BY <1>2, <2>5, <3>1
    <2>11. FirstIn(M) = f
      <3> DEFINE g == FirstIn(M)
      <3>1. g \in M /\ \A m \in M : g <= m
        BY <2>7
      <3>2. g \in W
        BY <2>5, <3>1
      <3> HIDE DEF g, M, W
      <3>3. g <= f /\ f <= g /\ g \in Nat /\ f \in Nat
        BY <1>1, <1>2, <2>6, <2>10, <3>1, <3>2
      <3>4. QED
        BY <3>3 DEF g
    <2>12. QED
      BY <2>8, <2>9, <2>11
  <1>4. QED
    BY <1>3

-----------------------------------------------------------------------------
\* What the answers are worth.

\* What opened the block and was not written in it is what the transaction saw.
LEMMA Opening ==
    ASSUME ChainMade, OwnSlot
    PROVE  /\ Before(world.asked) <= world.target - 1
           /\ \A k \in Tx : Before(world.asked) < k /\ k <= world.target - 1 => k \in Earlier
  <1>1. /\ world.target \in Tx /\ world.asked \in Nat /\ world.asked = SlotOf[world.target]
        /\ Tx = 1..Last /\ Last \in Nat
    BY AskedIs, TxIs DEF Landed
  <1> DEFINE b == Before(world.asked)
  <1>2. /\ b \in 0..Last
        /\ \A i \in Tx : i <= b <=> SlotOf[i] < world.asked
    <2>1. BeforeIs(world.asked)
      BY <1>1, Places
    <2>2. QED
      BY <2>1 DEF BeforeIs
  <1> HIDE DEF b
  <1>3. ~(world.target <= b)
    BY <1>1, <1>2
  <1>4. b <= world.target - 1
    BY <1>1, <1>2, <1>3
  <1>5. ASSUME NEW k \in Tx, b < k, k <= world.target - 1 PROVE k \in Earlier
    <2>1. ~(SlotOf[k] < world.asked)
      BY <1>1, <1>2, <1>5
    <2>2. k < world.target /\ SlotOf[k] <= SlotOf[world.target] /\ SlotOf[k] \in Nat
      BY <1>1, <1>5, TxIs
    <2>3. SlotOf[k] = Landed
      BY <1>1, <2>1, <2>2 DEF Landed
    <2>4. QED
      BY <2>2, <2>3 DEF Earlier
  <1>6. QED
    BY <1>4, <1>5 DEF b

LEMMA OpeningHeld ==
    ASSUME ChainMade, OwnSlot, NEW a \in Account, a \notin Preceded
    PROVE  Held(a, Before(world.asked)) = Pre(a)
  <1>1. \A k \in Tx : Before(world.asked) < k /\ k <= world.target - 1 => Did(a, k) \notin Writable
    BY Opening DEF Preceded, MayWrite
  <1>2. QED
    BY <1>1, Opening, AskedIs, Kept DEF Pre

\* The moment an answer of the stream is of: the opening of the slot, or for
\* another slot its end, and always its end for a later one.
Opens(i) ==
    /\ i \in {Before(world.asked), UpTo(world.asked)}
    /\ OwnSlot => i = Before(world.asked)
    /\ world.asked > Landed => i = UpTo(world.asked)
StreamRight(a, data) == \E i \in 0..Last : Opens(i) /\ data = Held(a, i).data

\* The floor is such a moment.
LEMMA FloorOpens ==
    ASSUME ChainMade
    PROVE  UpTo(Floor) \in 0..Last /\ Opens(UpTo(Floor))
  <1>1. world.asked \in Nat /\ Landed \in Nat /\ UpTo(Floor) \in 0..Last
    BY AskedIs
  <1>2. CASE OwnSlot
    <2>1. {i \in Tx : SlotOf[i] <= world.asked - 1} = {i \in Tx : SlotOf[i] < world.asked}
      BY <1>1, TxIs
    <2>2. UpTo(Floor) = Before(world.asked)
      BY <1>2, <2>1 DEF Floor, UpTo, Before
    <2>3. QED
      BY <1>1, <1>2, <2>2 DEF Opens, OwnSlot
  <1>3. CASE ~OwnSlot
    BY <1>1, <1>3 DEF Opens, Floor
  <1>4. QED
    BY <1>2, <1>3

\* The stream's version is of the floor.
LEMMA BeforeRight ==
    ASSUME ChainMade, NEW a \in Account, NEW v \in StreamBefore(a), v # Nothing
    PROVE  StreamRight(a, v.data)
  <1> DEFINE c == LastChange(a, Floor)
             P == {i \in Tx : Did(a, i) \in Changes /\ SlotOf[i] <= Floor}
             f == UpTo(Floor)
  <1>1. c # 0 /\ v = VersionAt(a, c)
    BY DEF StreamBefore
  <1>2. /\ c \in P /\ \A k \in P : k <= c
    <2>1. c = LastIn(P) /\ P \in SUBSET Tx
      BY DEF LastChange
    <2> HIDE DEF P, c
    <2>2. c \in P /\ \A k \in P : k <= c
      BY <1>1, <2>1, LastInIs
    <2>3. QED
      BY <2>2
  <1>3. /\ f \in 0..Last /\ Opens(f)
        /\ \A i \in Tx : i <= f <=> SlotOf[i] <= Floor
    BY FloorOpens, AskedIs, PlacesIs
  <1>4. Tx = 1..Last /\ Last \in Nat /\ c \in Tx /\ SlotOf[c] <= Floor
    BY <1>2, TxIs
  <1>5. v.data = Held(a, c).data
    BY <1>1 DEF VersionAt
  <1>6. \A k \in Tx : c < k /\ k <= f => Did(a, k) \notin Changes
    <2>1. \A k \in Tx : k <= f /\ Did(a, k) \in Changes => k <= c
      BY <1>2, <1>3
    <2> HIDE DEF c, f
    <2>2. QED
      BY <1>4, <2>1
  <1> HIDE DEF c, f
  <1>7. c <= f /\ c \in 0..Last
    BY <1>3, <1>4
  <1>8. Held(a, c).data = Held(a, f).data
    BY <1>3, <1>6, <1>7, BytesStay
  <1>9. QED
    BY <1>3, <1>5, <1>8 DEF StreamRight

\* The newest change before the slot, found at the newest mention when every
\* change is a mention the search looks at.
LEMMA MentionBefore ==
    ASSUME ChainMade, NEW a \in Account, IsProgram(a) \/ world.asked <= Landed,
           NEW v \in FromMentions(a), v # Nothing, v.slot = AtMention(a, {}).slot
    PROVE  /\ v.data = Held(a, Before(world.asked)).data
           /\ \E k \in Tx : k <= Before(world.asked) /\ Did(a, k) \in Changes
  <1>1. Tx = 1..Last /\ Last \in Nat /\ world.asked \in Nat /\ Landed \in Nat /\ world.target \in Tx
    BY TxIs, AskedIs
  <1> DEFINE seen == {s \in WritableSlots(a) \ {} : ChangedIn(a, s) # {}}
             P == UNION {ChangedIn(a, s) : s \in seen}
             i == LastIn(P)
             b == Before(world.asked)
  <1>2. seen # {}
    <2>1. PICK lost \in SUBSET WritableSlots(a) : v = AtMention(a, lost)
      BY DEF FromMentions
    <2>2. {s \in WritableSlots(a) \ lost : ChangedIn(a, s) # {}} # {}
      BY <2>1 DEF AtMention
    <2>3. QED
      BY <2>2
  <1>3. AtMention(a, {}) = VersionAt(a, i)
    BY <1>2 DEF AtMention
  <1>4. i \in P /\ \A k \in P : k <= i
    <2>1. P \in SUBSET Tx /\ P # {}
      BY <1>2 DEF ChangedIn
    <2> HIDE DEF P
    <2>2. QED
      BY <2>1, LastInIs
  <1>5. b \in 0..Last /\ \A k \in Tx : k <= b <=> SlotOf[k] < world.asked
    <2>1. BeforeIs(world.asked)
      BY <1>1, Places
    <2>2. QED
      BY <2>1 DEF BeforeIs
  <1>6. i \in Tx /\ Did(a, i) \in Changes /\ SlotOf[i] < world.asked
    <2>1. PICK s \in WritableSlots(a) : i \in ChangedIn(a, s)
      BY <1>4
    <2>2. s < world.asked
      BY <2>1 DEF WritableSlots
    <2>3. QED
      BY <2>1, <2>2 DEF ChangedIn
  <1>7. ASSUME NEW k \in Tx, k <= b, Did(a, k) \in Changes PROVE k \in P
    <2>1. SlotOf[k] < world.asked /\ SlotOf[k] \in Nat
      BY <1>5, <1>7, TxIs
    <2>2. IsProgram(a) \/ k < world.target
      <3>1. SUFFICES ASSUME world.asked <= Landed PROVE k < world.target
        OBVIOUS
      <3>2. SlotOf[k] < SlotOf[world.target] /\ SlotOf[world.target] \in Nat
        BY <1>1, <2>1, <3>1 DEF Landed
      <3>3. ~(world.target <= k)
        BY <1>1, <2>1, <3>2, TxIs
      <3>4. QED
        BY <1>1, <3>3
    <2>3. SlotOf[k] \in WritableSlots(a)
      BY <1>7, <2>1, <2>2 DEF WritableSlots, Writable
    <2>4. k \in ChangedIn(a, SlotOf[k])
      BY <1>7 DEF ChangedIn
    <2>5. QED
      BY <2>3, <2>4
  <1>8. True(a, v)
    BY MentionHolds
  <1>9. v.slot = SlotOf[i]
    BY <1>3 DEF VersionAt
  <1> DEFINE u == UpTo(SlotOf[i])
  <1>10. v.data = Held(a, u).data
    BY <1>8, <1>9 DEF True
  <1>11. /\ u \in 0..Last
         /\ \A k \in Tx : k <= u <=> SlotOf[k] <= SlotOf[i]
    <2>1. UpToIs(SlotOf[i])
      BY <1>6, TxIs, Places
    <2>2. QED
      BY <2>1 DEF UpToIs
  <1>12. i <= u /\ i <= b
    <2> HIDE DEF u, i, b
    <2>1. i \in Tx /\ SlotOf[i] < world.asked /\ SlotOf[i] <= SlotOf[i]
      BY <1>6, TxIs
    <2>2. i <= u
      BY <1>11, <2>1
    <2>3. i <= b
      BY <1>5, <2>1
    <2>4. QED
      BY <2>2, <2>3
  <1>13. ASSUME NEW k \in Tx, u < k, k <= b PROVE Did(a, k) \notin Changes
    <2>1. SUFFICES ASSUME Did(a, k) \in Changes PROVE FALSE
      OBVIOUS
    <2>2. k <= i
      BY <1>4, <1>7, <1>13, <2>1
    <2> HIDE DEF u, i
    <2>3. QED
      BY <1>1, <1>6, <1>11, <1>12, <1>13, <2>2
  <1>14. u <= b
    <2>1. CASE u = 0
      BY <1>5, <2>1
    <2>2. CASE u # 0
      <3> HIDE DEF u, i
      <3>1. u \in Tx /\ u <= u
        BY <1>1, <1>11, <2>2
      <3>2. SlotOf[u] <= SlotOf[i] /\ SlotOf[u] \in Nat /\ SlotOf[i] \in Nat
        BY <1>6, <1>11, <3>1, TxIs
      <3>3. SlotOf[u] < world.asked
        BY <1>1, <1>6, <3>2
      <3>4. QED
        BY <1>5, <3>1, <3>3
    <2>3. QED
      BY <2>1, <2>2
  <1> HIDE DEF u, b, i
  <1>15. Held(a, u).data = Held(a, b).data
    BY <1>5, <1>11, <1>13, <1>14, BytesStay
  <1>16. QED
    BY <1>6, <1>10, <1>12, <1>15 DEF b

LEMMA MentionRight ==
    ASSUME ChainMade, NEW a \in Account, world.asked <= Landed,
           NEW v \in FromMentions(a), v # Nothing, v.slot = AtMention(a, {}).slot
    PROVE  StreamRight(a, v.data)
  <1>1. v.data = Held(a, Before(world.asked)).data
    BY MentionBefore
  <1>2. Opens(Before(world.asked)) /\ Before(world.asked) \in 0..Last
    BY AskedIs DEF Opens
  <1>3. QED
    BY <1>1, <1>2 DEF StreamRight

\* The asked moments are on the chain.
LEMMA MomentsIs ==
    ASSUME ChainMade
    PROVE  /\ Moments \subseteq 0..Last
           /\ OwnSlot => Moments = {world.target - 1}
           /\ ~OwnSlot => Before(world.asked) \in Moments /\ UpTo(world.asked) \in Moments
  <1>1. QED
    BY AskedIs DEF Moments

MetaHeld(a) == \E i \in Moments : Held(a, i) = Meta(a)

\* The record's balance is the asked one when the lookup shows that nothing
\* came between, whatever the lookup costs.
LEMMA RewindHolds ==
    ASSUME ChainMade, NEW a \in Account, ~OwnSlot,
           NEW l \in RewindLabels(a), l.label = "MetadataRewind", l.why = {}
    PROVE  MetaHeld(a)
  <1>1. /\ Tx = 1..Last /\ Last \in Nat /\ world.target \in Tx /\ world.asked \in Nat
        /\ Landed \in Nat /\ Landed = SlotOf[world.target] /\ world.asked # Landed
        /\ world.target \in 0..Last
    BY TxIs, AskedIs DEF Landed, OwnSlot
  <1> DEFINE b == Before(world.asked)
             u == UpTo(world.asked)
             t == world.target
  <1>2. /\ b \in 0..Last /\ \A i \in Tx : i <= b <=> SlotOf[i] < world.asked
    <2>1. BeforeIs(world.asked)
      BY <1>1, Places
    <2>2. QED
      BY <2>1 DEF BeforeIs
  <1>3. /\ u \in 0..Last /\ \A i \in Tx : i <= u <=> SlotOf[i] <= world.asked
    <2>1. UpToIs(world.asked)
      BY <1>1, Places
    <2>2. QED
      BY <2>1 DEF UpToIs
  <1>4. b \in Moments /\ u \in Moments
    BY MomentsIs
  <1>5. CASE world.asked < Landed
    <2> DEFINE earlier == {i \in Mentions(a) : i < world.target}
    <2>1. PICK m \in NewestSlot(earlier) :
            l = [label |-> IF m = Nothing \/ m < world.asked
                           THEN "MetadataRewind" ELSE "MetadataEstimate",
                 why |-> IF m = Nothing /\ earlier # {} THEN {"lookup failed"} ELSE {}]
      BY <1>5 DEF RewindLabels
    <2>2. m = Nothing \/ m < world.asked
      BY <2>1
    <2>3. ~(m = Nothing /\ earlier # {})
      BY <2>1
    <2>4. earlier = {} \/ SlotOf[LastIn(earlier)] < world.asked
      BY <2>1, <2>2, <2>3 DEF NewestSlot
    <2>5. ASSUME NEW k \in earlier PROVE SlotOf[k] < world.asked
      <3>1. earlier \in SUBSET Tx
        BY DEF Mentions
      <3> HIDE DEF earlier
      <3>2. LastIn(earlier) \in earlier /\ k <= LastIn(earlier)
        BY <2>5, <3>1, LastInIs
      <3> DEFINE e == LastIn(earlier)
      <3>3. SlotOf[e] < world.asked /\ e \in Tx /\ k \in Tx /\ k <= e
        BY <2>4, <2>5, <3>1, <3>2
      <3> HIDE DEF e
      <3>4. SlotOf[k] <= SlotOf[e] /\ SlotOf[k] \in Nat /\ SlotOf[e] \in Nat
        BY <3>3, TxIs
      <3>5. QED
        BY <1>1, <3>3, <3>4
    <2>6. \A k \in Tx : b < k /\ k <= t - 1 => Did(a, k) = "none"
      <3>1. SUFFICES ASSUME NEW k \in Tx, b < k, k <= t - 1, Did(a, k) # "none" PROVE FALSE
        OBVIOUS
      <3>2. k \in earlier
        BY <1>1, <3>1 DEF Mentions
      <3>3. SlotOf[k] < world.asked
        BY <2>5, <3>2
      <3> HIDE DEF b
      <3>4. QED
        BY <1>1, <1>2, <3>1, <3>3
    <2>7. b <= t - 1 /\ t - 1 \in 0..Last
      <3>1. ~(t <= b)
        BY <1>1, <1>2, <1>5
      <3> HIDE DEF b
      <3>2. QED
        BY <1>1, <1>2, <3>1
    <2>8. \A k \in Tx : b < k /\ k <= t - 1 => Did(a, k) \notin Writable
      BY <2>6 DEF Writable, Changes
    <2>9. Held(a, b) = Held(a, t - 1)
      <3> HIDE DEF b
      <3>1. QED
        BY <1>2, <2>7, <2>8, Kept
    <2>10. Meta(a) = Held(a, t - 1)
      <3>1. world.asked <= Landed
        BY <1>1, <1>5
      <3>2. QED
        BY <3>1 DEF Meta, Pre
    <2>11. QED
      BY <1>4, <2>9, <2>10 DEF MetaHeld
  <1>6. CASE ~(world.asked < Landed)
    <2>1. PICK m \in NewestSlot(Mentions(a)) :
            l = [label |-> IF m # Nothing /\ m <= Landed
                           THEN "MetadataRewind" ELSE "MetadataEstimate",
                 why |-> IF \E i \in Mentions(a) : i > world.target /\ SlotOf[i] = Landed
                         THEN {"later in the block"} ELSE {}]
      BY <1>6 DEF RewindLabels
    <2>2. m # Nothing /\ m <= Landed
      BY <2>1
    <2>3. ~\E i \in Mentions(a) : i > t /\ SlotOf[i] = Landed
      BY <2>1
    <2>4. Mentions(a) # {} /\ m = SlotOf[LastIn(Mentions(a))]
      BY <2>1, <2>2 DEF NewestSlot
    <2>5. \A k \in Tx : t < k => Did(a, k) = "none"
      <3>1. SUFFICES ASSUME NEW k \in Tx, t < k, Did(a, k) # "none" PROVE FALSE
        OBVIOUS
      <3> DEFINE M == Mentions(a)
                 e == LastIn(M)
      <3>2. M \in SUBSET Tx /\ k \in M
        BY <3>1 DEF Mentions
      <3>3. e \in Tx /\ k <= e
        <4> HIDE DEF M
        <4>1. QED
          BY <3>2, LastInIs
      <3>4. SlotOf[e] <= Landed
        BY <2>2, <2>4
      <3> HIDE DEF e
      <3>5. SlotOf[k] <= SlotOf[e] /\ Landed <= SlotOf[k] /\ SlotOf[k] \in Nat /\ SlotOf[e] \in Nat
        BY <1>1, <3>1, <3>3, TxIs
      <3>6. SlotOf[k] = Landed
        BY <1>1, <3>4, <3>5
      <3>7. QED
        BY <1>1, <2>3, <3>1, <3>2, <3>6
    <2>6. t <= u
      BY <1>1, <1>3, <1>6
    <2>7. \A k \in Tx : t < k /\ k <= u => Did(a, k) \notin Writable
      BY <2>5 DEF Writable, Changes
    <2>8. Held(a, t) = Held(a, u)
      <3> HIDE DEF u
      <3>1. QED
        BY <1>1, <1>3, <2>6, <2>7, Kept
    <2>9. Meta(a) = Held(a, t)
      BY <1>1, <1>6 DEF Meta, Post
    <2>10. QED
      BY <1>4, <2>8, <2>9 DEF MetaHeld
  <1>7. QED
    BY <1>5, <1>6

\* A wallet's balance after its newest mention is the one at the slot's end.
LEMMA WalletHolds ==
    ASSUME ChainMade, NEW a \in Account, NEW bal \in WalletBalances(a), bal # Nothing
    PROVE  bal = Held(a, UpTo(world.asked)).bal
  <1> DEFINE upto == {i \in Mentions(a) : /\ SlotOf[i] <= world.asked
                                          /\ world.asked < Landed => i < world.target}
             i == LastIn(upto)
             u == UpTo(world.asked)
  <1>1. Tx = 1..Last /\ Last \in Nat /\ world.asked \in Nat /\ world.target \in Tx
        /\ Landed = SlotOf[world.target] /\ Landed \in Nat
    BY TxIs, AskedIs DEF Landed
  <1>2. upto # {} /\ bal = Held(a, i).bal
    BY DEF WalletBalances
  <1>3. i \in upto /\ \A k \in upto : k <= i
    <2>1. upto \in SUBSET Tx
      BY DEF Mentions
    <2> HIDE DEF upto
    <2>2. QED
      BY <1>2, <2>1, LastInIs
  <1>4. /\ u \in 0..Last /\ \A k \in Tx : k <= u <=> SlotOf[k] <= world.asked
    <2>1. UpToIs(world.asked)
      BY <1>1, Places
    <2>2. QED
      BY <2>1 DEF UpToIs
  <1>5. i \in Tx /\ i <= u
    BY <1>3, <1>4 DEF Mentions
  <1>6. ASSUME NEW k \in Tx, i < k, k <= u PROVE Did(a, k) \notin Writable
    <2>1. SUFFICES ASSUME Did(a, k) # "none" PROVE FALSE
      BY DEF Writable, Changes
    <2>2. SlotOf[k] <= world.asked
      BY <1>4, <1>6
    <2>3. world.asked < Landed => k < world.target
      <3>1. SUFFICES ASSUME world.asked < Landed, ~(k < world.target) PROVE FALSE
        OBVIOUS
      <3>2. SlotOf[world.target] <= SlotOf[k] /\ SlotOf[k] \in Nat
        BY <1>1, <3>1, TxIs
      <3>3. QED
        BY <1>1, <2>2, <3>1, <3>2
    <2>4. k <= i
      BY <1>3, <2>1, <2>2, <2>3 DEF Mentions
    <2> HIDE DEF i
    <2>5. QED
      BY <1>1, <1>5, <1>6, <2>4
  <1> HIDE DEF i, u
  <1>7. i \in 0..Last
    BY <1>1, <1>5
  <1>8. Held(a, i) = Held(a, u)
    BY <1>4, <1>5, <1>6, <1>7, Kept
  <1>9. QED
    BY <1>2, <1>8 DEF u

\* The newest trade before the slot left the curve what it held then.
LEMMA TradeHolds ==
    ASSUME ChainMade, NEW a \in Account, NEW trade \in LastTrade(a), trade # Nothing
    PROVE  trade = Held(a, Before(world.asked)).data
  <1> DEFINE P == {i \in Mentions(a) : SlotOf[i] < world.asked}
             m == LastIn(P)
             b == Before(world.asked)
  <1>1. Tx = 1..Last /\ Last \in Nat /\ world.asked \in Nat
    BY TxIs, AskedIs
  <1>2. m # 0 /\ Did(a, m) = "write" /\ trade = m
    BY DEF LastTrade
  <1>3. m \in P /\ \A k \in P : k <= m
    <2>1. P \in SUBSET Tx
      BY DEF Mentions
    <2> HIDE DEF P
    <2>2. QED
      BY <1>2, <2>1, LastInIs
  <1>4. b \in 0..Last /\ \A k \in Tx : k <= b <=> SlotOf[k] < world.asked
    <2>1. BeforeIs(world.asked)
      BY <1>1, Places
    <2>2. QED
      BY <2>1 DEF BeforeIs
  <1>5. m \in Tx /\ m <= b
    BY <1>3, <1>4 DEF Mentions
  <1>6. ASSUME NEW k \in Tx, m < k, k <= b PROVE Did(a, k) \notin Writable
    <2>1. SUFFICES ASSUME Did(a, k) # "none" PROVE FALSE
      BY DEF Writable, Changes
    <2>2. k <= m
      BY <1>3, <1>4, <1>6, <2>1 DEF Mentions
    <2> HIDE DEF m
    <2>3. QED
      BY <1>1, <1>5, <1>6, <2>2
  <1> HIDE DEF m, b
  <1>7. m \in 0..Last
    BY <1>1, <1>5
  <1>8. Held(a, m) = Held(a, b)
    BY <1>4, <1>5, <1>6, <1>7, Kept
  <1>9. Held(a, m).data = m
    BY <1>2, <1>5, WriteMakes
  <1>10. QED
    BY <1>2, <1>8, <1>9 DEF b

\* Today's bytes are the asked ones when the newest mention is before the slot,
\* which is then a later one than the transaction's.
LEMMA CurrentHolds ==
    ASSUME ChainMade, NEW a \in Account, NEW newest \in NewestSlot(Mentions(a)),
           newest # Nothing, newest < world.asked
    PROVE  ~OwnSlot /\ Held(a, Before(world.asked)) = Held(a, Last)
  <1> DEFINE M == Mentions(a)
             e == LastIn(M)
             b == Before(world.asked)
  <1>1. Tx = 1..Last /\ Last \in Nat /\ world.asked \in Nat /\ world.target \in Tx
        /\ Landed = SlotOf[world.target] /\ Landed \in Nat
    BY TxIs, AskedIs DEF Landed
  <1>2. world.target \in M /\ newest = SlotOf[e] /\ M \in SUBSET Tx
    BY <1>1, Admitted DEF NewestSlot, Mentions
  <1>3. e \in M /\ \A k \in M : k <= e
    <2> HIDE DEF M
    <2>1. QED
      BY <1>2, LastInIs
  <1>4. b \in 0..Last /\ \A k \in Tx : k <= b <=> SlotOf[k] < world.asked
    <2>1. BeforeIs(world.asked)
      BY <1>1, Places
    <2>2. QED
      BY <2>1 DEF BeforeIs
  <1>5. e \in Tx /\ SlotOf[e] < world.asked /\ SlotOf[e] \in Nat
    BY <1>2, <1>3, TxIs
  <1>6. Landed <= SlotOf[e]
    <2> HIDE DEF e
    <2>1. QED
      BY <1>1, <1>2, <1>3, <1>5, TxIs
  <1>7. ~OwnSlot
    BY <1>1, <1>5, <1>6 DEF OwnSlot
  <1>8. e <= b
    BY <1>4, <1>5
  <1>9. ASSUME NEW k \in Tx, b < k, k <= Last PROVE Did(a, k) \notin Writable
    <2>1. SUFFICES ASSUME Did(a, k) # "none" PROVE FALSE
      BY DEF Writable, Changes
    <2>2. k <= e
      BY <1>3, <2>1 DEF Mentions
    <2> HIDE DEF b, e
    <2>3. QED
      BY <1>1, <1>4, <1>5, <1>8, <1>9, <2>2
  <1> HIDE DEF b
  <1>10. b <= Last /\ Last \in 0..Last
    BY <1>1, <1>4
  <1>11. Held(a, b) = Held(a, Last)
    BY <1>4, <1>9, <1>10, Kept
  <1>12. QED
    BY <1>7, <1>11 DEF b

\* A program last deployed before the slot is the asked one.
LEMMA DeployHolds ==
    ASSUME ChainMade, NEW a \in Account, Kind(a) = "program",
           SlotOf[LastIn({i \in Tx : Did(a, i) = "write"})] < world.asked
    PROVE  \E i \in Moments : Held(a, i) = Held(a, Last)
  <1> DEFINE W == {i \in Tx : Did(a, i) = "write"}
             e == LastIn(W)
  <1>1. Tx = 1..Last /\ Last \in Nat /\ world.asked \in Nat /\ world.target \in Tx
        /\ Landed = SlotOf[world.target] /\ Landed \in Nat
    BY TxIs, AskedIs DEF Landed
  <1>2. W \in SUBSET Tx /\ W # {}
    BY Admitted
  <1>3. e \in W /\ \A k \in W : k <= e
    <2> HIDE DEF W
    <2>1. QED
      BY <1>2, LastInIs
  <1>4. e \in Tx /\ SlotOf[e] < world.asked /\ SlotOf[e] \in Nat
    BY <1>3, TxIs
  <1>5. \A k \in Tx : Did(a, k) \in Writable => k <= e
    <2>1. SUFFICES ASSUME NEW k \in Tx, Did(a, k) \in Writable PROVE k \in W
      BY <1>3
    <2>2. QED
      BY <2>1, Admitted DEF Writable, Changes
  <1> HIDE DEF e
  <1>6. ASSUME NEW m \in 0..Last, e <= m PROVE Held(a, m) = Held(a, Last)
    <2>1. \A k \in Tx : m < k /\ k <= Last => Did(a, k) \notin Writable
      <3>1. SUFFICES ASSUME NEW k \in Tx, m < k, Did(a, k) \in Writable PROVE FALSE
        OBVIOUS
      <3>2. k <= e
        BY <1>5, <3>1
      <3>3. QED
        BY <1>1, <1>4, <1>6, <3>1, <3>2
    <2>2. m <= Last /\ Last \in 0..Last
      BY <1>1
    <2>3. QED
      BY <2>1, <2>2, Kept
  <1>7. CASE OwnSlot
    <2>1. ~(world.target <= e)
      <3>1. SUFFICES ASSUME world.target <= e PROVE FALSE
        OBVIOUS
      <3>2. SlotOf[world.target] <= SlotOf[e]
        BY <1>1, <1>4, <3>1, TxIs
      <3>3. QED
        BY <1>1, <1>4, <1>7, <3>2 DEF OwnSlot
    <2>2. world.target - 1 \in 0..Last /\ e <= world.target - 1
      BY <1>1, <1>4, <2>1
    <2>3. Held(a, world.target - 1) = Held(a, Last)
      BY <1>6, <2>2
    <2>4. QED
      BY <1>7, <2>3, MomentsIs
  <1>8. CASE ~OwnSlot
    <2>1. BeforeIs(world.asked)
      BY <1>1, Places
    <2>2. e <= Before(world.asked) /\ Before(world.asked) \in 0..Last
      BY <1>4, <2>1 DEF BeforeIs
    <2>3. QED
      BY <1>6, <1>8, <2>2, MomentsIs
  <1>9. QED
    BY <1>7, <1>8

\* A recorded version that is held is the account's at the floor.
LEMMA VersionHeld ==
    ASSUME ChainMade, NEW a \in Account, Recorded(a), world.start[a].held
    PROVE  Held(a, UpTo(world.start[a].slot)) = Held(a, UpTo(Floor))
  <1> DEFINE s == world.start[a].slot
             u == UpTo(s)
             f == UpTo(Floor)
  <1>1. Tx = 1..Last /\ Last \in Nat /\ Floor \in Int
    BY TxIs, AskedIs
  <1>2. s \in Nat /\ s <= Floor
        /\ \A i \in Tx : s < SlotOf[i] /\ SlotOf[i] <= Floor => Did(a, i) \notin Writable
    BY RecordedIs
  <1> HIDE DEF s
  <1>3. u \in 0..Last /\ \A k \in Tx : k <= u <=> SlotOf[k] <= s
    <2>1. UpToIs(s)
      BY <1>2, Places
    <2>2. QED
      BY <2>1 DEF UpToIs
  <1>4. f \in 0..Last /\ \A k \in Tx : k <= f <=> SlotOf[k] <= Floor
    <2>1. UpToIs(Floor)
      BY <1>1, Places
    <2>2. QED
      BY <2>1 DEF UpToIs
  <1> HIDE DEF u, f
  <1>5. u <= f
    <2>1. CASE u = 0
      BY <1>4, <2>1
    <2>2. CASE u # 0
      <3>1. u \in Tx /\ u <= u
        BY <1>1, <1>3, <2>2
      <3>2. SlotOf[u] <= s /\ SlotOf[u] \in Nat
        BY <1>3, <3>1, TxIs
      <3>3. SlotOf[u] <= Floor
        BY <1>1, <1>2, <3>2
      <3>4. QED
        BY <1>4, <3>1, <3>3
    <2>3. QED
      BY <2>1, <2>2
  <1>6. ASSUME NEW k \in Tx, u < k, k <= f PROVE Did(a, k) \notin Writable
    <2>1. SlotOf[k] <= Floor
      BY <1>4, <1>6
    <2>2. ~(SlotOf[k] <= s) /\ SlotOf[k] \in Nat
      BY <1>1, <1>3, <1>6, TxIs
    <2>3. QED
      BY <1>2, <2>1, <2>2
  <1>7. Held(a, u) = Held(a, f)
    BY <1>3, <1>4, <1>5, <1>6, Kept
  <1>8. QED
    BY <1>7 DEF u, f, s

\* What replay of every write since the start makes.
Rebuilt ==
    IF ToReplay = {} THEN IF Recorded(This) THEN Held(This, UpTo(Start.slot)) ELSE Gone
    ELSE Held(This, LastIn(ToReplay))

LEMMA ReplayHolds ==
    ASSUME ChainMade, This \in Account
    PROVE  \E i \in Moments : Held(This, i) = Rebuilt
  <1> DEFINE a == This
             e == IF OwnSlot THEN world.target - 1 ELSE Before(world.asked)
             inTime(k) == IF OwnSlot THEN k < world.target ELSE SlotOf[k] < world.asked
  <1>1. Tx = 1..Last /\ Last \in Nat /\ world.asked \in Nat /\ world.target \in Tx
        /\ Landed = SlotOf[world.target] /\ Landed \in Nat
    BY TxIs, AskedIs DEF Landed
  <1>2. e \in 0..Last /\ e \in Moments
    BY AskedIs DEF Moments
  <1>3. \A k \in Tx : k <= e <=> inTime(k)
    <2>1. CASE OwnSlot
      BY <1>1, <2>1
    <2>2. CASE ~OwnSlot
      <3>1. BeforeIs(world.asked)
        BY <1>1, Places
      <3>2. QED
        BY <2>2, <3>1 DEF BeforeIs
    <2>3. QED
      BY <2>1, <2>2
  <1>4. ToReplay = {k \in Tx : Did(a, k) \in Writable /\ inTime(k)
                               /\ (Recorded(a) => SlotOf[k] > Start.slot)}
    BY DEF ToReplay
  <1> HIDE DEF e, inTime
  <1>5. CASE ToReplay = {} /\ ~Recorded(a)
    <2>1. \A k \in Tx : 0 < k /\ k <= e => Did(a, k) \notin Writable
      BY <1>3, <1>4, <1>5
    <2>2. 0 \in 0..Last /\ 0 <= e
      BY <1>1, <1>2
    <2>3. Held(a, 0) = Held(a, e)
      BY <1>2, <2>1, <2>2, Kept
    <2>4. Held(a, 0) = Gone
      <3>1. AccountMade(a, 0)
        BY <2>2, AccountIs
      <3>2. Made(a, 0) = {}
        <4> DEFINE c == ClosedAt(a, 0)
        <4>1. c = 0
          BY <3>1 DEF AccountMade
        <4>2. Made(a, 0) = {j \in c+1..0 : Did(a, j) \in {"write", "pay"}}
          BY DEF Made
        <4> HIDE DEF c
        <4>3. c + 1 .. 0 = {}
          BY <4>1
        <4>4. QED
          BY <4>2, <4>3
      <3>3. QED
        BY <3>1, <3>2 DEF AccountMade
    <2>5. QED
      BY <1>2, <1>5, <2>3, <2>4 DEF Rebuilt
  <1>6. CASE ToReplay = {} /\ Recorded(a)
    <2> DEFINE s == Start.slot
               u == UpTo(s)
    <2>1. s \in Nat /\ s <= Floor
      BY <1>6, RecordedIs DEF Start
    <2> HIDE DEF s
    <2>2. u \in 0..Last /\ \A k \in Tx : k <= u <=> SlotOf[k] <= s
      <3>1. UpToIs(s)
        BY <2>1, Places
      <3>2. QED
        BY <3>1 DEF UpToIs
    <2> HIDE DEF u
    <2>3. CASE u <= e
      <3>1. ASSUME NEW k \in Tx, u < k, k <= e PROVE Did(a, k) \notin Writable
        <4>1. inTime(k)
          BY <1>3, <3>1
        <4>2. ~(SlotOf[k] <= s) /\ SlotOf[k] \in Nat
          BY <1>1, <2>2, <3>1, TxIs
        <4>3. SlotOf[k] > s
          BY <2>1, <4>2
        <4>4. QED
          BY <1>4, <1>6, <4>1, <4>3 DEF s
      <3>2. Held(a, u) = Held(a, e)
        BY <1>2, <2>2, <2>3, <3>1, Kept
      <3>3. QED
        BY <1>2, <1>6, <3>2 DEF Rebuilt, u, s
    <2>4. CASE ~(u <= e)
      <3>1. u \in Tx /\ u <= u
        BY <1>1, <1>2, <2>2, <2>4
      <3>2. SlotOf[u] <= s /\ ~inTime(u) /\ SlotOf[u] \in Nat
        BY <1>3, <2>2, <2>4, <3>1, TxIs
      <3>3. ~OwnSlot
        <4>1. SUFFICES ASSUME OwnSlot PROVE FALSE
          OBVIOUS
        <4>2. world.target <= u /\ world.asked = Landed /\ Floor = world.asked - 1
          BY <1>1, <3>1, <3>2, <4>1 DEF inTime, OwnSlot, Floor
        <4>3. Landed <= SlotOf[u]
          BY <1>1, <3>1, <4>2, TxIs
        <4>4. QED
          BY <1>1, <2>1, <3>2, <4>2, <4>3
      <3>4. s = world.asked
        <4>1. ~(SlotOf[u] < world.asked) /\ Floor = world.asked
          BY <3>2, <3>3 DEF inTime, Floor
        <4>2. QED
          BY <1>1, <2>1, <3>2, <4>1
      <3>5. UpTo(world.asked) \in Moments
        BY <3>3, MomentsIs
      <3>6. Rebuilt = Held(a, UpTo(world.asked))
        BY <1>6, <3>4 DEF Rebuilt, s
      <3>7. QED
        BY <3>5, <3>6
    <2>5. QED
      BY <2>3, <2>4
  <1>7. CASE ToReplay # {}
    <2> DEFINE i == LastIn(ToReplay)
    <2>1. i \in ToReplay /\ \A k \in ToReplay : k <= i
      <3>1. ToReplay \in SUBSET Tx
        BY DEF ToReplay
      <3>2. QED
        BY <1>7, <3>1, LastInIs
    <2> HIDE DEF i
    <2>2. i \in Tx /\ i <= e /\ (Recorded(a) => SlotOf[i] > Start.slot)
      BY <1>3, <1>4, <2>1
    <2>3. ASSUME NEW k \in Tx, i < k, k <= e PROVE Did(a, k) \notin Writable
      <3>1. SUFFICES ASSUME Did(a, k) \in Writable PROVE FALSE
        OBVIOUS
      <3>2. Recorded(a) => SlotOf[k] > Start.slot
        <4>1. SUFFICES ASSUME Recorded(a) PROVE SlotOf[k] > Start.slot
          OBVIOUS
        <4>2. Start.slot \in Nat
          BY <4>1, RecordedIs DEF Start
        <4>3. SlotOf[i] <= SlotOf[k] /\ SlotOf[i] \in Nat /\ SlotOf[k] \in Nat
          BY <1>1, <2>2, <2>3, TxIs
        <4>4. QED
          BY <2>2, <4>1, <4>2, <4>3
      <3>3. k \in ToReplay
        BY <1>3, <1>4, <2>3, <3>1, <3>2
      <3>4. k <= i
        BY <2>1, <3>3
      <3>5. QED
        BY <1>1, <2>2, <2>3, <3>4
    <2>4. i \in 0..Last
      BY <1>1, <2>2
    <2>5. Held(a, i) = Held(a, e)
      BY <1>2, <2>2, <2>3, <2>4, Kept
    <2>6. QED
      BY <1>2, <1>7, <2>5 DEF Rebuilt, i
  <1>8. QED
    BY <1>5, <1>6, <1>7

\* The record's own account, and what is loaded from it and from today.
LEMMA MetaIs ==
    ASSUME ChainMade, NEW a \in Account
    PROVE  /\ Pre(a) \in States /\ Stands(Pre(a)) = Pre(a)
           /\ Pre(a).bal = 0 => Pre(a) = Gone
           /\ Kind(a) # "signer" /\ Pre(a).data = 0 => Pre(a) = Gone
           /\ Meta(a) \in States /\ Stands(Meta(a)) = Meta(a)
           /\ Meta(a).bal = 0 => Meta(a) = Gone
           /\ OwnSlot => Meta(a) = Pre(a)
           /\ Kind(a) = "signer" => Pre(a).data = 0 /\ Meta(a).data = 0
  <1>1. world.target - 1 \in 0..Last /\ world.target \in 0..Last
    BY AskedIs
  <1>2. /\ Pre(a) \in States /\ Stands(Pre(a)) = Pre(a) /\ (Pre(a).bal = 0 => Pre(a) = Gone)
        /\ Post(a) \in States /\ Stands(Post(a)) = Post(a) /\ (Post(a).bal = 0 => Post(a) = Gone)
    BY <1>1, StandsHeld DEF Pre, Post
  <1>3. Kind(a) # "signer" /\ Pre(a).data = 0 => Pre(a) = Gone
    BY <1>1, NoBytesGone DEF Pre
  <1>4. Kind(a) = "signer" => Pre(a).data = 0 /\ Post(a).data = 0
    BY <1>1, SignerEmpty DEF Pre, Post
  <1>5. OwnSlot => Meta(a) = Pre(a)
    BY AskedIs DEF Meta
  <1>6. Meta(a) = Pre(a) \/ Meta(a) = Post(a)
    BY DEF Meta
  <1>7. QED
    BY <1>2, <1>3, <1>4, <1>5, <1>6

LoadedWell(a) ==
    /\ Loaded(a) \in States \cup {NotLoaded}
    /\ Kind(a) = "program" => Loaded(a) = Held(a, Last)
    /\ Kind(a) # "program" =>
         /\ Loaded(a) = NotLoaded => Meta(a) = Gone
         /\ Loaded(a) # NotLoaded =>
              /\ Loaded(a).bal = Meta(a).bal
              /\ TokenListed(a) => Loaded(a).data = Meta(a).data
              /\ ~TokenListed(a) /\ Loaded(a).data # 0 => Loaded(a).data = Held(a, Last).data
              /\ Kind(a) = "signer" => Loaded(a).data = 0

LEMMA LoadedIs == ASSUME ChainMade, NEW a \in Account PROVE LoadedWell(a)
  <1> DEFINE now == Held(a, Last)
  <1>1. Last \in 0..Last
    BY TxIs
  <1>2. now \in States /\ (Kind(a) = "signer" => now.data = 0)
    BY <1>1, StandsHeld, SignerEmpty
  <1>3. Meta(a) \in States /\ (Meta(a).bal = 0 => Meta(a) = Gone)
    BY MetaIs
  <1>4. TokenListed(a) => Kind(a) = "token"
    BY DEF TokenListed
  <1> DEFINE listed == [data |-> IF TokenListed(a) THEN Meta(a).data ELSE now.data,
                        bal |-> Meta(a).bal]
             wallet == [data |-> 0, bal |-> Meta(a).bal]
  <1>5. listed \in States /\ wallet \in States
    BY <1>2, <1>3 DEF States
  <1>6. Meta(a).bal \in Nat
    BY <1>3 DEF States
  <1>7. CASE Kind(a) = "program"
    BY <1>2, <1>7 DEF LoadedWell, Loaded
  <1>8. CASE Kind(a) # "program" /\ (now # Gone \/ TokenListed(a))
    <2>1. Loaded(a) = listed
      BY <1>8 DEF Loaded
    <2>2. listed # NotLoaded
      BY <1>5, ReconstructAssumption
    <2>3. QED
      BY <1>2, <1>4, <1>5, <1>8, <2>1, <2>2 DEF LoadedWell
  <1>9. CASE Kind(a) # "program" /\ ~(now # Gone \/ TokenListed(a)) /\ Meta(a).bal > 0
    <2>1. Loaded(a) = wallet
      BY <1>9 DEF Loaded
    <2>2. wallet # NotLoaded
      BY <1>5, ReconstructAssumption
    <2>3. QED
      BY <1>4, <1>5, <1>9, <2>1, <2>2 DEF LoadedWell
  <1>10. CASE Kind(a) # "program" /\ ~(now # Gone \/ TokenListed(a)) /\ ~(Meta(a).bal > 0)
    <2>1. Loaded(a) = NotLoaded
      BY <1>10 DEF Loaded
    <2>2. Meta(a).bal = 0
      BY <1>6, <1>10
    <2>3. QED
      BY <1>3, <1>10, <2>1, <2>2 DEF LoadedWell
  <1>11. QED
    BY <1>7, <1>8, <1>9, <1>10

-----------------------------------------------------------------------------
\* The certificate is right when each account is, once the loop has settled it:
\* drifted, exact, known to be weaker, or still to be looked at in the block.
Drifting == {"CurrentRpc", "MetadataEstimate", "SameBlock", "BlockPrefixInexact",
             "ReconstructedInexact", "ProgramUpgraded", "Absent"}
SourceOf(a, src, st) ==
    IF src # "none" THEN src
    ELSE IF IsProgram(a) THEN "ProgramUnchecked"
    ELSE IF st = NotLoaded THEN "Absent"
    ELSE IF OwnSlot /\ st.data = 0 THEN "MetadataRewind"
    ELSE "CurrentRpc"
Suits(a, st, src, g) ==
    \/ SourceOf(a, src, st) \in Drifting \cup {"ProgramUnchecked"}
    \/ g # {}
    \/ /\ OwnSlot /\ a \in Preceded /\ src \in {"Recorded", "Unchanged"}
       /\ ~(Kind(a) = "token" /\ st # NotLoaded /\ st.data # 0)
    \/ IF SourceOf(a, src, st) = "EventLog" THEN \E i \in Moments : st.data = Held(a, i).data
       ELSE \E i \in Moments : Stands(st) = Held(a, i)
Good(a) == a \in unproven \/ Suits(a, ctx[a], label[a], gaps[a])
AtBlock(a) == OwnSlot /\ a \in Affected(Preceded)

\* At the own slot a wallet has no label, and a token account with a recorded
\* one has bytes.
Shaped(a) ==
    OwnSlot => /\ IsSigner(a) => label[a] = "none"
               /\ Kind(a) = "token" /\ label[a] \in {"Recorded", "Unchanged"} => IsToken(a)
\* Before the loop comes to it.
Fresh(a) == label[a] = "none" /\ ctx[a] = Loaded(a) /\ a \notin unproven
Answered(a) == gaps[a] = {} /\ streamed[a] # Nothing => StreamRight(a, streamed[a].data)

\* The prefix: what has run holds each account as it left it, unless it is
\* known to be amiss or inexact.
Done(r, a) == {i \in Chosen \ r.todo : Did(a, i) # "none"}
Spoiled(r, a) == a \in r.amiss \/ (a \in r.inexact /\ a \in Affected(Preceded))
PrefixedWell(r, a) ==
    /\ IsProgram(a) /\ a \in Affected(Preceded) => r.svm[a] # Gone
    /\ ~IsProgram(a) /\ ~Spoiled(r, a) =>
         /\ Done(r, a) # {} => r.svm[a] = Held(a, LastIn(Done(r, a)))
         /\ Done(r, a) = {} /\ ctx[a] # NotLoaded => r.svm[a] = ctx[a]
Prefixed(r) ==
    /\ r \in Runs
    /\ r.todo \subseteq Chosen
    /\ \A i \in Chosen \ r.todo, j \in r.todo : i < j
    /\ ~r.exact => \A i \in Chosen : DataWrites(i) \subseteq r.inexact
    /\ \A a \in Account : PrefixedWell(r, a)

\* SlotExact speaks of the end of a request only.  What it needs on the way:
\* each account the loop has settled is good, those before it are as loaded
\* and their answers right; the block's prefix keeps what it has replayed;
\* and once done nothing is left to the block.
SlotInv ==
    /\ ctx \in [Account -> States \cup {NotLoaded}]
    /\ label \in [Account -> Labels]
    /\ DOMAIN gaps = Account
    /\ unproven \subseteq Account
    /\ phase \in {"stream", "keys", "block", "prefix", "done"}
    /\ \A i \in DOMAIN Keys : i >= next => label[Keys[i]] = "none"
    /\ phase = "stream" => \A a \in Account : Fresh(a)
    /\ phase = "keys" =>
         \A i \in DOMAIN Keys :
            IF i >= next THEN Fresh(Keys[i]) /\ Answered(Keys[i])
            ELSE Good(Keys[i]) /\ Shaped(Keys[i])
    /\ phase \in {"block", "prefix", "done"} => \A a \in Account : Good(a)
    /\ phase \in {"block", "prefix"} =>
         OwnSlot /\ next = Len(Keys) + 1 /\ \A a \in Account : Shaped(a)
    /\ phase = "done" => \A a \in Account : AtBlock(a) => gaps[a] # {}
    /\ IF phase = "prefix" THEN Prefixed(run) ELSE run = Nothing

\* The invariant says what the certificate needs.
LEMMA GoodIsExact ==
    ASSUME NEW a \in Account, Good(a), ~AtBlock(a), Vouched(a), gaps[a] = {}
    PROVE  Exact(a)
  <1>1. SourceOf(a, label[a], ctx[a]) = Source(a)
    BY DEF SourceOf, Source, Empty
  <1>2. a \notin unproven /\ Source(a) \notin Drifting \cup {"ProgramUnchecked"}
    BY DEF Vouched, Drifted, Drifting
  <1>3. ~(/\ OwnSlot /\ a \in Preceded /\ label[a] \in {"Recorded", "Unchanged"}
          /\ ~(Kind(a) = "token" /\ ctx[a] # NotLoaded /\ ctx[a].data # 0))
    BY DEF AtBlock, Affected, IsToken, Empty
  <1>4. QED
    BY <1>1, <1>2, <1>3 DEF Good, Suits, Exact, Right

\* What a step leaves of one account.
LEMMA GoodStep ==
    ASSUME UNCHANGED <<world, chain>>, NEW a \in Account, NEW st, NEW src, NEW g,
           ctx'[a] = st, label'[a] = src, gaps'[a] = g,
           a \in unproven' \/ Suits(a, st, src, g)
    PROVE  Good(a)'
  <1>1. SourceOf(a, label[a], ctx[a])' = SourceOf(a, src, st)
    BY DEF SourceOf, IsProgram, Kind, OwnSlot, Landed
  <1>2. OwnSlot' = OwnSlot /\ Preceded' = Preceded /\ Kind(a)' = Kind(a) /\ Moments' = Moments
    BY DEF OwnSlot, Landed, Preceded, Earlier, MayWrite, Did, Kind, Moments, Before, UpTo
  <1>3. \A i : Held(a, i)' = Held(a, i)
    BY DEF Held
  <1>4. Stands(ctx[a])' = Stands(st)
    BY DEF Stands
  <1>5. QED
    BY <1>1, <1>2, <1>3, <1>4 DEF Good, Suits

LEMMA GoodStays ==
    ASSUME UNCHANGED <<world, chain>>, NEW a \in Account,
           ctx'[a] = ctx[a], label'[a] = label[a], gaps'[a] = gaps[a],
           a \in unproven => a \in unproven', Good(a)
    PROVE  Good(a)'
  <1>1. PICK st, src, g : st = ctx[a] /\ src = label[a] /\ g = gaps[a]
    OBVIOUS
  <1>2. a \in unproven' \/ Suits(a, st, src, g)
    BY <1>1 DEF Good
  <1>3. QED
    BY <1>1, <1>2, GoodStep

LEMMA ShapedStep ==
    ASSUME UNCHANGED <<world, chain>>, NEW a \in Account,
           OwnSlot => /\ IsSigner(a) => label'[a] = "none"
                      /\ Kind(a) = "token" /\ label'[a] \in {"Recorded", "Unchanged"} =>
                            ctx'[a] # NotLoaded /\ ctx'[a].data # 0
    PROVE  Shaped(a)'
  BY DEF Shaped, OwnSlot, Landed, IsSigner, IsToken, Empty, Kind

LEMMA ShapedStays ==
    ASSUME UNCHANGED <<world, chain>>, NEW a \in Account,
           ctx'[a] = ctx[a], label'[a] = label[a], Shaped(a)
    PROVE  Shaped(a)'
  BY ShapedStep DEF Shaped, IsToken, Empty

LEMMA FreshStays ==
    ASSUME UNCHANGED <<world, chain>>, NEW a \in Account,
           ctx'[a] = ctx[a], label'[a] = label[a], a \in unproven' => a \in unproven, Fresh(a)
    PROVE  Fresh(a)'
  <1>1. Meta(a)' = Meta(a) /\ Kind(a)' = Kind(a) /\ Held(a, Last)' = Held(a, Last)
    BY DEF Meta, Pre, Post, Held, Landed, Kind
  <1>2. Loaded(a)' = Loaded(a)
    BY <1>1 DEF Loaded, TokenListed
  <1>3. QED
    BY <1>2 DEF Fresh

LEMMA StreamRightStays ==
    ASSUME UNCHANGED <<world, chain>>, NEW a \in Account, NEW data, StreamRight(a, data)
    PROVE  \E i \in 0..Last : Opens(i)' /\ data = Held(a, i)'.data
  <1>1. PICK i \in 0..Last : Opens(i) /\ data = Held(a, i).data
    BY DEF StreamRight
  <1>2. Opens(i)'
    BY <1>1 DEF Opens, OwnSlot, Landed, Before, UpTo
  <1>3. Held(a, i)' = Held(a, i)
    BY DEF Held
  <1>4. QED
    BY <1>1, <1>2, <1>3

LEMMA AnsweredStays ==
    ASSUME UNCHANGED <<world, chain>>, NEW a \in Account,
           gaps'[a] = {} /\ streamed'[a] # Nothing => StreamRight(a, streamed'[a].data)
    PROVE  Answered(a)'
  <1>1. PICK data : data = streamed'[a].data
    OBVIOUS
  <1>2. CASE gaps'[a] = {} /\ streamed'[a] # Nothing
    <2>1. \E i \in 0..Last : Opens(i)' /\ data = Held(a, i)'.data
      BY <1>1, <1>2, StreamRightStays
    <2>2. QED
      BY <1>1, <2>1 DEF Answered, StreamRight
  <1>3. QED
    BY <1>2 DEF Answered

\* The account the loop is at.
LEMMA AtKey ==
    ASSUME SlotInv, WrittenInv, phase = "keys"
    PROVE  /\ ChainMade /\ This \in Account /\ next \in DOMAIN Keys
           /\ ctx[This] = Loaded(This) /\ LoadedWell(This) /\ label[This] = "none"
           /\ Answered(This)
           /\ ctx[This] \in States \cup {NotLoaded}
  <1>1. ChainMade /\ This \in Account
    BY AtAccount DEF WrittenInv
  <1>2. next \in DOMAIN Keys /\ next >= next
    BY ReconstructAssumption DEF WrittenInv
  <1>3. Fresh(This) /\ Answered(This)
    BY <1>2 DEF SlotInv, This
  <1>4. LoadedWell(This)
    BY <1>1, LoadedIs
  <1>5. QED
    BY <1>1, <1>2, <1>3, <1>4 DEF Fresh, LoadedWell

\* Settling an account.
LEMMA SettleFits ==
    ASSUME SlotInv, WrittenInv, phase = "keys",
           NEW st \in States \cup {NotLoaded}, NEW src \in Labels, NEW why,
           Settle(st, src, why), unproven' \in {unproven, unproven \cup {This}},
           This \in unproven' \/ Suits(This, st, src, gaps[This] \cup why),
           OwnSlot => /\ IsSigner(This) => src = "none"
                      /\ Kind(This) = "token" /\ src \in {"Recorded", "Unchanged"} =>
                            st # NotLoaded /\ st.data # 0
    PROVE  SlotInv'
  <1>1. /\ This \in Account /\ next \in DOMAIN Keys /\ next \in Nat /\ DOMAIN Keys = 1..Len(Keys)
        /\ Len(Keys) \in Nat
    BY AtKey, ReconstructAssumption
  <1>2. /\ ctx' = [ctx EXCEPT ![This] = st] /\ label' = [label EXCEPT ![This] = src]
        /\ gaps' = [gaps EXCEPT ![This] = @ \cup why] /\ next' = next + 1
        /\ phase' = (IF next < Len(Keys) THEN "keys" ELSE IF OwnSlot THEN "block" ELSE "done")
        /\ UNCHANGED <<world, chain, streamed, run>>
    BY DEF Settle
  <1>3. /\ ctx' \in [Account -> States \cup {NotLoaded}] /\ label' \in [Account -> Labels]
        /\ DOMAIN gaps' = Account /\ unproven' \subseteq Account
    BY <1>1, <1>2 DEF SlotInv
  <1>4. ctx'[This] = st /\ label'[This] = src /\ gaps'[This] = gaps[This] \cup why
    BY <1>1, <1>2 DEF SlotInv
  <1>5. ASSUME NEW a \in Account, a # This
        PROVE  /\ ctx'[a] = ctx[a] /\ label'[a] = label[a] /\ gaps'[a] = gaps[a]
               /\ a \in unproven' <=> a \in unproven
    BY <1>1, <1>2, <1>5 DEF SlotInv
  <1>6. PICK x \in Account, n \in DOMAIN Keys : x = This /\ n = next
    BY <1>1
  <1>7. Good(x)'
    <2>1. PICK g : g = gaps[x] \cup why
      OBVIOUS
    <2>2. ctx'[x] = st /\ label'[x] = src /\ gaps'[x] = g
      BY <1>4, <1>6, <2>1
    <2>3. x \in unproven' \/ Suits(x, st, src, g)
      BY <1>6, <2>1
    <2>4. QED
      BY <1>2, <2>2, <2>3, GoodStep
  <1>8. Shaped(x)'
    <2>1. OwnSlot => /\ IsSigner(x) => label'[x] = "none"
                     /\ Kind(x) = "token" /\ label'[x] \in {"Recorded", "Unchanged"} =>
                           ctx'[x] # NotLoaded /\ ctx'[x].data # 0
      BY <1>4, <1>6
    <2>2. QED
      BY <1>2, <2>1, ShapedStep
  <1>9. x = Keys[n] /\ \A i \in DOMAIN Keys : Keys[i] \in Account /\ (i # n => Keys[i] # x)
    BY <1>6, ReconstructAssumption DEF This, Account
  <1>10. \A i \in DOMAIN Keys : IF i >= n THEN Fresh(Keys[i]) /\ Answered(Keys[i])
                                ELSE Good(Keys[i]) /\ Shaped(Keys[i])
    BY <1>6 DEF SlotInv
  <1>11. ASSUME NEW i \in DOMAIN Keys, i >= n + 1
         PROVE  /\ Fresh(Keys[i])' /\ Answered(Keys[i])' /\ label'[Keys[i]] = "none"
    <2>1. i >= n /\ i # n
      BY <1>1, <1>6, <1>11
    <2>2. PICK a \in Account : a = Keys[i]
      BY <1>9
    <2>3. a # This
      BY <1>6, <1>9, <2>1, <2>2
    <2>4. Fresh(a) /\ Answered(a)
      BY <1>10, <2>1, <2>2
    <2>5. /\ ctx'[a] = ctx[a] /\ label'[a] = label[a] /\ gaps'[a] = gaps[a]
          /\ a \in unproven' <=> a \in unproven
      BY <1>5, <2>3
    <2>6. Fresh(a)'
      BY <1>2, <2>4, <2>5, FreshStays
    <2>7. gaps'[a] = {} /\ streamed'[a] # Nothing => StreamRight(a, streamed'[a].data)
      BY <1>2, <2>4, <2>5 DEF Answered
    <2>8. Answered(a)'
      BY <1>2, <2>7, AnsweredStays
    <2>9. label'[a] = "none"
      BY <2>4, <2>5 DEF Fresh
    <2>10. QED
      BY <2>2, <2>6, <2>8, <2>9
  <1>12. ASSUME NEW i \in DOMAIN Keys, ~(i >= n + 1)
         PROVE  Good(Keys[i])' /\ Shaped(Keys[i])'
    <2>1. CASE i = n
      BY <1>7, <1>8, <1>9, <2>1
    <2>2. CASE i # n
      <3>1. ~(i >= n)
        BY <1>1, <1>6, <1>12, <2>2
      <3>2. PICK a \in Account : a = Keys[i]
        BY <1>9
      <3>3. a # This
        BY <1>6, <1>9, <2>2, <3>2
      <3>4. Good(a) /\ Shaped(a)
        BY <1>10, <3>1, <3>2
      <3>5. /\ ctx'[a] = ctx[a] /\ label'[a] = label[a] /\ gaps'[a] = gaps[a]
            /\ a \in unproven' <=> a \in unproven
        BY <1>5, <3>3
      <3>6. Good(a)'
        BY <1>2, <3>4, <3>5, GoodStays
      <3>7. Shaped(a)'
        BY <1>2, <3>4, <3>5, ShapedStays
      <3>8. QED
        BY <3>2, <3>6, <3>7
    <2>3. QED
      BY <2>1, <2>2
  <1>13. \A i \in DOMAIN Keys : i >= next' => label'[Keys[i]] = "none"
    BY <1>2, <1>6, <1>11
  <1>14. run' = Nothing
    BY <1>2 DEF SlotInv
  <1>15. CASE next < Len(Keys)
    <2>1. phase' = "keys"
      BY <1>2, <1>15
    <2>2. \A i \in DOMAIN Keys : IF i >= next' THEN Fresh(Keys[i])' /\ Answered(Keys[i])'
                                ELSE Good(Keys[i])' /\ Shaped(Keys[i])'
      BY <1>2, <1>6, <1>11, <1>12
    <2>3. QED
      BY <1>3, <1>13, <1>14, <2>1, <2>2 DEF SlotInv
  <1>16. CASE ~(next < Len(Keys))
    <2>1. phase' \in {"block", "done"} /\ (phase' = "block" => OwnSlot) /\ (phase' = "done" => ~OwnSlot)
      BY <1>2, <1>16
    <2>2. next' = Len(Keys) + 1
      BY <1>1, <1>2, <1>16
    <2>3. OwnSlot' = OwnSlot
      BY <1>2 DEF OwnSlot, Landed
    <2>4. ASSUME NEW a \in Account PROVE Good(a)' /\ Shaped(a)'
      <3>1. PICK i \in DOMAIN Keys : a = Keys[i]
        BY DEF Account
      <3>2. ~(i >= n + 1)
        BY <1>1, <1>6, <1>16
      <3>3. QED
        BY <1>12, <3>1, <3>2
    <2>5. phase' = "done" => \A a \in Account : AtBlock(a)' => gaps'[a] # {}
      BY <2>1, <2>3 DEF AtBlock
    <2>6. phase' # "keys" /\ phase' # "stream" /\ phase' # "prefix"
      BY <2>1
    <2>7. QED
      BY <1>3, <1>13, <1>14, <2>1, <2>2, <2>3, <2>4, <2>5, <2>6 DEF SlotInv
  <1>17. QED
    BY <1>15, <1>16

\* Why an answer may be good.
LEMMA DriftSuits ==
    ASSUME NEW a, NEW st, NEW g, NEW src \in Drifting \cup {"ProgramUnchecked"}
    PROVE  Suits(a, st, src, g)
  BY DEF Suits, SourceOf, Drifting
LEMMA GapSuits ==
    ASSUME NEW a, NEW st, NEW src, NEW g, g # {}
    PROVE  Suits(a, st, src, g)
  BY DEF Suits
LEMMA RightSuits ==
    ASSUME NEW a, NEW st, NEW src, NEW g, src # "EventLog", NEW i \in Moments, Stands(st) = Held(a, i)
    PROVE  Suits(a, st, src, g)
  BY DEF Suits, SourceOf
LEMMA PreSuits ==
    ASSUME ChainMade, OwnSlot, NEW a \in Account, NEW st, NEW src, NEW g, src # "EventLog",
           Stands(st) = Pre(a)
    PROVE  Suits(a, st, src, g)
  BY RightSuits, MomentsIs DEF Pre
\* What was recorded at the opening of the block, if no earlier transaction of
\* it writes the account.
LEMMA RecordedSuits ==
    ASSUME ChainMade, NEW a \in Account, Kind(a) # "token", NEW st, NEW g,
           ~OwnSlot => \E i \in Moments : Stands(st) = Held(a, i),
           OwnSlot /\ Held(a, Before(world.asked)) = Pre(a) => Stands(st) = Pre(a)
    PROVE  Suits(a, st, "Recorded", g)
  <1>1. CASE ~OwnSlot
    BY <1>1, RightSuits
  <1>2. CASE OwnSlot /\ a \in Preceded
    BY <1>2 DEF Suits
  <1>3. CASE OwnSlot /\ a \notin Preceded
    BY <1>3, OpeningHeld, PreSuits
  <1>4. QED
    BY <1>1, <1>2, <1>3

LEMMA KeepProgramFits ==
    ASSUME SlotInv, WrittenInv, phase = "keys", KeepProgram
    PROVE  SlotInv'
  <1>1. /\ ChainMade /\ This \in Account /\ ctx[This] = Loaded(This) /\ LoadedWell(This)
        /\ Kind(This) = "program" /\ unproven' = unproven
    BY AtKey DEF KeepProgram, IsProgram
  <1>2. Last \in 0..Last /\ Before(world.asked) \in 0..Last
    BY <1>1, TxIs, AskedIs
  <1>3. ctx[This] = Held(This, Last) /\ ctx[This] \in States /\ Stands(ctx[This]) = Held(This, Last)
    BY <1>1, <1>2, StandsHeld DEF LoadedWell
  <1>4. ASSUME NEW st \in States, NEW src \in Labels, NEW why, Settle(st, src, why),
               Suits(This, st, src, gaps[This] \cup why)
        PROVE  SlotInv'
    BY <1>1, <1>4, SettleFits DEF IsSigner
  <1> DEFINE deployed == SlotOf[LastIn({i \in Tx : Did(This, i) = "write"})]
  <1>5. CASE Settle(ctx[This], "ProgramUnchecked", {})
    <2>1. Suits(This, ctx[This], "ProgramUnchecked", gaps[This] \cup {})
      BY DriftSuits
    <2>2. QED
      BY <1>3, <1>4, <1>5, <2>1 DEF Labels
  <1>6. CASE deployed <= world.asked
             /\ Settle(ctx[This], "Program", Because(deployed = world.asked, "deployed in the slot"))
    <2> DEFINE why == Because(deployed = world.asked, "deployed in the slot")
    <2>1. Suits(This, ctx[This], "Program", gaps[This] \cup why)
      <3>1. CASE deployed = world.asked
        <4>1. gaps[This] \cup why # {}
          BY <3>1 DEF Because
        <4>2. QED
          BY <4>1, GapSuits
      <3>2. CASE deployed # world.asked
        <4>1. deployed < world.asked
          <5>1. {i \in Tx : Did(This, i) = "write"} # {}
            BY <1>1, Admitted
          <5>2. LastIn({i \in Tx : Did(This, i) = "write"}) \in {i \in Tx : Did(This, i) = "write"}
            BY <5>1, LastInIs
          <5>3. deployed \in Nat /\ world.asked \in Nat
            BY <1>1, <5>2, TxIs, AskedIs
          <5>4. deployed <= world.asked
            BY <1>6
          <5> HIDE DEF deployed
          <5>5. QED
            BY <3>2, <5>3, <5>4
        <4>2. PICK i \in Moments : Held(This, i) = Held(This, Last)
          BY <1>1, <4>1, DeployHolds
        <4>3. QED
          BY <1>3, <4>2, RightSuits
      <3>3. QED
        BY <3>1, <3>2
    <2>2. QED
      BY <1>3, <1>4, <1>6, <2>1 DEF Labels
  <1>7. CASE Settle(ctx[This], "ProgramUpgraded", {})
    <2>1. Suits(This, ctx[This], "ProgramUpgraded", gaps[This] \cup {})
      BY DriftSuits DEF Drifting
    <2>2. QED
      BY <1>3, <1>4, <1>7, <2>1 DEF Labels
  <1>8. CASE \E elf \in FromMentions(This) : elf # Nothing /\
               Settle([data |-> elf.data, bal |-> ctx[This].bal], "Recorded",
                      Because(elf.slot # AtMention(This, {}).slot, "answer lost"))
    <2>1. PICK elf \in FromMentions(This) : elf # Nothing /\
               Settle([data |-> elf.data, bal |-> ctx[This].bal], "Recorded",
                      Because(elf.slot # AtMention(This, {}).slot, "answer lost"))
      BY <1>8
    <2> DEFINE st == [data |-> elf.data, bal |-> ctx[This].bal]
               why == Because(elf.slot # AtMention(This, {}).slot, "answer lost")
               b == Before(world.asked)
    <2>2. st \in States
      <3>1. elf.data \in Nat
        BY <1>1, <2>1, MentionHolds DEF True
      <3>2. QED
        BY <1>3, <3>1 DEF States
    <2>3. Suits(This, st, "Recorded", gaps[This] \cup why)
      <3>1. CASE elf.slot # AtMention(This, {}).slot
        <4>1. gaps[This] \cup why # {}
          BY <3>1 DEF Because
        <4>2. QED
          BY <4>1, GapSuits
      <3>2. CASE elf.slot = AtMention(This, {}).slot
        <4>1. elf.data = Held(This, b).data /\ \E k \in Tx : k <= b /\ Did(This, k) \in Changes
          BY <1>1, <2>1, <3>2, MentionBefore DEF IsProgram
        <4>2. PICK k \in Tx : k <= b /\ Did(This, k) = "write"
          BY <1>1, <4>1, Admitted DEF Changes
        <4>3. k <= Last
          BY TxIs
        <4>4. Held(This, b).bal = Held(This, Last).bal
          BY <1>1, <1>2, <4>2, <4>3, ProgramHeld
        <4>5. Held(This, b) \in States /\ Stands(Held(This, b)) = Held(This, b)
          BY <1>1, <1>2, StandsHeld
        <4>6. st = Held(This, b)
          BY <1>3, <4>1, <4>4, <4>5 DEF States
        <4>7. ~OwnSlot => b \in Moments
          BY <1>1, MomentsIs
        <4>8. QED
          <5> HIDE DEF st, b
          <5>1. Stands(st) = Held(This, b)
            BY <4>5, <4>6
          <5>2. QED
            BY <1>1, <4>7, <5>1, RecordedSuits DEF b
      <3>3. QED
        BY <3>1, <3>2
    <2>4. QED
      <3> HIDE DEF st, why
      <3>1. Settle(st, "Recorded", why)
        BY <2>1 DEF st, why
      <3>2. QED
        BY <1>4, <2>2, <2>3, <3>1 DEF Labels
  <1>9. QED
    BY <1>5, <1>6, <1>7, <1>8 DEF KeepProgram

LEMMA RewindLabelled ==
    ASSUME NEW a, NEW l \in RewindLabels(a)
    PROVE  l.label \in {"MetadataRewind", "MetadataEstimate"}
  <1>1. \E m, why : \/ l = [label |-> IF m = Nothing \/ m < world.asked
                                   THEN "MetadataRewind" ELSE "MetadataEstimate", why |-> why]
                   \/ l = [label |-> IF m # Nothing /\ m <= Landed
                                   THEN "MetadataRewind" ELSE "MetadataEstimate", why |-> why]
    <2>1. CASE world.asked < Landed
      BY <2>1 DEF RewindLabels
    <2>2. CASE ~(world.asked < Landed)
      BY <2>2 DEF RewindLabels
    <2>3. QED
      BY <2>1, <2>2
  <1>2. QED
    BY <1>1

LEMMA SeedSignerFits ==
    ASSUME SlotInv, WrittenInv, phase = "keys", SeedSigner
    PROVE  SlotInv'
  <1>1. /\ ChainMade /\ This \in Account /\ ctx[This] = Loaded(This) /\ LoadedWell(This)
        /\ Kind(This) = "signer" /\ unproven' = unproven
        /\ ctx[This] \in States \cup {NotLoaded}
    BY AtKey DEF SeedSigner, IsSigner
  <1>2. /\ Meta(This) \in States /\ Stands(Meta(This)) = Meta(This) /\ Meta(This).data = 0
        /\ Meta(This).bal = 0 => Meta(This) = Gone
        /\ OwnSlot => Meta(This) = Pre(This)
    BY <1>1, MetaIs
  <1>3. Stands(ctx[This]) = Meta(This)
    <2>1. CASE ctx[This] = NotLoaded
      BY <1>1, <1>2, <2>1 DEF LoadedWell, Stands
    <2>2. CASE ctx[This] # NotLoaded
      <3>1. ctx[This].bal = Meta(This).bal /\ ctx[This].data = 0 /\ ctx[This] \in States
        BY <1>1, <2>2 DEF LoadedWell
      <3>2. ctx[This] = Meta(This)
        BY <1>2, <3>1 DEF States
      <3>3. QED
        BY <1>2, <3>2
    <2>3. QED
      BY <2>1, <2>2
  <1>4. ASSUME NEW st \in States \cup {NotLoaded}, NEW src \in Labels, NEW why, Settle(st, src, why),
               OwnSlot => src = "none", Suits(This, st, src, gaps[This] \cup why)
        PROVE  SlotInv'
    BY <1>1, <1>4, SettleFits
  <1>5. CASE OwnSlot /\ Settle(ctx[This], "none", {})
    <2>1. Suits(This, ctx[This], "none", gaps[This] \cup {})
      BY <1>1, <1>2, <1>3, <1>5, PreSuits
    <2>2. QED
      BY <1>1, <1>4, <1>5, <2>1 DEF Labels
  <1>6. ASSUME ~OwnSlot, NEW l \in RewindLabels(This), Settle(ctx[This], l.label, l.why)
               \/ (l.label = "MetadataEstimate" /\ Settle(ctx[This], l.label, {}))
        PROVE  SlotInv'
    <2>1. l.label \in {"MetadataRewind", "MetadataEstimate"}
      BY <1>6, RewindLabelled
    <2>2. PICK why : Settle(ctx[This], l.label, why) /\ (l.label = "MetadataEstimate" \/ why = l.why)
      BY <1>6
    <2>3. Suits(This, ctx[This], l.label, gaps[This] \cup why)
      <3>1. CASE l.label = "MetadataEstimate"
        BY <3>1, DriftSuits DEF Drifting
      <3>2. CASE l.label = "MetadataRewind" /\ l.why # {}
        <4>1. gaps[This] \cup why # {}
          BY <2>2, <3>2
        <4>2. QED
          BY <4>1, GapSuits
      <3>3. CASE l.label = "MetadataRewind" /\ l.why = {}
        <4>1. PICK i \in Moments : Held(This, i) = Meta(This)
          BY <1>1, <1>6, <3>3, RewindHolds DEF MetaHeld
        <4>2. QED
          BY <1>3, <3>3, <4>1, RightSuits
      <3>4. QED
        BY <2>1, <3>1, <3>2, <3>3
    <2>4. l.label \in Labels
      BY <2>1 DEF Labels
    <2>5. QED
      BY <1>1, <1>4, <1>6, <2>2, <2>3, <2>4
  <1>7. ASSUME ~OwnSlot, ctx[This] # NotLoaded, NEW bal \in WalletBalances(This), bal # Nothing,
               Settle([ctx[This] EXCEPT !.bal = bal], "Recorded", {})
        PROVE  SlotInv'
    <2> DEFINE st == [ctx[This] EXCEPT !.bal = bal]
               u == UpTo(world.asked)
    <2>1. bal = Held(This, u).bal
      BY <1>1, <1>7, WalletHolds
    <2>2. u \in 0..Last
      BY <1>1, AskedIs
    <2>3. Held(This, u) \in States /\ Stands(Held(This, u)) = Held(This, u) /\ Held(This, u).data = 0
      BY <1>1, <2>2, StandsHeld, SignerEmpty
    <2>4. ctx[This].data = 0 /\ ctx[This] \in States
      BY <1>1, <1>7 DEF LoadedWell
    <2>5. st = Held(This, u)
      BY <2>1, <2>3, <2>4 DEF States
    <2>6. u \in Moments
      BY <1>1, <1>7, MomentsIs
    <2> HIDE DEF st, u
    <2>7. Stands(st) = Held(This, u)
      BY <2>3, <2>5
    <2>8. Suits(This, st, "Recorded", gaps[This] \cup {})
      BY <2>6, <2>7, RightSuits
    <2>9. Settle(st, "Recorded", {}) /\ st \in States
      <3>1. Settle(st, "Recorded", {})
        BY <1>7 DEF st
      <3>2. QED
        BY <2>3, <2>5, <3>1
    <2>10. "Recorded" \in Labels
      BY DEF Labels
    <2>11. QED
      BY <1>4, <1>7, <2>8, <2>9, <2>10
  <1>8. QED
    BY <1>5, <1>6, <1>7 DEF SeedSigner

\* A data or token account the loop is at.
LoopFacts ==
    /\ ChainMade /\ This \in Account /\ Kind(This) # "signer" /\ Kind(This) # "program"
    /\ ctx[This] \in States \cup {NotLoaded}
    /\ Meta(This) \in States /\ Stands(Meta(This)) = Meta(This)
    /\ OwnSlot => Meta(This) = Pre(This)
    /\ Meta(This) = Gone \/ TokenListed(This) => Stands(ctx[This]) = Meta(This)
    /\ TokenListed(This) /\ OwnSlot => Pre(This).data # 0
    /\ gaps[This] = {} /\ streamed[This] # Nothing => StreamRight(This, streamed[This].data)
    /\ streamed[This] # Nothing => streamed[This].data \in Nat

LEMMA InTheLoop ==
    ASSUME SlotInv, WrittenInv, phase = "keys", InLoop
    PROVE  LoopFacts
  <1>1. /\ ChainMade /\ This \in Account /\ ctx[This] = Loaded(This) /\ LoadedWell(This)
        /\ Kind(This) # "signer" /\ Kind(This) # "program"
        /\ ctx[This] \in States \cup {NotLoaded} /\ Answered(This)
    BY AtKey DEF InLoop, IsSigner, IsProgram
  <1>2. /\ Meta(This) \in States /\ Stands(Meta(This)) = Meta(This)
        /\ OwnSlot => Meta(This) = Pre(This)
        /\ Pre(This).data = 0 => Pre(This) = Gone
    BY <1>1, MetaIs
  <1>3. ASSUME Meta(This) = Gone PROVE Stands(ctx[This]) = Gone
    <2>1. ctx[This] # NotLoaded => ctx[This].bal = 0
      BY <1>1, <1>3 DEF LoadedWell, Gone
    <2>2. QED
      BY <2>1 DEF Stands
  <1>4. ASSUME TokenListed(This) PROVE Stands(ctx[This]) = Meta(This)
    <2>1. ctx[This] # NotLoaded
      BY <1>1, <1>4 DEF LoadedWell, TokenListed
    <2>2. ctx[This] \in States /\ ctx[This].bal = Meta(This).bal /\ ctx[This].data = Meta(This).data
      BY <1>1, <1>4, <2>1 DEF LoadedWell
    <2>3. ctx[This] = Meta(This)
      BY <1>2, <2>2 DEF States
    <2>4. QED
      BY <1>2, <2>3
  <1>5. TokenListed(This) /\ OwnSlot => Pre(This).data # 0
    BY <1>2 DEF TokenListed
  <1>6. streamed[This] # Nothing => streamed[This].data \in Nat
    BY <1>1 DEF WrittenInv, True
  <1>7. QED
    BY <1>1, <1>2, <1>3, <1>4, <1>5, <1>6 DEF LoopFacts, Answered

\* Settling it.
LEMMA LoopFits ==
    ASSUME SlotInv, WrittenInv, phase = "keys", InLoop,
           NEW st \in States \cup {NotLoaded}, NEW src \in Labels, NEW why,
           Settle(st, src, why), unproven' \in {unproven, unproven \cup {This}},
           This \in unproven' \/ Suits(This, st, src, gaps[This] \cup why),
           OwnSlot /\ Kind(This) = "token" /\ src \in {"Recorded", "Unchanged"} =>
                            st # NotLoaded /\ st.data # 0
    PROVE  SlotInv'
  <1>1. ~IsSigner(This)
    BY DEF InLoop
  <1>2. QED
    BY <1>1, SettleFits

LEMMA DriftFits ==
    ASSUME SlotInv, WrittenInv, phase = "keys", InLoop, unproven' = unproven,
           Settle(ctx[This], "CurrentRpc", {})
    PROVE  SlotInv'
  <1>1. Suits(This, ctx[This], "CurrentRpc", gaps[This] \cup {})
    BY DriftSuits DEF Drifting
  <1>2. ctx[This] \in States \cup {NotLoaded}
    BY AtKey
  <1>3. QED
    BY <1>1, <1>2, LoopFits DEF Labels

LEMMA TakeClosedFits ==
    ASSUME SlotInv, WrittenInv, phase = "keys", TakeClosed
    PROVE  SlotInv'
  <1>1. InLoop /\ LoopFacts /\ unproven' = unproven
    BY InTheLoop DEF TakeClosed
  <1>2. /\ ChainMade /\ This \in Account /\ Kind(This) # "signer" /\ Kind(This) # "program"
        /\ Meta(This) \in States /\ Stands(Meta(This)) = Meta(This)
        /\ OwnSlot => Meta(This) = Pre(This)
    BY <1>1 DEF LoopFacts
  <1>3. CASE ClosedAfterwards /\ Settle(NotLoaded, "Recorded", {})
    <2>1. Streamed(This) /\ streamed[This].data = 0 /\ world.asked > Landed
      BY <1>3 DEF ClosedAfterwards
    <2>2. ~OwnSlot
      BY <1>2, <2>1, AskedIs DEF OwnSlot
    <2>3. CASE gaps[This] = {}
      <3>1. StreamRight(This, 0)
        BY <1>1, <2>1, <2>3 DEF LoopFacts, Streamed
      <3>2. PICK i \in 0..Last : Opens(i) /\ 0 = Held(This, i).data
        BY <3>1 DEF StreamRight
      <3>3. i = UpTo(world.asked) /\ i \in Moments
        BY <1>2, <2>1, <2>2, <3>2, MomentsIs DEF Opens
      <3>4. Held(This, i) = Gone
        BY <1>2, <3>2, NoBytesGone
      <3>5. Stands(NotLoaded) = Gone
        BY DEF Stands
      <3>6. Suits(This, NotLoaded, "Recorded", gaps[This] \cup {})
        BY <3>3, <3>4, <3>5, RightSuits
      <3>7. QED
        BY <1>1, <1>3, <2>2, <3>6, LoopFits DEF Labels
    <2>4. CASE gaps[This] # {}
      <3>1. Suits(This, NotLoaded, "Recorded", gaps[This] \cup {})
        BY <2>4, GapSuits
      <3>2. QED
        BY <1>1, <1>3, <2>2, <3>1, LoopFits DEF Labels
    <2>5. QED
      BY <2>3, <2>4
  <1> DEFINE st == [data |-> IF OwnSlot /\ TokenListed(This)
                             THEN Meta(This).data ELSE streamed[This].data,
                    bal |-> IF OwnSlot THEN Meta(This).bal ELSE Garbage]
             why == Because(~OwnSlot, "guessed balance")
  <1>4. CASE StreamedBytes /\ Settle(st, "Recorded", why)
    <2>1. Streamed(This) /\ streamed[This].data # 0 /\ streamed[This].data \in Nat
      BY <1>1, <1>4 DEF StreamedBytes, LoopFacts, Streamed
    <2>2. st \in States
      <3>1. Garbage \in Nat
        BY TxIs DEF Garbage
      <3>2. QED
        BY <1>2, <2>1, <3>1 DEF States
    <2>3. st # NotLoaded
      BY <2>2, ReconstructAssumption
    <2>4. OwnSlot /\ Kind(This) = "token" => TokenListed(This)
      <3>1. SUFFICES ASSUME OwnSlot, Kind(This) = "token", Meta(This) = Gone PROVE FALSE
        BY DEF TokenListed
      <3>2. Pre(This).bal = 0
        BY <1>2, <3>1 DEF Gone
      <3>3. SettledAsClosed
        BY DEF TakeClosed
      <3>4. QED
        BY <3>2, <3>3 DEF SettledAsClosed, Closed
    <2>5. OwnSlot /\ TokenListed(This) => st = Pre(This)
      <3>1. SUFFICES ASSUME OwnSlot, TokenListed(This) PROVE st = Pre(This)
        OBVIOUS
      <3>2. st = [data |-> Meta(This).data, bal |-> Meta(This).bal] /\ Meta(This) \in States
        BY <1>2, <3>1
      <3>3. st = Meta(This)
        BY <3>2 DEF States
      <3>4. QED
        BY <1>2, <3>1, <3>3
    <2>6. OwnSlot /\ ~TokenListed(This) /\ streamed[This].data = Pre(This).data => st = Pre(This)
      <3>1. SUFFICES ASSUME OwnSlot, ~TokenListed(This), streamed[This].data = Pre(This).data
                     PROVE  st = Pre(This)
        OBVIOUS
      <3>2. st = [data |-> Pre(This).data, bal |-> Pre(This).bal] /\ Pre(This) \in States
        BY <1>2, <3>1
      <3>3. QED
        BY <3>2 DEF States
    <2>7. OwnSlot /\ Kind(This) = "token" => st.data # 0
      BY <1>1, <2>4, <2>5 DEF LoopFacts
    <2>8. OwnSlot => Stands(Pre(This)) = Pre(This)
      BY <1>2
    <2>9. Settle(st, "Recorded", why)
      BY <1>4
    <2> HIDE DEF st
    <2>10. Suits(This, st, "Recorded", gaps[This] \cup why)
      <3>1. CASE ~OwnSlot \/ gaps[This] # {}
        <4>1. gaps[This] \cup why # {}
          BY <3>1 DEF Because
        <4>2. QED
          BY <4>1, GapSuits
      <3>2. CASE OwnSlot /\ TokenListed(This)
        BY <1>2, <2>5, <2>8, <3>2, PreSuits
      <3>3. CASE OwnSlot /\ ~TokenListed(This) /\ gaps[This] = {}
        <4>1. Kind(This) # "token"
          BY <2>4, <3>3
        <4>2. streamed[This].data = Held(This, Before(world.asked)).data
          BY <1>1, <2>1, <3>3 DEF LoopFacts, Streamed, StreamRight, Opens
        <4>3. Held(This, Before(world.asked)) = Pre(This) => Stands(st) = Pre(This)
          BY <2>6, <2>8, <3>3, <4>2
        <4>4. QED
          BY <1>2, <3>3, <4>1, <4>3, RecordedSuits
      <3>4. QED
        BY <3>1, <3>2, <3>3
    <2>11. QED
      BY <1>1, <2>2, <2>3, <2>7, <2>9, <2>10, LoopFits DEF Labels
  <1>5. CASE Settle(ctx[This], "CurrentRpc", {})
    BY <1>1, <1>5, DriftFits
  <1>6. QED
    BY <1>3, <1>4, <1>5 DEF TakeClosed

LEMMA TakeRecordFits ==
    ASSUME SlotInv, WrittenInv, phase = "keys", TakeRecord
    PROVE  SlotInv'
  <1>1. InLoop /\ LoopFacts /\ unproven' = unproven /\ Seedable
    BY InTheLoop DEF TakeRecord
  <1>2. /\ ChainMade /\ This \in Account /\ Kind(This) # "signer"
        /\ Meta(This) \in States /\ Stands(Meta(This)) = Meta(This)
        /\ OwnSlot /\ Meta(This) = Pre(This) /\ ctx[This] \in States \cup {NotLoaded}
    BY <1>1 DEF LoopFacts, Seedable
  <1> DEFINE st == [data |-> IF TokenListed(This) THEN Meta(This).data
                             ELSE streamed[This].data, bal |-> Meta(This).bal]
  <1>3. CASE IsToken(This) /\ StreamedBytes /\ Settle(st, "Recorded", {})
    <2>1. streamed[This].data # 0 /\ streamed[This].data \in Nat
      BY <1>1, <1>3 DEF StreamedBytes, LoopFacts, Streamed
    <2>2. st \in States
      BY <1>2, <2>1 DEF States
    <2>3. st # NotLoaded
      BY <2>2, ReconstructAssumption
    <2>4. st.data # 0
      <3>1. TokenListed(This) => Meta(This).data # 0
        BY <1>1, <1>2 DEF LoopFacts
      <3>2. QED
        BY <2>1, <3>1
    <2>5. Stands(st) = Pre(This)
      <3>1. CASE TokenListed(This)
        <4>1. st = [data |-> Meta(This).data, bal |-> Meta(This).bal]
          BY <3>1
        <4>2. st = Meta(This)
          BY <1>2, <4>1 DEF States
        <4>3. QED
          BY <1>2, <4>2
      <3>2. CASE ~TokenListed(This)
        <4>1. Meta(This) = Gone
          BY <1>3, <3>2 DEF TokenListed, IsToken
        <4>2. st.bal = 0
          BY <4>1 DEF Gone
        <4>3. QED
          BY <1>2, <2>3, <4>1, <4>2 DEF Stands
      <3>3. QED
        BY <3>1, <3>2
    <2>6. Settle(st, "Recorded", {})
      BY <1>3
    <2> HIDE DEF st
    <2>7. Suits(This, st, "Recorded", gaps[This] \cup {})
      BY <1>2, <2>5, PreSuits
    <2>8. QED
      BY <1>1, <2>2, <2>3, <2>4, <2>6, <2>7, LoopFits DEF Labels
  <1>4. CASE Settle(ctx[This], "MetadataRewind",
                    Because(Empty(This) /\ HadBytes(This), "closed since"))
    <2> DEFINE why == Because(Empty(This) /\ HadBytes(This), "closed since")
    <2>1. Suits(This, ctx[This], "MetadataRewind", gaps[This] \cup why)
      <3>1. CASE Empty(This) /\ HadBytes(This)
        <4>1. gaps[This] \cup why # {}
          BY <3>1 DEF Because
        <4>2. QED
          BY <4>1, GapSuits
      <3>2. CASE ~HadBytes(This)
        <4>1. Held(This, world.target - 1).data = 0
          BY <1>2, <3>2, MomentsIs DEF HadBytes
        <4>2. Pre(This) = Gone
          BY <1>2, <4>1, MetaIs DEF Pre
        <4>3. Stands(ctx[This]) = Pre(This)
          BY <1>1, <1>2, <4>2 DEF LoopFacts
        <4>4. QED
          BY <1>2, <4>3, PreSuits
      <3>3. CASE ~Empty(This)
        <4>1. IsToken(This)
          BY <1>1, <3>3 DEF Seedable
        <4>2. Meta(This) = Gone \/ TokenListed(This)
          BY <4>1 DEF IsToken, TokenListed
        <4>3. Stands(ctx[This]) = Pre(This)
          BY <1>1, <1>2, <4>2 DEF LoopFacts
        <4>4. QED
          BY <1>2, <4>3, PreSuits
      <3>4. QED
        BY <3>1, <3>2, <3>3
    <2>2. QED
      BY <1>1, <1>2, <1>4, <2>1, LoopFits DEF Labels
  <1>5. QED
    BY <1>3, <1>4 DEF TakeRecord

\* At the own slot only data accounts are looked up.
LEMMA LookupFacts ==
    ASSUME SlotInv, WrittenInv, phase = "keys", InLookup
    PROVE  /\ LoopFacts /\ InLoop /\ ctx[This] = Loaded(This) /\ LoadedWell(This)
           /\ OwnSlot => Kind(This) # "token" /\ ~Empty(This)
  BY InTheLoop, AtKey DEF InLookup, Seedable, IsToken

LEMMA LookupFits ==
    ASSUME SlotInv, WrittenInv, phase = "keys", InLookup,
           NEW st \in States \cup {NotLoaded}, NEW src \in Labels, NEW why,
           Settle(st, src, why), unproven' \in {unproven, unproven \cup {This}},
           This \in unproven' \/ Suits(This, st, src, gaps[This] \cup why)
    PROVE  SlotInv'
  <1>1. InLoop /\ (OwnSlot => Kind(This) # "token")
    BY LookupFacts
  <1>2. QED
    BY <1>1, LoopFits

LEMMA TakeVersionFits ==
    ASSUME SlotInv, WrittenInv, phase = "keys", TakeVersion
    PROVE  SlotInv'
  <1>1. /\ InLookup /\ LoopFacts /\ unproven' = unproven /\ Proven
        /\ OwnSlot => Kind(This) # "token"
    BY LookupFacts DEF TakeVersion
  <1>2. /\ ChainMade /\ This \in Account /\ Meta(This) \in States
        /\ OwnSlot => Meta(This) = Pre(This)
        /\ Recorded(This) /\ Start.held
    BY <1>1 DEF LoopFacts, Proven
  <1> DEFINE f == UpTo(Floor)
             held == Held(This, UpTo(Start.slot))
             why == Because(~OwnSlot /\ ~Start.known, "guessed balance")
  <1>3. held = Held(This, f)
    BY <1>2, VersionHeld DEF Start
  <1>4. f \in 0..Last /\ Opens(f)
    BY <1>2, FloorOpens
  <1>5. Held(This, f) \in States /\ Stands(Held(This, f)) = Held(This, f)
    BY <1>2, <1>4, StandsHeld
  <1>6. ~OwnSlot => f \in Moments
    BY <1>2, MomentsIs DEF Floor
  <1>7. OwnSlot => f = Before(world.asked)
    BY <1>4 DEF Opens
  <1>8. StartState = IF Start.known \/ held = Gone THEN held ELSE [held EXCEPT !.bal = Garbage]
    BY DEF StartState
  <1>9. PICK st : /\ Settle(st, "Recorded", why)
                  /\ st = IF StartState = Gone THEN NotLoaded
                          ELSE IF Start.known THEN StartState
                          ELSE [StartState EXCEPT !.bal = Meta(This).bal]
    BY DEF TakeVersion
  <1> HIDE DEF f, held
  <1>10. held \in States /\ Stands(held) = held
    BY <1>3, <1>5
  <1>11. CASE Start.known \/ held = Gone
    <2>1. st = IF held = Gone THEN NotLoaded ELSE held
      BY <1>8, <1>9, <1>11
    <2>2. Stands(st) = held /\ st \in States \cup {NotLoaded}
      BY <1>10, <2>1 DEF Stands
    <2>3. Suits(This, st, "Recorded", gaps[This] \cup why)
      <3>1. CASE ~OwnSlot
        BY <1>3, <1>6, <2>2, <3>1, RightSuits
      <3>2. CASE OwnSlot
        BY <1>1, <1>2, <1>3, <1>7, <2>2, <3>2, RecordedSuits
      <3>3. QED
        BY <3>1, <3>2
    <2>4. QED
      BY <1>1, <1>9, <2>2, <2>3, LookupFits DEF Labels
  <1>12. CASE ~(Start.known \/ held = Gone)
    <2>1. StartState = [data |-> held.data, bal |-> Garbage] /\ Garbage # 0 /\ Garbage \in Nat
      <3>1. StartState = [held EXCEPT !.bal = Garbage]
        BY <1>8, <1>12
      <3>2. Garbage # 0 /\ Garbage \in Nat
        BY TxIs DEF Garbage
      <3>3. QED
        BY <1>10, <3>1, <3>2 DEF States
    <2>2. StartState # Gone
      BY <2>1 DEF Gone
    <2>3. st = [data |-> held.data, bal |-> Meta(This).bal]
      <3>1. st = [StartState EXCEPT !.bal = Meta(This).bal]
        BY <1>9, <1>12, <2>2
      <3>2. QED
        BY <2>1, <3>1
    <2>4. st \in States
      BY <1>2, <1>10, <2>3 DEF States
    <2>5. OwnSlot /\ held = Pre(This) => st = held
      <3>1. SUFFICES ASSUME OwnSlot, held = Pre(This) PROVE st = held
        OBVIOUS
      <3>2. st = [data |-> held.data, bal |-> held.bal]
        BY <1>2, <2>3, <3>1
      <3>3. QED
        BY <1>10, <3>2 DEF States
    <2>6. Suits(This, st, "Recorded", gaps[This] \cup why)
      <3>1. CASE ~OwnSlot
        <4>1. gaps[This] \cup why # {}
          BY <1>12, <3>1 DEF Because
        <4>2. QED
          BY <4>1, GapSuits
      <3>2. CASE OwnSlot
        <4>1. Held(This, Before(world.asked)) = Pre(This) => Stands(st) = Pre(This)
          BY <1>3, <1>7, <1>10, <2>5, <3>2
        <4>2. QED
          BY <1>1, <1>2, <3>2, <4>1, RecordedSuits
      <3>3. QED
        BY <3>1, <3>2
    <2>7. QED
      BY <1>1, <1>9, <2>4, <2>6, LookupFits DEF Labels
  <1>13. QED
    BY <1>11, <1>12

LEMMA TakeStreamedFits ==
    ASSUME SlotInv, WrittenInv, phase = "keys", TakeStreamed
    PROVE  SlotInv'
  <1> DEFINE v == streamed[This]
             st == IF v.data = 0 THEN NotLoaded ELSE [data |-> v.data, bal |-> Meta(This).bal]
  <1>1. /\ InLookup /\ LoopFacts /\ v # Nothing
        /\ OwnSlot => Kind(This) # "token"
        /\ Settle(st, "Recorded", {})
        /\ unproven' = IF st # NotLoaded /\ ~OwnSlot THEN unproven \cup {This} ELSE unproven
    BY LookupFacts DEF TakeStreamed, Streamed
  <1>2. /\ ChainMade /\ This \in Account /\ Meta(This) \in States /\ Kind(This) # "signer"
        /\ OwnSlot => Meta(This) = Pre(This)
        /\ v.data \in Nat
        /\ gaps[This] = {} => StreamRight(This, v.data)
    BY <1>1 DEF LoopFacts
  <1>3. [data |-> v.data, bal |-> Meta(This).bal] \in States
    BY <1>2 DEF States
  <1>4. st \in States \cup {NotLoaded}
    BY <1>3
  <1>5. CASE st # NotLoaded /\ ~OwnSlot
    <2>1. This \in unproven' /\ unproven' = unproven \cup {This}
      BY <1>1, <1>5
    <2> HIDE DEF st
    <2>2. QED
      BY <1>1, <1>4, <2>1, LookupFits DEF Labels
  <1>6. CASE ~(st # NotLoaded /\ ~OwnSlot)
    <2>1. Suits(This, st, "Recorded", gaps[This] \cup {})
      <3>1. CASE gaps[This] # {}
        BY <3>1, GapSuits
      <3>2. CASE gaps[This] = {} /\ v.data = 0
        <4>1. PICK i \in 0..Last : Opens(i) /\ v.data = Held(This, i).data
          BY <1>2, <3>2 DEF StreamRight
        <4>2. Held(This, i) = Gone
          BY <1>2, <3>2, <4>1, NoBytesGone
        <4>3. Stands(st) = Gone
          BY <3>2 DEF Stands
        <4>4. ~OwnSlot => i \in Moments
          BY <1>2, <4>1, MomentsIs DEF Opens
        <4>5. OwnSlot => i = Before(world.asked)
          BY <4>1 DEF Opens
        <4> HIDE DEF st
        <4>6. CASE ~OwnSlot
          BY <4>2, <4>3, <4>4, <4>6, RightSuits
        <4>7. CASE OwnSlot
          BY <1>1, <1>2, <4>2, <4>3, <4>5, <4>7, RecordedSuits
        <4>8. QED
          BY <4>6, <4>7
      <3>3. CASE gaps[This] = {} /\ v.data # 0
        <4>1. st = [data |-> v.data, bal |-> Meta(This).bal] /\ st # NotLoaded
          BY <1>3, <3>3, ReconstructAssumption
        <4>2. OwnSlot
          BY <1>6, <4>1
        <4>3. PICK i \in 0..Last : Opens(i) /\ v.data = Held(This, i).data
          BY <1>2, <3>3 DEF StreamRight
        <4>4. i = Before(world.asked)
          BY <4>2, <4>3 DEF Opens
        <4>5. Pre(This) \in States /\ Stands(Pre(This)) = Pre(This)
          BY <1>2, MetaIs
        <4>6. Held(This, i) = Pre(This) => st = Pre(This)
          <5>1. SUFFICES ASSUME Held(This, i) = Pre(This) PROVE st = Pre(This)
            OBVIOUS
          <5>2. st = [data |-> Pre(This).data, bal |-> Pre(This).bal]
            BY <1>2, <4>1, <4>2, <4>3, <5>1
          <5>3. QED
            BY <4>5, <5>2 DEF States
        <4> HIDE DEF st
        <4>7. QED
          BY <1>1, <1>2, <4>2, <4>4, <4>5, <4>6, RecordedSuits
      <3>4. QED
        BY <3>1, <3>2, <3>3
    <2>2. unproven' = unproven
      BY <1>1, <1>6
    <2> HIDE DEF st
    <2>3. QED
      BY <1>1, <1>4, <2>1, <2>2, LookupFits DEF Labels
  <1>7. QED
    BY <1>5, <1>6

LEMMA TakeEventFits ==
    ASSUME SlotInv, WrittenInv, phase = "keys", TakeEvent
    PROVE  SlotInv'
  <1>1. InLookup /\ LoopFacts /\ unproven' = unproven
    BY LookupFacts DEF TakeEvent, InSources
  <1>2. PICK trade \in Traded \ {Nothing} : Settle([ctx[This] EXCEPT !.data = trade], "EventLog", {})
    BY DEF TakeEvent
  <1>3. ChainMade /\ This \in Account /\ ctx[This] \in States \cup {NotLoaded}
    BY <1>1 DEF LoopFacts
  <1>4. ctx[This] \in States
    <2>1. IsCurve
      BY <1>2 DEF Traded
    <2>2. QED
      BY <1>3, <2>1 DEF IsCurve, Empty
  <1>5. PICK i \in Moments : trade = Held(This, i).data
    <2>1. CASE OwnSlot
      <3>1. trade = Pre(This).data
        BY <1>2, <2>1 DEF Traded
      <3>2. QED
        BY <1>3, <2>1, <3>1, MomentsIs DEF Pre
    <2>2. CASE ~OwnSlot
      <3>1. trade \in LastTrade(This)
        BY <1>2, <2>2 DEF Traded
      <3>2. QED
        BY <1>2, <1>3, <2>2, <3>1, TradeHolds, MomentsIs
    <2>3. QED
      BY <2>1, <2>2
  <1> DEFINE st == [ctx[This] EXCEPT !.data = trade]
  <1>6. trade \in Nat
    <2>1. Held(This, i) \in States
      BY <1>3, StandsHeld, MomentsIs
    <2>2. QED
      BY <1>5, <2>1 DEF States
  <1>7. st \in States /\ st.data = trade
    BY <1>4, <1>6 DEF States
  <1>8. Settle(st, "EventLog", {})
    BY <1>2
  <1> HIDE DEF st
  <1>9. Suits(This, st, "EventLog", gaps[This] \cup {})
    BY <1>5, <1>7 DEF Suits, SourceOf
  <1>10. QED
    BY <1>1, <1>7, <1>8, <1>9, LookupFits DEF Labels

LEMMA TakeListedFits ==
    ASSUME SlotInv, WrittenInv, phase = "keys", TakeListed
    PROVE  SlotInv'
  <1>1. /\ InLookup /\ LoopFacts /\ unproven' = unproven
        /\ ~OwnSlot /\ (Empty(This) \/ TokenListed(This))
    BY LookupFacts DEF TakeListed, InSources, Listed
  <1>2. PICK l \in RewindLabels(This) :
          Settle(ctx[This], l.label, l.why \cup Because(Empty(This) /\ HadBytes(This), "closed since"))
    BY DEF TakeListed
  <1> DEFINE why == l.why \cup Because(Empty(This) /\ HadBytes(This), "closed since")
  <1>3. ChainMade /\ This \in Account /\ ctx[This] \in States \cup {NotLoaded} /\ Kind(This) # "signer"
    BY <1>1 DEF LoopFacts
  <1>4. l.label \in {"MetadataRewind", "MetadataEstimate"}
    BY RewindLabelled
  <1>5. Suits(This, ctx[This], l.label, gaps[This] \cup why)
    <2>1. CASE l.label = "MetadataEstimate"
      BY <2>1, DriftSuits DEF Drifting
    <2>2. CASE why # {}
      <3>1. gaps[This] \cup why # {}
        BY <2>2
      <3>2. QED
        BY <3>1, GapSuits
    <2>3. CASE l.label = "MetadataRewind" /\ why = {}
      <3>1. l.why = {} /\ ~(Empty(This) /\ HadBytes(This))
        BY <2>3 DEF Because
      <3>2. PICK i \in Moments : Held(This, i) = Meta(This)
        BY <1>1, <1>3, <2>3, <3>1, RewindHolds DEF MetaHeld
      <3>3. Meta(This) = Gone \/ TokenListed(This)
        <4>1. SUFFICES ASSUME Empty(This) PROVE Meta(This) = Gone
          BY <1>1
        <4>2. Held(This, i).data = 0
          BY <3>1, <3>2, <4>1 DEF HadBytes
        <4>3. QED
          BY <1>3, <3>2, <4>2, NoBytesGone, MomentsIs
      <3>4. Stands(ctx[This]) = Held(This, i)
        BY <1>1, <3>2, <3>3 DEF LoopFacts
      <3>5. QED
        BY <2>3, <3>4, RightSuits
    <2>4. QED
      BY <1>4, <2>1, <2>2, <2>3
  <1>6. l.label \in Labels
    BY <1>4 DEF Labels
  <1>7. QED
    BY <1>1, <1>2, <1>3, <1>5, <1>6, LookupFits

LEMMA TakeCurrentFits ==
    ASSUME SlotInv, WrittenInv, phase = "keys", TakeCurrent
    PROVE  SlotInv'
  <1>1. /\ InLookup /\ LoopFacts /\ unproven' = unproven /\ InLoop /\ LoadedWell(This)
        /\ ctx[This] = Loaded(This) /\ ~Listed
    BY LookupFacts DEF TakeCurrent, InBudget, InSources
  <1>2. CASE Settle(ctx[This], "CurrentRpc", {})
    BY <1>1, <1>2, DriftFits
  <1> DEFINE why == Because(ctx[This].bal # Held(This, Last).bal, "balance of the landing")
  <1>3. ASSUME NEW newest \in NewestSlot(Mentions(This)), newest # Nothing, newest < world.asked,
               Settle(ctx[This], "Unchanged", why)
        PROVE  SlotInv'
    <2>1. /\ ChainMade /\ This \in Account /\ ctx[This] \in States \cup {NotLoaded}
          /\ Kind(This) # "program"
      BY <1>1 DEF LoopFacts
    <2>2. ~OwnSlot /\ Held(This, Before(world.asked)) = Held(This, Last)
      BY <1>3, <2>1, CurrentHolds
    <2>3. ~Empty(This) /\ ~TokenListed(This)
      BY <1>1, <2>2 DEF Listed
    <2>4. ctx[This] \in States /\ ctx[This].data = Held(This, Last).data
      BY <1>1, <2>1, <2>3 DEF Empty, LoadedWell
    <2>5. Last \in 0..Last
      BY TxIs
    <2>6. Held(This, Last) \in States /\ Stands(Held(This, Last)) = Held(This, Last)
      BY <2>1, <2>5, StandsHeld
    <2>7. Suits(This, ctx[This], "Unchanged", gaps[This] \cup why)
      <3>1. CASE ctx[This].bal # Held(This, Last).bal
        <4>1. gaps[This] \cup why # {}
          BY <3>1 DEF Because
        <4>2. QED
          BY <4>1, GapSuits
      <3>2. CASE ctx[This].bal = Held(This, Last).bal
        <4>1. ctx[This] = Held(This, Last)
          BY <2>4, <2>6, <3>2 DEF States
        <4>2. Stands(ctx[This]) = Held(This, Before(world.asked))
          BY <2>2, <2>6, <4>1
        <4>3. Before(world.asked) \in Moments
          BY <2>1, <2>2, MomentsIs
        <4>4. QED
          BY <4>2, <4>3, RightSuits
      <3>3. QED
        BY <3>1, <3>2
    <2>8. QED
      BY <1>1, <1>3, <2>1, <2>7, LookupFits DEF Labels
  <1>4. QED
    BY <1>2, <1>3 DEF TakeCurrent

LEMMA RebuildFits ==
    ASSUME SlotInv, WrittenInv, phase = "keys", Rebuild
    PROVE  SlotInv'
  <1>1. InLookup /\ LoopFacts /\ unproven' = unproven /\ InLoop
    BY LookupFacts DEF Rebuild, InBudget, InSources
  <1>2. ChainMade /\ This \in Account
    BY <1>1 DEF LoopFacts
  <1>3. CASE Settle(ctx[This], "CurrentRpc", {})
    BY <1>1, <1>3, DriftFits
  <1>4. ASSUME NEW skipped \in SUBSET ToReplay, NEW amiss \in BOOLEAN,
               NEW src \in {"Recorded", "Reconstructed", "ReconstructedInexact"},
               Settle(Replayed(This, skipped, amiss), src,
                      Because(amiss, "other accounts") \cup
                      Because(Recorded(This) /\ ~Start.known, "guessed balance")),
               src # "ReconstructedInexact" => skipped = {}
        PROVE  SlotInv'
    <2> DEFINE st == Replayed(This, skipped, amiss)
               why == Because(amiss, "other accounts") \cup
                      Because(Recorded(This) /\ ~Start.known, "guessed balance")
               from == IF Recorded(This) THEN StartState ELSE Gone
               made == IF ToReplay = {} THEN from
                       ELSE IF skipped = {} /\ ~amiss THEN Held(This, LastIn(ToReplay))
                       ELSE [data |-> Garbage, bal |-> Garbage]
    <2>1. st = IF made = Gone THEN NotLoaded ELSE made
      BY DEF Replayed
    <2>2. Garbage \in Nat /\ Gone \in States
      BY TxIs DEF Garbage, Gone, States
    <2>3. Recorded(This) => Held(This, UpTo(Start.slot)) \in States
      <3>1. SUFFICES ASSUME Recorded(This) PROVE Held(This, UpTo(Start.slot)) \in States
        OBVIOUS
      <3>2. UpToIs(Start.slot)
        BY <1>2, <3>1, RecordedIs, Places DEF Start
      <3>3. QED
        BY <1>2, <3>2, StandsHeld DEF UpToIs
    <2>4. from \in States
      BY <2>2, <2>3 DEF StartState, States
    <2>5. ToReplay # {} => LastIn(ToReplay) \in 0..Last
      BY LastInIs DEF ToReplay
    <2>6. ToReplay # {} => Held(This, LastIn(ToReplay)) \in States
      BY <1>2, <2>5, StandsHeld
    <2>7. [data |-> Garbage, bal |-> Garbage] \in States
      BY <2>2 DEF States
    <2>8. made \in States
      <3> HIDE DEF from
      <3>1. QED
        BY <2>4, <2>6, <2>7
    <2>9. st \in States \cup {NotLoaded}
      <3> HIDE DEF made, st
      <3>1. QED
        BY <2>1, <2>8
    <2>10. Suits(This, st, src, gaps[This] \cup why)
      <3>1. CASE src = "ReconstructedInexact"
        BY <3>1, DriftSuits DEF Drifting
      <3>2. CASE amiss \/ (Recorded(This) /\ ~Start.known)
        <4>1. gaps[This] \cup why # {}
          BY <3>2 DEF Because
        <4>2. QED
          BY <4>1, GapSuits
      <3>3. CASE skipped = {} /\ ~amiss /\ ~(Recorded(This) /\ ~Start.known)
                 /\ src # "ReconstructedInexact"
        <4>1. made = Rebuilt
          <5>1. CASE ToReplay = {}
            BY <3>3, <5>1 DEF Rebuilt, StartState
          <5>2. CASE ToReplay # {}
            BY <3>3, <5>2 DEF Rebuilt
          <5>3. QED
            BY <5>1, <5>2
        <4>2. PICK i \in Moments : Held(This, i) = Rebuilt
          BY <1>2, ReplayHolds
        <4>3. Stands(Held(This, i)) = Held(This, i)
          BY <1>2, StandsHeld, MomentsIs
        <4> HIDE DEF made, st
        <4>4. Stands(st) = Held(This, i)
          BY <2>1, <4>1, <4>2, <4>3 DEF Stands
        <4>5. src # "EventLog"
          BY <3>3
        <4>6. QED
          BY <4>4, <4>5, RightSuits
      <3>4. QED
        BY <1>4, <3>1, <3>2, <3>3
    <2>11. src \in Labels /\ Settle(st, src, why)
      BY <1>4 DEF Labels
    <2> HIDE DEF st, why
    <2>12. QED
      BY <1>1, <2>9, <2>10, <2>11, LookupFits
  <1>5. QED
    BY <1>3, <1>4 DEF Rebuild

\* The loop settles every account well.
LEMMA KeyFits ==
    ASSUME SlotInv, WrittenInv, Key
    PROVE  SlotInv'
  <1>1. phase = "keys"
    BY DEF Key
  <1>2. CASE OverBudget
    <2>1. InLookup /\ unproven' = unproven /\ Settle(ctx[This], "CurrentRpc", {})
      BY <1>2 DEF OverBudget, InBudget, InSources
    <2>2. InLoop
      BY <1>1, <2>1, LookupFacts
    <2>3. QED
      BY <1>1, <2>1, <2>2, DriftFits
  <1>3. QED
    BY <1>1, <1>2, KeepProgramFits, SeedSignerFits, TakeClosedFits, TakeRecordFits, TakeVersionFits,
       TakeStreamedFits, TakeEventFits, TakeListedFits, TakeCurrentFits, RebuildFits DEF Key

\* The stream's answers, lost ones aside, are of the moment they stand for.
LEMMA AskStreamFits ==
    ASSUME SlotInv, WrittenInv, AskStream
    PROVE  SlotInv'
  <1>1. /\ UNCHANGED <<world, chain, ctx, label, unproven, next, run>>
        /\ phase = "stream" /\ phase' = "keys"
    BY DEF AskStream
  <1>2. ChainMade /\ next = 1
    BY <1>1 DEF WrittenInv
  <1>3. ASSUME NEW a \in Account
        PROVE  gaps'[a] = {} /\ streamed'[a] # Nothing => StreamRight(a, streamed'[a].data)
    <2>1. PICK got :
            /\ \/ got[a] \in {[v |-> Nothing, why |-> {}]}
               \/ got[a] \in {[v |-> v, why |-> {}] : v \in StreamBefore(a)}
               \/ /\ ~(world.asked > Landed)
                  /\ got[a] \in {[v |-> v, why |-> IF v # Nothing /\ v.slot # AtMention(a, {}).slot
                                                   THEN {"answer lost"} ELSE {}]
                                 : v \in FromMentions(a)}
            /\ streamed' = [b \in Account |-> got[b].v]
            /\ gaps' = [b \in Account |-> got[b].why]
      BY DEF AskStream
    <2>2. streamed'[a] = got[a].v /\ gaps'[a] = got[a].why
      BY <2>1
    <2>3. CASE got[a] = [v |-> Nothing, why |-> {}]
      BY <2>2, <2>3
    <2>4. CASE \E v \in StreamBefore(a) : got[a] = [v |-> v, why |-> {}]
      <3>1. PICK u \in StreamBefore(a) : got[a] = [v |-> u, why |-> {}]
        BY <2>4
      <3>2. u # Nothing => StreamRight(a, u.data)
        BY <1>2, BeforeRight
      <3>3. QED
        BY <2>2, <3>1, <3>2
    <2>5. CASE /\ ~(world.asked > Landed)
               /\ \E v \in FromMentions(a) :
                    got[a] = [v |-> v, why |-> IF v # Nothing /\ v.slot # AtMention(a, {}).slot
                                               THEN {"answer lost"} ELSE {}]
      <3>1. PICK u \in FromMentions(a) :
              got[a] = [v |-> u, why |-> IF u # Nothing /\ u.slot # AtMention(a, {}).slot
                                         THEN {"answer lost"} ELSE {}]
        BY <2>5
      <3>2. world.asked <= Landed
        <4>1. ~(world.asked > Landed)
          BY <2>5
        <4>2. world.asked \in Nat /\ Landed \in Nat
          BY <1>2, AskedIs
        <4>3. QED
          BY <4>1, <4>2
      <3> DEFINE w == IF u # Nothing /\ u.slot # AtMention(a, {}).slot THEN {"answer lost"} ELSE {}
      <3>3. w = {} /\ u # Nothing => u.slot = AtMention(a, {}).slot
        OBVIOUS
      <3>4. w = {} /\ u # Nothing => StreamRight(a, u.data)
        <4> HIDE DEF w
        <4>1. QED
          BY <1>2, <3>2, <3>3, MentionRight
      <3>5. streamed'[a] = u /\ gaps'[a] = w
        <4>1. got[a] = [v |-> u, why |-> w]
          BY <3>1
        <4> HIDE DEF w
        <4>2. got[a].v = u /\ got[a].why = w
          BY <4>1
        <4>3. QED
          BY <2>2, <4>2
      <3>6. gaps'[a] = {} /\ streamed'[a] # Nothing => w = {} /\ u # Nothing
        <4> HIDE DEF w
        <4>1. QED
          BY <3>5
      <3> HIDE DEF w
      <3>7. QED
        BY <3>4, <3>5, <3>6
    <2>6. QED
      BY <2>1, <2>3, <2>4, <2>5
  <1>4. ASSUME NEW i \in DOMAIN Keys PROVE i >= next' /\ Fresh(Keys[i])' /\ Answered(Keys[i])'
    <2>1. PICK a \in Account : a = Keys[i]
      BY DEF Account
    <2>2. Fresh(a)
      BY <1>1 DEF SlotInv
    <2>3. Fresh(a)'
      BY <1>1, <2>2, FreshStays
    <2>4. Answered(a)'
      BY <1>1, <1>3, AnsweredStays
    <2>5. i >= next'
      BY <1>1, <1>2, ReconstructAssumption
    <2>6. QED
      BY <2>1, <2>3, <2>4, <2>5
  <1>5. DOMAIN gaps' = Account
    BY DEF AskStream
  <1>6. QED
    BY <1>1, <1>4, <1>5 DEF SlotInv

-----------------------------------------------------------------------------
\* The block.

\* An account after a step that ends the request.
Ended(a) == Good(a) /\ (AtBlock(a) => gaps[a] # {})
LEMMA EndFits ==
    ASSUME SlotInv, phase \in {"block", "prefix"}, phase' = "done", run' = Nothing,
           ctx' \in [Account -> States \cup {NotLoaded}], label' \in [Account -> Labels],
           DOMAIN gaps' = Account, UNCHANGED <<unproven, next>>,
           \A a \in Account : Ended(a)'
    PROVE  SlotInv'
  <1>1. next' = Len(Keys) + 1 /\ Len(Keys) \in Nat /\ DOMAIN Keys = 1..Len(Keys)
    BY ReconstructAssumption DEF SlotInv
  <1>2. \A i \in DOMAIN Keys : ~(i >= next')
    BY <1>1
  <1>3. QED
    BY <1>2 DEF SlotInv, Ended

\* Relabelled accounts are drifted; the others are as they were.
LEMMA RelabelEnds ==
    ASSUME SlotInv, phase \in {"block", "prefix"}, UNCHANGED <<world, chain, ctx, unproven>>,
           NEW found \in {InContext, Preceded}, Relabel(found, "SameBlock"),
           NEW a \in Account,
           a \in Preceded \ found => gaps'[a] # {},
           a \notin Preceded \ found => gaps'[a] = gaps[a]
    PROVE  Ended(a)'
  <1>1. Good(a)
    BY DEF SlotInv
  <1>2. label'[a] = IF a \in Affected(found) THEN "SameBlock" ELSE label[a]
    BY DEF Relabel
  <1>3. Good(a)'
    <2>1. CASE a \in Affected(found)
      <3>1. PICK st, g : st = ctx[a] /\ g = gaps'[a]
        OBVIOUS
      <3>2. Suits(a, st, "SameBlock", g)
        BY DriftSuits DEF Drifting
      <3>3. ctx'[a] = st /\ label'[a] = "SameBlock" /\ gaps'[a] = g
        BY <1>2, <2>1, <3>1
      <3>4. QED
        BY <3>2, <3>3, GoodStep
    <2>2. CASE a \in Preceded \ found /\ a \notin Affected(found)
      <3>1. PICK st, src, g : st = ctx[a] /\ src = label[a] /\ g = gaps'[a]
        OBVIOUS
      <3>2. Suits(a, st, src, g)
        BY <2>2, <3>1, GapSuits
      <3>3. ctx'[a] = st /\ label'[a] = src /\ gaps'[a] = g
        BY <1>2, <2>2, <3>1
      <3>4. QED
        BY <3>2, <3>3, GoodStep
    <2>3. CASE a \notin Preceded \ found /\ a \notin Affected(found)
      BY <1>1, <1>2, <2>3, GoodStays
    <2>4. QED
      BY <2>1, <2>2, <2>3
  <1>4. AtBlock(a)' => gaps'[a] # {}
    <2>1. SUFFICES ASSUME AtBlock(a)', gaps'[a] = {} PROVE FALSE
      OBVIOUS
    <2>2. Preceded' = Preceded /\ IsToken(a)' = IsToken(a)
      BY DEF Preceded, Earlier, MayWrite, Did, Landed, IsToken, Empty, Kind
    <2>3. a \in Preceded /\ ~IsToken(a) /\ label'[a] \in {"Recorded", "Unchanged"}
      BY <2>1, <2>2 DEF AtBlock, Affected
    <2>4. a \in found
      BY <2>1, <2>3
    <2>5. a \notin Affected(found)
      BY <1>2, <2>3
    <2>6. QED
      BY <1>2, <2>3, <2>4, <2>5 DEF Affected
  <1>5. QED
    BY <1>3, <1>4 DEF Ended

LEMMA Relabelled ==
    ASSUME SlotInv, NEW found, Relabel(found, "SameBlock")
    PROVE  label' \in [Account -> Labels]
  BY DEF SlotInv, Relabel, Labels

LEMMA BlockUnreadFits ==
    ASSUME SlotInv, BlockUnread
    PROVE  SlotInv'
  <1>1. /\ phase = "block" /\ phase' = "done" /\ Relabel(InContext, "SameBlock")
        /\ UNCHANGED <<world, chain, ctx, unproven, next, run>>
        /\ DOMAIN gaps' = Account
        /\ \A a \in Account : gaps'[a] = IF a \in Preceded \ InContext
                                        THEN gaps[a] \cup {"absent in an unread block"} ELSE gaps[a]
    BY DEF BlockUnread
  <1>2. \A a \in Account : Ended(a)'
    BY <1>1, RelabelEnds
  <1>3. run = Nothing /\ ctx \in [Account -> States \cup {NotLoaded}]
    BY <1>1 DEF SlotInv
  <1>4. QED
    BY <1>1, <1>2, <1>3, Relabelled, EndFits

LEMMA LabelOnlyFits ==
    ASSUME SlotInv, LabelOnly
    PROVE  SlotInv'
  <1>1. /\ phase = "block" /\ phase' = "done" /\ Relabel(Preceded, "SameBlock")
        /\ UNCHANGED <<world, chain, ctx, unproven, next, run, gaps>>
    BY DEF LabelOnly
  <1>2. \A a \in Account : Ended(a)'
    BY <1>1, RelabelEnds
  <1>3. run = Nothing /\ ctx \in [Account -> States \cup {NotLoaded}] /\ DOMAIN gaps = Account
    BY <1>1 DEF SlotInv
  <1>4. QED
    BY <1>1, <1>2, <1>3, Relabelled, EndFits

LEMMA NothingBeforeFits ==
    ASSUME SlotInv, NothingBefore
    PROVE  SlotInv'
  <1>1. /\ phase = "block" /\ phase' = "done" /\ Affected(Preceded) = {}
        /\ UNCHANGED <<world, chain, ctx, label, unproven, next, run, gaps>>
    BY DEF NothingBefore
  <1>2. ASSUME NEW a \in Account PROVE Ended(a)'
    <2>1. Good(a)
      BY <1>1 DEF SlotInv
    <2>2. Good(a)'
      BY <1>1, <2>1, GoodStays
    <2>3. Preceded' = Preceded /\ IsToken(a)' = IsToken(a)
      BY <1>1 DEF Preceded, Earlier, MayWrite, Did, Landed, IsToken, Empty, Kind
    <2>4. a \notin Affected(Preceded)
      BY <1>1
    <2>5. ~AtBlock(a)'
      BY <1>1, <2>3, <2>4 DEF AtBlock, Affected
    <2>6. QED
      BY <2>2, <2>5 DEF Ended
  <1>3. run = Nothing /\ ctx \in [Account -> States \cup {NotLoaded}] /\ DOMAIN gaps = Account
        /\ label \in [Account -> Labels]
    BY <1>1 DEF SlotInv
  <1>4. QED
    BY <1>1, <1>2, <1>3, EndFits

\* While the block's prefix is being replayed, what it is replayed for stays.
LEMMA PrefixKept ==
    ASSUME UNCHANGED <<world, chain, ctx, label>>
    PROVE  /\ OwnSlot' = OwnSlot /\ Chosen' = Chosen
           /\ Affected(Preceded)' = Affected(Preceded)
           /\ \A i : DataWrites(i)' = DataWrites(i)
  <1>1. OwnSlot' = OwnSlot /\ Earlier' = Earlier /\ Preceded' = Preceded
    BY DEF OwnSlot, Landed, Earlier, Preceded, MayWrite, Did
  <1>2. Affected(Preceded)' = Affected(Preceded)
    BY <1>1 DEF Affected, IsToken, Empty, Kind
  <1>3. \A C : Touched(C)' = Touched(C)
    BY DEF Touched, Chained, Did, Kind
  <1>4. \A i : DataWrites(i)' = DataWrites(i)
    BY DEF DataWrites, Chained, MayWrite, Did, Kind
  <1>5. \A C : NeedsAll(C)' <=> NeedsAll(C)
    BY <1>1, <1>2, <1>3, <1>4 DEF NeedsAll
  <1>6. Chosen' = Chosen
    BY <1>1, <1>5 DEF Chosen
  <1>7. QED
    BY <1>1, <1>2, <1>4, <1>6

LEMMA PrefixedKept ==
    ASSUME UNCHANGED <<world, chain, ctx, label>>, NEW r, Prefixed(r), run' = r
    PROVE  Prefixed(run)'
  <1>1. /\ Chosen' = Chosen /\ Affected(Preceded)' = Affected(Preceded)
        /\ \A i : DataWrites(i)' = DataWrites(i)
    BY PrefixKept
  <1>2. ASSUME NEW a \in Account PROVE PrefixedWell(run, a)'
    <2>1. Done(run, a)' = Done(r, a)
      BY <1>1 DEF Done, Did
    <2>2. Spoiled(run, a)' <=> Spoiled(r, a)
      BY <1>1 DEF Spoiled
    <2>3. IsProgram(a)' <=> IsProgram(a)
      BY DEF IsProgram, Kind
    <2>4. \A i : Held(a, i)' = Held(a, i)
      BY DEF Held
    <2>5. PrefixedWell(r, a)
      BY DEF Prefixed
    <2>6. QED
      BY <1>1, <2>1, <2>2, <2>3, <2>4, <2>5 DEF PrefixedWell
  <1>3. QED
    BY <1>1, <1>2 DEF Prefixed

\* A step of the block that changes nothing but the prefix.
LEMMA PrefixFits ==
    ASSUME SlotInv, phase \in {"block", "prefix"}, phase' = "prefix",
           UNCHANGED <<world, chain, ctx, label, gaps, unproven, next>>,
           NEW r, Prefixed(r), run' = r
    PROVE  SlotInv'
  <1>1. OwnSlot' = OwnSlot
    BY PrefixKept
  <1>2. ASSUME NEW a \in Account PROVE Good(a)' /\ Shaped(a)'
    <2>1. Good(a) /\ Shaped(a)
      BY DEF SlotInv
    <2>2. QED
      BY <2>1, GoodStays, ShapedStays
  <1>3. Prefixed(run)'
    BY PrefixedKept
  <1>4. QED
    BY <1>1, <1>2, <1>3 DEF SlotInv

\* What the prefix is made of.
LEMMA ChosenIs ==
    /\ Earlier \subseteq Tx /\ Chosen \subseteq Earlier
    /\ \A i \in Earlier : DataWrites(i) \cap Affected(Preceded) # {} => i \in Chosen
  <1>1. Earlier \subseteq Tx /\ Chosen \subseteq Earlier
    BY DEF Earlier, Chosen
  <1>2. ASSUME NEW i \in Earlier, DataWrites(i) \cap Affected(Preceded) # {} PROVE i \in Chosen
    <2>1. ASSUME NEW C \in SUBSET Earlier, NeedsAll(C) PROVE i \in C
      BY <1>2, <2>1 DEF NeedsAll
    <2>2. QED
      BY <2>1 DEF Chosen
  <1>3. QED
    BY <1>1, <1>2

LEMMA StartPrefixFits ==
    ASSUME SlotInv, WrittenInv, StartPrefix
    PROVE  SlotInv'
  <1>1. /\ phase = "block" /\ phase' = "prefix"
        /\ UNCHANGED <<world, chain, ctx, label, unproven, next, gaps>>
    BY DEF StartPrefix
  <1>2. ChainMade /\ Last \in 0..Last /\ ctx \in [Account -> States \cup {NotLoaded}]
    BY <1>1, TxIs DEF WrittenInv, SlotInv
  <1> DEFINE lacking == (Affected(Preceded) \cup Touched(Chosen)) \ InContext
  <1>3. PICK found \in SUBSET {a \in lacking : LastChange(a, Floor) # 0}, foreign \in BOOLEAN :
          run' = [svm |-> [a \in Account |->
                             IF a \in lacking
                             THEN IF a \in found
                                  THEN [data |-> Held(a, LastChange(a, Floor)).data, bal |-> Garbage]
                                  ELSE Held(a, Last)
                             ELSE IF ctx[a] = NotLoaded THEN Gone
                             ELSE ctx[a]],
                  exact |-> foreign /\ found = lacking,
                  foreign |-> foreign,
                  todo |-> Chosen,
                  skipped |-> {},
                  amiss |-> {},
                  inexact |-> IF foreign /\ found = lacking THEN {}
                              ELSE UNION {DataWrites(i) : i \in Chosen}]
    BY DEF StartPrefix
  <1> DEFINE exact == foreign /\ found = lacking
             svm == [a \in Account |->
                       IF a \in lacking
                       THEN IF a \in found
                            THEN [data |-> Held(a, LastChange(a, Floor)).data, bal |-> Garbage]
                            ELSE Held(a, Last)
                       ELSE IF ctx[a] = NotLoaded THEN Gone
                       ELSE ctx[a]]
             inexact == IF foreign /\ found = lacking THEN {}
                        ELSE UNION {DataWrites(i) : i \in Chosen}
             r == [svm |-> svm, exact |-> exact, foreign |-> foreign, todo |-> Chosen,
                   skipped |-> {}, amiss |-> {}, inexact |-> inexact]
  <1>4. run' = r
    BY <1>3
  <1>5. ASSUME NEW a \in Account
        PROVE  /\ svm[a] \in States
               /\ a \in lacking => svm[a] \in {[data |-> Held(a, LastChange(a, Floor)).data, bal |-> Garbage],
                                              Held(a, Last)}
               /\ a \in InContext => svm[a] = ctx[a]
               /\ a \in found => Held(a, LastChange(a, Floor)).data \in Nat
    <2>1. Held(a, Last) \in States
      BY <1>2, StandsHeld
    <2>2. Gone \in States /\ Garbage \in Nat
      BY TxIs DEF Gone, States, Garbage
    <2>3. a \in found => Held(a, LastChange(a, Floor)).data \in Nat
      BY <1>2, LastChangeHolds DEF True, VersionAt
    <2>4. a \in found => [data |-> Held(a, LastChange(a, Floor)).data, bal |-> Garbage] \in States
      BY <2>2, <2>3 DEF States
    <2>5. ctx[a] # NotLoaded => ctx[a] \in States
      BY <1>2
    <2>6. svm[a] = IF a \in lacking
                   THEN IF a \in found
                        THEN [data |-> Held(a, LastChange(a, Floor)).data, bal |-> Garbage]
                        ELSE Held(a, Last)
                   ELSE IF ctx[a] = NotLoaded THEN Gone
                   ELSE ctx[a]
      OBVIOUS
    <2>7. a \in InContext => ctx[a] # NotLoaded /\ a \notin lacking
      BY DEF InContext
    <2> HIDE DEF svm, lacking
    <2>8. svm[a] \in States
      BY <2>1, <2>2, <2>4, <2>5, <2>6
    <2>9. QED
      BY <2>3, <2>6, <2>7, <2>8
  <1>6. DOMAIN svm = Account /\ svm = [a \in Account |-> svm[a]]
    OBVIOUS
  <1>7. inexact \in SUBSET Account
    BY DEF DataWrites
  <1>8. r \in Runs
    <2>1. svm \in [Account -> States]
      <3> HIDE DEF svm
      <3>1. QED
        BY <1>5, <1>6
    <2>2. exact \in BOOLEAN /\ foreign \in BOOLEAN /\ Chosen \in SUBSET Tx
      BY ChosenIs
    <2> HIDE DEF svm, exact, inexact
    <2>3. QED
      BY <1>7, <2>1, <2>2 DEF Runs
  <1>9. /\ r.svm = svm /\ r.exact = exact /\ r.todo = Chosen /\ r.amiss = {} /\ r.inexact = inexact
    OBVIOUS
  <1>10. ~exact => \A i \in Chosen : DataWrites(i) \subseteq inexact
    OBVIOUS
  <1> HIDE DEF r, svm, exact, inexact
  <1>11. ASSUME NEW a \in Account PROVE PrefixedWell(r, a)
    <2>1. Done(r, a) = {}
      BY <1>9 DEF Done
    <2>2. IsProgram(a) /\ a \in Affected(Preceded) => svm[a] # Gone
      <3>1. SUFFICES ASSUME IsProgram(a), a \in Affected(Preceded) PROVE svm[a] # Gone
        OBVIOUS
      <3>2. a \in lacking
        BY <3>1 DEF InContext
      <3>3. svm[a] \in {[data |-> Held(a, LastChange(a, Floor)).data, bal |-> Garbage], Held(a, Last)}
        BY <1>5, <3>2
      <3>4. Garbage # 0
        BY TxIs DEF Garbage
      <3>5. Held(a, Last) # Gone
        <4>1. PICK k \in Tx : Did(a, k) = "write"
          BY <1>2, <3>1, Admitted DEF IsProgram
        <4>2. k <= Last
          BY TxIs
        <4>3. Held(a, Last).data # 0
          BY <1>2, <3>1, <4>1, <4>2, ProgramHeld DEF IsProgram
        <4>4. QED
          BY <4>3 DEF Gone
      <3>6. QED
        BY <3>3, <3>4, <3>5 DEF Gone
    <2>3. ~IsProgram(a) /\ ctx[a] # NotLoaded => svm[a] = ctx[a]
      BY <1>5 DEF InContext
    <2>4. QED
      BY <1>9, <2>1, <2>2, <2>3 DEF PrefixedWell
  <1>12. Prefixed(r)
    BY <1>8, <1>9, <1>10, <1>11 DEF Prefixed
  <1>13. QED
    BY <1>1, <1>4, <1>12, PrefixFits

\* What has run once the next one has.
LEMMA DoneAfter ==
    ASSUME NEW r, NEW r2, Prefixed(r), NEW i \in r.todo, \A j \in r.todo : i <= j,
           r2.todo = r.todo \ {i}, NEW a
    PROVE  /\ Did(a, i) = "none" => Done(r2, a) = Done(r, a)
           /\ Did(a, i) # "none" => Done(r2, a) # {} /\ LastIn(Done(r2, a)) = i
  <1>1. r.todo \subseteq Chosen /\ Chosen \subseteq Tx /\ \A j \in Chosen \ r.todo : j < i
    BY ChosenIs DEF Prefixed
  <1>2. Done(r2, a) = {j \in (Chosen \ r.todo) \cup {i} : Did(a, j) # "none"}
    BY <1>1 DEF Done
  <1>3. Did(a, i) = "none" => Done(r2, a) = Done(r, a)
    BY <1>2 DEF Done
  <1>4. ASSUME Did(a, i) # "none" PROVE Done(r2, a) # {} /\ LastIn(Done(r2, a)) = i
    <2> DEFINE D == Done(r2, a)
               l == LastIn(D)
    <2>1. D \in SUBSET Tx /\ i \in D /\ \A j \in D : j = i \/ j < i
      BY <1>1, <1>2, <1>4
    <2>2. l \in D /\ i <= l
      <3> HIDE DEF D
      <3>1. QED
        BY <2>1, LastInIs
    <2> HIDE DEF D, l
    <2>3. l = i \/ l < i
      BY <2>1, <2>2
    <2>4. i \in Nat /\ l \in Nat
      BY <2>1, <2>2, TxIs
    <2>5. l = i
      BY <2>2, <2>3, <2>4
    <2>6. QED
      BY <2>1, <2>5 DEF D, l
  <1>5. QED
    BY <1>3, <1>4

\* One of them has run: what it names is as it left it, or known not to be.
LEMMA RanOne ==
    ASSUME NEW r, NEW r2, Prefixed(r), NEW i \in r.todo, \A j \in r.todo : i <= j,
           r2 \in Runs, r2.todo = r.todo \ {i}, r2.exact = r.exact,
           r.inexact \subseteq r2.inexact, r.amiss \subseteq r2.amiss,
           \A a \in Account :
               IF Did(a, i) # "none" /\ ~IsProgram(a)
               THEN Spoiled(r2, a) \/ r2.svm[a] = Held(a, i)
               ELSE r2.svm[a] = r.svm[a]
    PROVE  Prefixed(r2)
  <1>1. r2.todo \subseteq Chosen
    BY DEF Prefixed
  <1>2. \A k \in Chosen \ r2.todo, j \in r2.todo : k < j
    <2>1. SUFFICES ASSUME NEW k \in Chosen \ r2.todo, NEW j \in r2.todo PROVE k < j
      OBVIOUS
    <2>2. CASE k = i
      <3>1. j \in r.todo /\ j # i /\ i <= j
        OBVIOUS
      <3>2. r.todo \subseteq Tx
        BY ChosenIs DEF Prefixed
      <3>3. i \in Nat /\ j \in Nat
        BY <3>1, <3>2, TxIs
      <3>4. QED
        BY <2>2, <3>1, <3>3
    <2>3. CASE k # i
      <3>1. k \in Chosen \ r.todo /\ j \in r.todo
        BY <2>3
      <3>2. QED
        BY <3>1 DEF Prefixed
    <2>4. QED
      BY <2>2, <2>3
  <1>3. ~r2.exact => \A k \in Chosen : DataWrites(k) \subseteq r2.inexact
    BY DEF Prefixed
  <1>4. ASSUME NEW a \in Account PROVE PrefixedWell(r2, a)
    <2>1. PrefixedWell(r, a)
      BY DEF Prefixed
    <2>2. Spoiled(r, a) => Spoiled(r2, a)
      BY DEF Spoiled
    <2>3. CASE IsProgram(a)
      BY <2>1, <2>3 DEF PrefixedWell
    <2>4. CASE ~IsProgram(a) /\ Did(a, i) # "none"
      <3>1. Done(r2, a) # {} /\ LastIn(Done(r2, a)) = i
        BY <2>4, DoneAfter
      <3>2. Spoiled(r2, a) \/ r2.svm[a] = Held(a, i)
        BY <2>4
      <3>3. QED
        BY <2>4, <3>1, <3>2 DEF PrefixedWell
    <2>5. CASE ~IsProgram(a) /\ Did(a, i) = "none"
      <3>1. Done(r2, a) = Done(r, a)
        BY <2>5, DoneAfter
      <3>2. r2.svm[a] = r.svm[a]
        BY <2>5
      <3>3. QED
        BY <2>1, <2>2, <2>5, <3>1, <3>2 DEF PrefixedWell
    <2>6. QED
      BY <2>3, <2>4, <2>5
  <1>5. QED
    BY <1>1, <1>2, <1>3, <1>4 DEF Prefixed

\* A chosen transaction runs, goes astray or is skipped.
Named(i) == {a \in Account : Did(a, i) # "none" /\ ~IsProgram(a)}
Rewound(i, a) ==
    [data |-> IF Kind(a) = "token" THEN Held(a, i-1).data ELSE run.svm[a].data,
     bal |-> Held(a, i-1).bal]
LEMMA RunOneIs ==
    ASSUME RunOne
    PROVE  /\ phase = "prefix" /\ run.todo # {}
           /\ UNCHANGED <<world, chain, ctx, label, unproven, next, phase, gaps>>
           /\ LET i == FirstIn(run.todo)
              IN  \/ run' = [run EXCEPT !.todo = @ \ {i},
                                !.svm = [a \in Account |-> IF a \in Named(i) THEN Held(a, i)
                                                          ELSE run.svm[a]]]
                  \/ run' = [run EXCEPT !.todo = @ \ {i},
                                !.svm = [a \in Account |->
                                   IF a \in Named(i)
                                   THEN IF MayWrite(i, a) /\ Stands(Rewound(i, a)) # Gone
                                        THEN [data |-> Garbage, bal |-> Garbage]
                                        ELSE Rewound(i, a)
                                   ELSE run.svm[a]],
                                !.amiss = @ \cup (Named(i) \ IF run.exact THEN {}
                                             ELSE DataWrites(i) \cap Affected(Preceded))]
                  \/ run' = [run EXCEPT !.todo = @ \ {i},
                                !.svm = [a \in Account |-> IF a \in Named(i) THEN Rewound(i, a)
                                                          ELSE run.svm[a]],
                                !.skipped = @ \cup {i},
                                !.inexact = @ \cup DataWrites(i),
                                !.amiss = @ \cup (Named(i) \ (DataWrites(i) \cap Affected(Preceded)))]
  <1>1. UNCHANGED <<world, chain, ctx, label, unproven, next, phase, gaps>>
    BY DEF RunOne
  <1>2. phase = "prefix" /\ run.todo # {}
    BY DEF RunOne
  <1>3. QED
    BY <1>1, <1>2 DEF RunOne, Named, Rewound, FirstIn

LEMMA RunOneFits ==
    ASSUME SlotInv, WrittenInv, RunOne
    PROVE  SlotInv'
  <1>1. /\ phase = "prefix" /\ run.todo # {}
        /\ UNCHANGED <<world, chain, ctx, label, unproven, next, phase, gaps>>
    BY RunOneIs
  <1>2. PICK r : r = run /\ Prefixed(r)
    BY <1>1 DEF SlotInv
  <1>3. PICK i \in r.todo : i = FirstIn(run.todo) /\ \A j \in r.todo : i <= j
    <2>1. r.todo \in SUBSET Nat /\ r.todo # {}
      <3>1. r.todo \subseteq Chosen /\ Tx \subseteq Nat
        BY <1>2, TxIs DEF Prefixed
      <3>2. QED
        BY <1>1, <1>2, <3>1, ChosenIs
    <2>2. \E i \in r.todo : \A j \in r.todo : i <= j
      BY <2>1, FirstOf
    <2>3. FirstIn(r.todo) \in r.todo /\ \A j \in r.todo : FirstIn(r.todo) <= j
      BY <2>2 DEF FirstIn
    <2>4. QED
      BY <1>2, <2>3
  <1>4. /\ ChainMade /\ i \in Tx /\ i \in 0..Last /\ i-1 \in 0..Last /\ Last \in Nat
        /\ i \in Chosen
    <2>1. ChainMade
      BY DEF WrittenInv
    <2>2. i \in Tx /\ i \in Chosen
      BY <1>2, ChosenIs DEF Prefixed
    <2>3. QED
      BY <2>1, <2>2, TxIs
  <1> DEFINE N == Named(i)
             R(a) == Rewound(i, a)
             lost == [data |-> Garbage, bal |-> Garbage]
             labelled == DataWrites(i) \cap Affected(Preceded)
  <1>5. /\ r \in Runs /\ r.svm \in [Account -> States] /\ r.exact \in BOOLEAN /\ r.foreign \in BOOLEAN
        /\ r.todo \in SUBSET Tx /\ r.skipped \in SUBSET Tx
        /\ r.amiss \in SUBSET Account /\ r.inexact \in SUBSET Account
    <2>1. r \in Runs
      BY <1>2 DEF Prefixed
    <2>2. QED
      BY <2>1 DEF Runs
  <1>6. ASSUME NEW a \in Account
        PROVE  Held(a, i) \in States /\ R(a) \in States /\ lost \in States /\ r.svm[a] \in States
    <2>1. Held(a, i) \in States /\ Held(a, i-1) \in States
      BY <1>4, StandsHeld
    <2>2. r.svm[a] \in States
      BY <1>5
    <2>3. Garbage \in Nat
      BY <1>4 DEF Garbage
    <2>4. /\ Held(a, i-1).data \in Nat /\ Held(a, i-1).bal \in Nat /\ r.svm[a].data \in Nat
      BY <2>1, <2>2 DEF States
    <2>5. R(a) = [data |-> IF Kind(a) = "token" THEN Held(a, i-1).data ELSE r.svm[a].data,
                  bal |-> Held(a, i-1).bal]
      BY <1>2 DEF Rewound
    <2>6. R(a) \in States
      BY <2>4, <2>5 DEF States
    <2>7. lost \in States
      BY <2>3 DEF States
    <2>8. QED
      BY <2>1, <2>2, <2>6, <2>7
  <1>7. /\ N \in SUBSET Account /\ DataWrites(i) \in SUBSET Account
        /\ \A a \in Account : Did(a, i) # "none" /\ ~IsProgram(a) <=> a \in N
    BY DEF Named, DataWrites
  <1> DEFINE did == [r EXCEPT !.todo = @ \ {i},
                       !.svm = [a \in Account |-> IF a \in N THEN Held(a, i) ELSE r.svm[a]]]
             astray == [r EXCEPT !.todo = @ \ {i},
                          !.svm = [a \in Account |->
                                     IF a \in N
                                     THEN IF MayWrite(i, a) /\ Stands(R(a)) # Gone THEN lost ELSE R(a)
                                     ELSE r.svm[a]],
                          !.amiss = @ \cup (N \ IF r.exact THEN {} ELSE labelled)]
             skipped == [r EXCEPT !.todo = @ \ {i},
                           !.svm = [a \in Account |-> IF a \in N THEN R(a) ELSE r.svm[a]],
                           !.skipped = @ \cup {i},
                           !.inexact = @ \cup DataWrites(i),
                           !.amiss = @ \cup (N \ labelled)]
  <1>8. run' \in {did, astray, skipped}
    BY <1>2, <1>3, RunOneIs
  <1>9. PICK r2 : r2 = run'
    OBVIOUS
  <1> HIDE DEF N, R, lost, labelled
  <1>10. CASE r2 = did
    <2> DEFINE svm == [a \in Account |-> IF a \in N THEN Held(a, i) ELSE r.svm[a]]
    <2>1. svm \in [Account -> States]
      BY <1>6
    <2>2. /\ r2.todo = r.todo \ {i} /\ r2.exact = r.exact /\ r2.foreign = r.foreign
          /\ r2.svm = svm /\ r2.skipped = r.skipped /\ r2.amiss = r.amiss /\ r2.inexact = r.inexact
          /\ r2 \in Runs
      <3> HIDE DEF svm
      <3>1. r2 = [r EXCEPT !.todo = @ \ {i}, !.svm = svm]
        BY <1>10 DEF svm
      <3> HIDE DEF did
      <3>2. QED
        BY <1>5, <2>1, <3>1 DEF Runs
    <2>3. ASSUME NEW a \in Account
          PROVE  IF Did(a, i) # "none" /\ ~IsProgram(a)
                 THEN Spoiled(r2, a) \/ r2.svm[a] = Held(a, i)
                 ELSE r2.svm[a] = r.svm[a]
      BY <1>7, <2>2
    <2> HIDE DEF did, svm
    <2>4. Prefixed(r2)
      BY <1>2, <1>3, <2>2, <2>3, RanOne
    <2>5. QED
      BY <1>1, <1>9, <2>4, PrefixFits
  <1>11. CASE r2 = astray
    <2> DEFINE svm == [a \in Account |->
                         IF a \in N
                         THEN IF MayWrite(i, a) /\ Stands(R(a)) # Gone THEN lost ELSE R(a)
                         ELSE r.svm[a]]
               amiss == r.amiss \cup (N \ IF r.exact THEN {} ELSE labelled)
    <2>1. svm \in [Account -> States] /\ amiss \in SUBSET Account
      BY <1>5, <1>6, <1>7
    <2>2. /\ r2.todo = r.todo \ {i} /\ r2.exact = r.exact /\ r2.foreign = r.foreign
          /\ r2.svm = svm /\ r2.skipped = r.skipped /\ r2.amiss = amiss /\ r2.inexact = r.inexact
          /\ r2 \in Runs
      <3> HIDE DEF svm
      <3>1. r2 = [r EXCEPT !.todo = @ \ {i}, !.svm = svm,
                      !.amiss = @ \cup (N \ IF r.exact THEN {} ELSE labelled)]
        BY <1>11 DEF svm
      <3> HIDE DEF astray
      <3>2. r2 = [r EXCEPT !.todo = @ \ {i}, !.svm = svm, !.amiss = amiss]
        BY <1>5, <3>1
      <3> HIDE DEF amiss
      <3>3. QED
        BY <1>5, <2>1, <3>2 DEF Runs
    <2>3. ASSUME NEW a \in Account
          PROVE  IF Did(a, i) # "none" /\ ~IsProgram(a)
                 THEN Spoiled(r2, a) \/ r2.svm[a] = Held(a, i)
                 ELSE r2.svm[a] = r.svm[a]
      <3>1. CASE a \notin N
        BY <1>7, <2>2, <3>1
      <3>2. CASE a \in N
        <4>1. CASE a \in amiss
          BY <1>7, <2>2, <3>2, <4>1 DEF Spoiled
        <4>2. CASE a \notin amiss
          <5>1. ~r.exact /\ a \in labelled
            BY <3>2, <4>2
          <5>2. DataWrites(i) \subseteq r.inexact
            BY <1>2, <1>4, <5>1 DEF Prefixed
          <5>3. a \in r2.inexact /\ a \in Affected(Preceded)
            BY <2>2, <5>1, <5>2 DEF labelled
          <5>4. QED
            BY <1>7, <3>2, <5>3 DEF Spoiled
        <4>3. QED
          BY <4>1, <4>2
      <3>3. QED
        BY <3>1, <3>2
    <2>4. r.amiss \subseteq r2.amiss
      BY <2>2
    <2> HIDE DEF astray, svm, amiss
    <2>5. Prefixed(r2)
      BY <1>2, <1>3, <2>2, <2>3, <2>4, RanOne
    <2>6. QED
      BY <1>1, <1>9, <2>5, PrefixFits
  <1>12. CASE r2 = skipped
    <2> DEFINE svm == [a \in Account |-> IF a \in N THEN R(a) ELSE r.svm[a]]
               amiss == r.amiss \cup (N \ labelled)
               inexact == r.inexact \cup DataWrites(i)
               over == r.skipped \cup {i}
    <2>1. /\ svm \in [Account -> States] /\ amiss \in SUBSET Account /\ inexact \in SUBSET Account
          /\ over \in SUBSET Tx
      BY <1>4, <1>5, <1>6, <1>7
    <2>2. /\ r2.todo = r.todo \ {i} /\ r2.exact = r.exact /\ r2.foreign = r.foreign
          /\ r2.svm = svm /\ r2.skipped = over /\ r2.amiss = amiss /\ r2.inexact = inexact
          /\ r2 \in Runs
      <3> HIDE DEF svm
      <3>1. r2 = [r EXCEPT !.todo = @ \ {i}, !.svm = svm, !.skipped = @ \cup {i},
                      !.inexact = @ \cup DataWrites(i), !.amiss = @ \cup (N \ labelled)]
        BY <1>12 DEF svm
      <3> HIDE DEF skipped
      <3>2. r2 = [r EXCEPT !.todo = @ \ {i}, !.svm = svm, !.skipped = over, !.inexact = inexact,
                      !.amiss = amiss]
        BY <1>5, <3>1
      <3> HIDE DEF amiss, inexact, over
      <3>3. QED
        BY <1>5, <2>1, <3>2 DEF Runs
    <2>3. ASSUME NEW a \in Account
          PROVE  IF Did(a, i) # "none" /\ ~IsProgram(a)
                 THEN Spoiled(r2, a) \/ r2.svm[a] = Held(a, i)
                 ELSE r2.svm[a] = r.svm[a]
      <3>1. CASE a \notin N
        BY <1>7, <2>2, <3>1
      <3>2. CASE a \in N
        <4>1. a \in amiss \/ (a \in inexact /\ a \in Affected(Preceded))
          BY <3>2 DEF labelled
        <4>2. QED
          BY <1>7, <2>2, <3>2, <4>1 DEF Spoiled
      <3>3. QED
        BY <3>1, <3>2
    <2>4. r.amiss \subseteq r2.amiss /\ r.inexact \subseteq r2.inexact
      BY <2>2
    <2> HIDE DEF skipped, svm, amiss, inexact, over
    <2>5. Prefixed(r2)
      BY <1>2, <1>3, <2>2, <2>3, <2>4, RanOne
    <2>6. QED
      BY <1>1, <1>9, <2>5, PrefixFits
  <1>13. QED
    BY <1>8, <1>9, <1>10, <1>11, <1>12

\* An account as the block's transactions left it is what the transaction
\* saw, if none of those that followed writes it.
LEMMA PrefixHolds ==
    ASSUME ChainMade, NEW a \in Account, NEW D \in SUBSET Earlier, D # {},
           \A k \in Earlier : LastIn(D) < k => Did(a, k) \notin Writable
    PROVE  Held(a, LastIn(D)) = Pre(a)
  <1>1. PICK d : d = LastIn(D)
    OBVIOUS
  <1>2. d \in D /\ d \in Earlier /\ d \in Tx /\ SlotOf[d] = Landed /\ d < world.target
    <2>1. D \in SUBSET Tx
      BY ChosenIs
    <2>2. d \in D
      BY <1>1, <2>1, LastInIs
    <2>3. QED
      BY <2>1, <2>2 DEF Earlier
  <1>3. /\ world.target \in Tx /\ world.target - 1 \in 0..Last /\ d \in 0..Last /\ Last \in Nat
        /\ d <= world.target - 1
    BY <1>2, AskedIs, TxIs
  <1>4. ASSUME NEW k \in Tx, d < k, k <= world.target - 1 PROVE Did(a, k) \notin Writable
    <2>1. d <= k /\ k <= world.target /\ k < world.target
      BY <1>2, <1>3, <1>4, TxIs
    <2>2. SlotOf[d] <= SlotOf[k] /\ SlotOf[k] <= SlotOf[world.target]
      BY <1>2, <1>3, <2>1, TxIs
    <2>3. SlotOf[k] \in Nat /\ SlotOf[d] = SlotOf[world.target] /\ SlotOf[d] \in Nat
      BY <1>2, TxIs DEF Landed
    <2>4. SlotOf[k] = Landed
      BY <2>2, <2>3 DEF Landed
    <2>5. k \in Earlier
      BY <2>1, <2>4 DEF Earlier
    <2>6. QED
      BY <1>1, <1>4, <2>5
  <1>5. Held(a, d) = Held(a, world.target - 1)
    BY <1>3, <1>4, Kept
  <1>6. QED
    BY <1>1, <1>5 DEF Pre

\* An account of the block's prefix at its end.
LEMMA PrefixEnds ==
    ASSUME SlotInv, WrittenInv, phase = "prefix", run.todo = {},
           NEW a \in Account, ~IsProgram(a), ~Spoiled(run, a)
    PROVE  /\ run.svm[a] = ctx[a] \/ ctx[a] = NotLoaded \/ run.svm[a] = Pre(a) \/ Overtaken(a)
           /\ a \in Affected(Preceded) => run.svm[a] = Pre(a) \/ Overtaken(a)
  <1> DEFINE D == Done(run, a)
  <1>1. /\ Prefixed(run) /\ PrefixedWell(run, a) /\ ChainMade
    BY DEF SlotInv, Prefixed, WrittenInv
  <1>2. D = {i \in Chosen : Did(a, i) # "none"} /\ D \in SUBSET Earlier
    BY ChosenIs DEF Done
  <1>3. D # {} => run.svm[a] = Pre(a) \/ Overtaken(a)
    <2>1. SUFFICES ASSUME D # {}, ~Overtaken(a) PROVE run.svm[a] = Pre(a)
      OBVIOUS
    <2>2. LastIn(D) \in D /\ \A j \in D : j <= LastIn(D)
      <3> HIDE DEF D
      <3>1. QED
        BY <1>2, <2>1, ChosenIs, LastInIs
    <2>3. ASSUME NEW k \in Earlier, LastIn(D) < k PROVE Did(a, k) \notin Writable
      <3>1. SUFFICES ASSUME Did(a, k) \in Writable PROVE FALSE
        OBVIOUS
      <3>2. k \in Tx /\ LastIn(D) \in Tx
        BY <1>2, <2>2, ChosenIs
      <3>3. k \in Nat /\ LastIn(D) \in Nat
        BY <3>2, TxIs
      <3>4. k \notin D
        <4> HIDE DEF D
        <4>1. QED
          BY <2>2, <2>3, <3>3
      <3>5. k \notin Chosen
        BY <1>2, <3>1, <3>4 DEF Writable, Changes
      <3>6. LastIn(D) \in Chosen /\ Did(a, LastIn(D)) # "none"
        <4>1. PICK l : l = LastIn(D)
          OBVIOUS
        <4>2. l \in D
          BY <2>2, <4>1
        <4>3. l \in Chosen /\ Did(a, l) # "none"
          BY <1>2, <4>2
        <4>4. QED
          BY <4>1, <4>3
      <3> HIDE DEF D
      <3>7. QED
        BY <2>1, <2>3, <3>1, <3>5, <3>6 DEF Overtaken, MayWrite
    <2> HIDE DEF D
    <2>4. Held(a, LastIn(D)) = Pre(a)
      BY <1>1, <1>2, <2>1, <2>3, PrefixHolds
    <2>5. QED
      BY <1>1, <2>1, <2>4 DEF PrefixedWell, D
  <1>4. D = {} => run.svm[a] = ctx[a] \/ ctx[a] = NotLoaded
    BY <1>1 DEF PrefixedWell
  <1>5. ASSUME a \in Affected(Preceded) PROVE D # {}
    <2>1. PICK i \in Earlier : MayWrite(i, a)
      BY <1>5 DEF Affected, Preceded
    <2>2. Kind(a) \in {"data", "curve"}
      <3>1. label[a] \in {"Recorded", "Unchanged"} /\ ~IsToken(a)
        BY <1>5 DEF Affected
      <3>2. Shaped(a) /\ OwnSlot
        BY DEF SlotInv
      <3>3. Kind(a) # "signer" /\ Kind(a) # "token"
        BY <3>1, <3>2 DEF Shaped, IsSigner
      <3>4. QED
        BY <1>1, <3>3, Admitted DEF IsProgram
    <2>3. Did(a, i) # "none"
      BY <2>1 DEF MayWrite, Writable, Changes
    <2>4. a \in DataWrites(i)
      BY <2>1, <2>2, <2>3 DEF DataWrites, Chained
    <2>5. i \in Chosen
      BY <1>5, <2>4, ChosenIs
    <2>6. QED
      BY <1>2, <2>3, <2>5
  <1> HIDE DEF D
  <1>6. QED
    BY <1>3, <1>4, <1>5

\* What Bake makes of one account, no longer naming the transactions.
Baked(a) ==
    /\ ctx'[a] = IF a \in InContext /\ run.svm[a] # Gone THEN run.svm[a] ELSE ctx[a]
    /\ label'[a] = IF a \notin Affected(Preceded) THEN label[a]
                   ELSE IF a \in run.inexact THEN "BlockPrefixInexact" ELSE "BlockPrefix"
    /\ gaps'[a] = {} => /\ gaps[a] = {} /\ a \notin run.amiss /\ ~Overtaken(a)
                        /\ (a \in InContext => run.svm[a] # Gone)
                        /\ (a \notin InContext => run.svm[a] = Gone)
LEMMA BakeIs ==
    ASSUME Bake
    PROVE  /\ phase = "prefix" /\ run.todo = {} /\ phase' = "done" /\ run' = Nothing
           /\ UNCHANGED <<world, chain, unproven, next>>
           /\ IF run.skipped = Chosen
              THEN Relabel(Preceded, "SameBlock") /\ UNCHANGED <<ctx, gaps>>
              ELSE /\ \A a \in Account : Baked(a)
                   /\ DOMAIN ctx' = Account /\ DOMAIN label' = Account /\ DOMAIN gaps' = Account
                   /\ ctx' = [a \in Account |-> ctx'[a]] /\ label' = [a \in Account |-> label'[a]]
  <1>1. /\ phase = "prefix" /\ run.todo = {} /\ phase' = "done" /\ run' = Nothing
        /\ UNCHANGED <<world, chain, unproven, next>>
    BY DEF Bake
  <1>2. CASE run.skipped = Chosen
    BY <1>1, <1>2 DEF Bake
  <1>3. CASE run.skipped # Chosen
    <2>1. /\ ctx' = [a \in Account |-> IF a \in InContext /\ run.svm[a] # Gone THEN run.svm[a]
                                       ELSE ctx[a]]
          /\ label' = [a \in Account |->
                  IF a \notin Affected(Preceded) THEN label[a]
                  ELSE IF a \in run.inexact THEN "BlockPrefixInexact" ELSE "BlockPrefix"]
          /\ gaps' = [a \in Account |->
                  gaps[a] \cup Because(a \in run.amiss, "inputs amiss")
                          \cup Because(a \in InContext /\ run.svm[a] = Gone, "closed in the block")
                          \cup Because(a \notin InContext /\ run.svm[a] # Gone, "made in the block")
                          \cup Because(Overtaken(a), "balance overtaken")]
      BY <1>3 DEF Bake
    <2>2. ASSUME NEW a \in Account PROVE Baked(a)
      <3>1. gaps'[a] = gaps[a] \cup Because(a \in run.amiss, "inputs amiss")
                         \cup Because(a \in InContext /\ run.svm[a] = Gone, "closed in the block")
                         \cup Because(a \notin InContext /\ run.svm[a] # Gone, "made in the block")
                         \cup Because(Overtaken(a), "balance overtaken")
        BY <2>1
      <3>2. gaps'[a] = {} => /\ gaps[a] = {} /\ a \notin run.amiss /\ ~Overtaken(a)
                            /\ (a \in InContext => run.svm[a] # Gone)
                            /\ (a \notin InContext => run.svm[a] = Gone)
        BY <3>1 DEF Because
      <3>3. QED
        BY <2>1, <3>2 DEF Baked
    <2>3. QED
      BY <1>1, <1>3, <2>1, <2>2
  <1>4. QED
    BY <1>2, <1>3

\* What is baked in is what the transaction saw, or known to be weaker.
LEMMA BakedEnds ==
    ASSUME SlotInv, WrittenInv, phase = "prefix", run.todo = {},
           UNCHANGED <<world, chain, unproven>>, NEW a \in Account, Baked(a)
    PROVE  Ended(a)'
  <1>1. /\ ChainMade /\ OwnSlot /\ Good(a) /\ Shaped(a) /\ PrefixedWell(run, a)
        /\ run \in Runs /\ ctx \in [Account -> States \cup {NotLoaded}]
    BY DEF WrittenInv, SlotInv, Prefixed
  <1>2. PICK st, src, g : st = ctx'[a] /\ src = label'[a] /\ g = gaps'[a]
    OBVIOUS
  <1>3. /\ st = IF a \in InContext /\ run.svm[a] # Gone THEN run.svm[a] ELSE ctx[a]
        /\ src = IF a \notin Affected(Preceded) THEN label[a]
                 ELSE IF a \in run.inexact THEN "BlockPrefixInexact" ELSE "BlockPrefix"
        /\ g = {} => /\ gaps[a] = {} /\ a \notin run.amiss /\ ~Overtaken(a)
                     /\ (a \in InContext => run.svm[a] # Gone)
                     /\ (a \notin InContext => run.svm[a] = Gone)
    BY <1>2 DEF Baked
  <1>4. Pre(a) \in States /\ Stands(Pre(a)) = Pre(a)
    BY <1>1, MetaIs
  <1>5. Stands(NotLoaded) = Gone
    BY DEF Stands
  <1>6. a \in unproven' \/ Suits(a, st, src, g)
    <2>1. CASE a \in unproven \/ g # {}
      BY <2>1, GapSuits
    <2>2. CASE a \notin unproven /\ g = {} /\ a \in Affected(Preceded) /\ a \in run.inexact
      <3>1. src \in Drifting
        BY <1>3, <2>2 DEF Drifting
      <3>2. QED
        BY <3>1, DriftSuits
    <2>3. CASE a \notin unproven /\ g = {} /\ a \in Affected(Preceded) /\ a \notin run.inexact
      <3>1. src = "BlockPrefix"
        BY <1>3, <2>3
      <3>2. ~IsProgram(a)
        <4>1. SUFFICES ASSUME IsProgram(a) PROVE FALSE
          OBVIOUS
        <4>2. run.svm[a] # Gone /\ a \notin InContext
          BY <1>1, <2>3, <4>1 DEF PrefixedWell, InContext
        <4>3. QED
          BY <1>3, <2>3, <4>2
      <3>3. ~Spoiled(run, a)
        BY <1>3, <2>3 DEF Spoiled
      <3>4. run.svm[a] = Pre(a)
        BY <1>3, <2>3, <3>2, <3>3, PrefixEnds
      <3>5. a \notin InContext => ctx[a] = NotLoaded
        BY <3>2 DEF InContext
      <3>6. Stands(st) = Pre(a)
        <4>1. CASE a \in InContext
          BY <1>3, <1>4, <2>3, <3>4, <4>1
        <4>2. CASE a \notin InContext
          BY <1>3, <1>5, <2>3, <3>4, <3>5, <4>2
        <4>3. QED
          BY <4>1, <4>2
      <3>7. QED
        BY <1>1, <3>1, <3>6, PreSuits
    <2>4. CASE a \notin unproven /\ g = {} /\ a \notin Affected(Preceded)
      <3>1. src = label[a] /\ gaps[a] = {}
        BY <1>3, <2>4
      <3>2. Suits(a, ctx[a], src, g)
        BY <1>1, <2>4, <3>1 DEF Good
      <3>3. CASE st = ctx[a]
        BY <3>2, <3>3
      <3>4. CASE st # ctx[a]
        <4>1. a \in InContext /\ st = run.svm[a]
          BY <1>3, <3>4
        <4>2. ctx[a] # NotLoaded /\ ~IsProgram(a)
          BY <4>1 DEF InContext
        <4>3. ~Spoiled(run, a)
          BY <1>3, <2>4 DEF Spoiled
        <4>4. run.svm[a] = Pre(a)
          BY <1>3, <2>4, <3>4, <4>1, <4>2, <4>3, PrefixEnds
        <4>5. CASE src # "EventLog"
          BY <1>1, <1>4, <4>1, <4>4, <4>5, PreSuits
        <4>6. CASE src = "EventLog"
          <5>1. Moments = {world.target - 1}
            BY <1>1 DEF Moments
          <5>2. st.data = Held(a, world.target - 1).data
            BY <4>1, <4>4 DEF Pre
          <5>3. SourceOf(a, src, st) = "EventLog"
            BY <4>6 DEF SourceOf
          <5>4. QED
            BY <5>1, <5>2, <5>3 DEF Suits
        <4>7. QED
          BY <4>5, <4>6
      <3>5. QED
        BY <3>3, <3>4
    <2>5. QED
      BY <2>1, <2>2, <2>3, <2>4
  <1>7. Good(a)'
    BY <1>2, <1>6, GoodStep
  <1>8. AtBlock(a)' => gaps'[a] # {}
    <2>1. SUFFICES ASSUME AtBlock(a)', gaps'[a] = {} PROVE FALSE
      OBVIOUS
    <2>2. Preceded' = Preceded /\ IsToken(a)' = (Kind(a) = "token" /\ st # NotLoaded /\ st.data # 0)
      BY <1>2 DEF Preceded, Earlier, MayWrite, Did, Landed, IsToken, Empty, Kind
    <2>3. /\ a \in Preceded /\ src \in {"Recorded", "Unchanged"}
          /\ ~(Kind(a) = "token" /\ st # NotLoaded /\ st.data # 0)
      BY <1>2, <2>1, <2>2 DEF AtBlock, Affected
    <2>4. a \notin Affected(Preceded) /\ src = label[a]
      BY <1>3, <2>3
    <2>5. Kind(a) = "token" /\ ctx[a] # NotLoaded /\ ctx[a].data # 0
      BY <2>3, <2>4 DEF Affected, IsToken, Empty
    <2>6. st # ctx[a]
      BY <2>3, <2>5
    <2>7. a \in InContext /\ st = run.svm[a] /\ st # Gone
      BY <1>3, <2>6
    <2>8. ~IsProgram(a) /\ ~Spoiled(run, a) /\ ~Overtaken(a)
      BY <1>2, <1>3, <2>1, <2>4, <2>5 DEF IsProgram, Spoiled
    <2>9. st = Pre(a)
      BY <2>5, <2>6, <2>7, <2>8, PrefixEnds
    <2>10. st \in States /\ st.data # 0
      BY <1>1, <1>4, <2>5, <2>7, <2>9, MetaIs
    <2>11. st # NotLoaded
      BY <2>10, ReconstructAssumption
    <2>12. QED
      BY <2>3, <2>5, <2>10, <2>11
  <1>9. QED
    BY <1>7, <1>8 DEF Ended

LEMMA BakeFits ==
    ASSUME SlotInv, WrittenInv, Bake
    PROVE  SlotInv'
  <1>1. /\ phase = "prefix" /\ run.todo = {} /\ phase' = "done" /\ run' = Nothing
        /\ UNCHANGED <<world, chain, unproven, next>>
    BY BakeIs
  <1>2. /\ ctx \in [Account -> States \cup {NotLoaded}] /\ label \in [Account -> Labels]
        /\ DOMAIN gaps = Account /\ run.svm \in [Account -> States]
    BY <1>1 DEF SlotInv, Prefixed, Runs
  <1>3. CASE run.skipped = Chosen
    <2>1. Relabel(Preceded, "SameBlock") /\ UNCHANGED <<ctx, gaps>>
      BY <1>3, BakeIs
    <2>2. \A a \in Account : Ended(a)'
      BY <1>1, <2>1, RelabelEnds
    <2>3. QED
      BY <1>1, <1>2, <2>1, <2>2, Relabelled, EndFits
  <1>4. CASE run.skipped # Chosen
    <2>1. /\ \A a \in Account : Baked(a)
          /\ DOMAIN gaps' = Account
          /\ ctx' = [a \in Account |-> ctx'[a]] /\ label' = [a \in Account |-> label'[a]]
      BY <1>4, BakeIs
    <2>2. \A a \in Account : Ended(a)'
      BY <1>1, <2>1, BakedEnds
    <2>3. ASSUME NEW a \in Account
          PROVE  ctx'[a] \in States \cup {NotLoaded} /\ label'[a] \in Labels
      BY <1>2, <2>1 DEF Baked, Labels
    <2>4. /\ ctx' \in [Account -> States \cup {NotLoaded}] /\ label' \in [Account -> Labels]
      BY <2>1, <2>3
    <2>5. QED
      BY <1>1, <2>1, <2>2, <2>4, EndFits
  <1>5. QED
    BY <1>3, <1>4

-----------------------------------------------------------------------------
\* The request's start: with nothing to look at, the record has to do.
LEMMA OffEnds ==
    ASSUME Init, ChainMade, Off, NEW a \in Account
    PROVE  Ended(a)
  <1>1. /\ ctx[a] = Loaded(a) /\ label[a] = "none" /\ unproven = {}
        /\ gaps[a] = Because(Off /\ OwnSlot /\ Empty(a) /\ HadBytes(a), "closed since")
    BY DEF Init
  <1>2. LoadedWell(a)
    BY LoadedIs
  <1>3. ~AtBlock(a)
    BY <1>1 DEF AtBlock, Affected
  <1>4. Suits(a, ctx[a], label[a], gaps[a])
    <2>1. CASE SourceOf(a, label[a], ctx[a]) \in Drifting \cup {"ProgramUnchecked"} \/ gaps[a] # {}
      BY <2>1 DEF Suits
    <2>2. CASE ~(SourceOf(a, label[a], ctx[a]) \in Drifting \cup {"ProgramUnchecked"} \/ gaps[a] # {})
      <3>1. OwnSlot /\ ctx[a] # NotLoaded /\ ctx[a].data = 0 /\ ~IsProgram(a)
        BY <1>1, <2>2 DEF SourceOf, Drifting
      <3>2. ~HadBytes(a)
        BY <1>1, <2>2, <3>1 DEF Because, Empty
      <3>3. Pre(a).data = 0
        BY <3>1, <3>2 DEF HadBytes, Moments, Pre
      <3>4. Loaded(a) \in States /\ Loaded(a).bal = Pre(a).bal /\ Loaded(a).data = 0
        BY <1>1, <1>2, <3>1, MetaIs DEF LoadedWell, IsProgram
      <3>5. Loaded(a) = Pre(a)
        BY <3>3, <3>4, MetaIs DEF States
      <3>6. Stands(ctx[a]) = Pre(a)
        BY <1>1, <3>5, MetaIs
      <3>7. QED
        BY <1>1, <3>1, <3>6, PreSuits
    <2>3. QED
      BY <2>1, <2>2
  <1>5. QED
    BY <1>3, <1>4 DEF Ended, Good

LEMMA SlotInit == ASSUME Init PROVE SlotInv
  <1>1. ChainMade /\ world \in Worlds
    BY DEF Init, ChainMade
  <1>2. /\ ctx = [a \in Account |-> Loaded(a)] /\ label = [a \in Account |-> "none"]
        /\ unproven = {} /\ phase = (IF Off THEN "done" ELSE "stream") /\ next = 1 /\ run = Nothing
        /\ DOMAIN gaps = Account
    BY DEF Init
  <1>3. ctx \in [Account -> States \cup {NotLoaded}]
    BY <1>1, <1>2, LoadedIs DEF LoadedWell
  <1>4. label \in [Account -> Labels] /\ \A a \in Account : Fresh(a)
    BY <1>2 DEF Labels, Fresh
  <1>5. \A i \in DOMAIN Keys : label[Keys[i]] = "none"
    BY <1>2 DEF Account
  <1>6. Off => \A a \in Account : Good(a) /\ (AtBlock(a) => gaps[a] # {})
    BY <1>1, OffEnds DEF Ended
  <1>7. QED
    BY <1>2, <1>3, <1>4, <1>5, <1>6 DEF SlotInv

LEMMA SlotStays ==
    ASSUME SlotInv, UNCHANGED vars
    PROVE  SlotInv'
  <1>1. UNCHANGED <<world, chain, ctx, label, unproven, streamed, phase, next, run, gaps>>
    BY DEF vars
  <1>2. ASSUME NEW a \in Account
        PROVE  /\ Good(a) => Good(a)'
               /\ Shaped(a) => Shaped(a)'
               /\ Fresh(a) => Fresh(a)'
               /\ Answered(a) => Answered(a)'
    <2>1. Good(a) => Good(a)'
      BY <1>1, GoodStays
    <2>2. Shaped(a) => Shaped(a)'
      BY <1>1, ShapedStays
    <2>3. Fresh(a) => Fresh(a)'
      BY <1>1, FreshStays
    <2>4. ASSUME Answered(a) PROVE Answered(a)'
      <3>1. gaps'[a] = {} /\ streamed'[a] # Nothing => StreamRight(a, streamed'[a].data)
        BY <1>1, <2>4 DEF Answered
      <3>2. QED
        BY <1>1, <3>1, AnsweredStays
    <2>5. QED
      BY <2>1, <2>2, <2>3, <2>4
  <1>3. /\ ctx' \in [Account -> States \cup {NotLoaded}] /\ label' \in [Account -> Labels]
        /\ DOMAIN gaps' = Account /\ unproven' \subseteq Account
        /\ phase' \in {"stream", "keys", "block", "prefix", "done"}
        /\ \A i \in DOMAIN Keys : i >= next' => label'[Keys[i]] = "none"
    BY <1>1 DEF SlotInv
  <1>4. phase = "stream" => \A a \in Account : Fresh(a)'
    BY <1>2 DEF SlotInv
  <1>5. ASSUME phase = "keys", NEW i \in DOMAIN Keys
        PROVE  IF i >= next' THEN Fresh(Keys[i])' /\ Answered(Keys[i])'
               ELSE Good(Keys[i])' /\ Shaped(Keys[i])'
    <2>1. PICK a \in Account : a = Keys[i]
      BY DEF Account
    <2>2. IF i >= next THEN Fresh(a) /\ Answered(a) ELSE Good(a) /\ Shaped(a)
      BY <1>5, <2>1 DEF SlotInv
    <2>3. IF i >= next' THEN Fresh(a)' /\ Answered(a)' ELSE Good(a)' /\ Shaped(a)'
      BY <1>1, <1>2, <2>2
    <2>4. QED
      BY <2>1, <2>3
  <1>6. phase \in {"block", "prefix", "done"} => \A a \in Account : Good(a)'
    BY <1>2 DEF SlotInv
  <1>7. phase \in {"block", "prefix"} =>
           OwnSlot' /\ next' = Len(Keys) + 1 /\ \A a \in Account : Shaped(a)'
    <2>1. OwnSlot' = OwnSlot
      BY <1>1, PrefixKept
    <2>2. QED
      BY <1>1, <1>2, <2>1 DEF SlotInv
  <1>8. ASSUME phase = "done", NEW a \in Account PROVE AtBlock(a)' => gaps'[a] # {}
    <2>1. AtBlock(a)' => AtBlock(a)
      BY <1>1, PrefixKept DEF AtBlock
    <2>2. QED
      BY <1>1, <1>8, <2>1 DEF SlotInv
  <1>9. IF phase = "prefix" THEN Prefixed(run)' ELSE run' = Nothing
    <2>1. CASE phase = "prefix"
      <3>1. PICK r : r = run
        OBVIOUS
      <3>2. Prefixed(r) /\ run' = r
        BY <1>1, <2>1, <3>1 DEF SlotInv
      <3>3. QED
        BY <1>1, <2>1, <3>2, PrefixedKept
    <2>2. CASE phase # "prefix"
      BY <1>1, <2>2 DEF SlotInv
    <2>3. QED
      BY <2>1, <2>2
  <1>10. phase' = phase
    BY <1>1
  <1>11. QED
    BY <1>3, <1>4, <1>5, <1>6, <1>7, <1>8, <1>9, <1>10 DEF SlotInv

LEMMA SlotStep == SlotInv /\ WrittenInv /\ [Next]_vars => SlotInv'
  <1>1. SUFFICES ASSUME SlotInv, WrittenInv, [Next]_vars PROVE SlotInv'
    OBVIOUS
  <1>2. CASE UNCHANGED vars
    BY <1>2, <1>1, SlotStays
  <1>3. CASE Next
    BY <1>1, <1>3, AskStreamFits, KeyFits, BlockUnreadFits, NothingBeforeFits, LabelOnlyFits,
       StartPrefixFits, RunOneFits, BakeFits DEF Next
  <1>4. QED
    BY <1>1, <1>2, <1>3

LEMMA SlotSound ==
    ASSUME SlotInv, WrittenInv, BudgetInv
    PROVE  SlotExact
  <1>1. TypeOK
    <2>1. run # Nothing <=> phase = "prefix"
      <3>1. Nothing \notin Runs
        BY ReconstructAssumption
      <3>2. QED
        BY <3>1 DEF SlotInv, Prefixed
    <2>2. next \in 1..Len(Keys)+1 /\ (phase = "keys" => next <= Len(Keys))
      BY DEF WrittenInv
    <2>3. left \in 0..world.budget
      BY DEF BudgetInv
    <2>4. /\ phase \in {"stream", "keys", "block", "prefix", "done"} /\ label \in [Account -> Labels]
          /\ unproven \subseteq Account
          /\ \A i \in DOMAIN Keys : i >= next => label[Keys[i]] = "none"
      BY DEF SlotInv
    <2>5. QED
      BY <2>1, <2>2, <2>3, <2>4 DEF TypeOK
  <1>2. ASSUME phase = "done" PROVE VouchedIsExact
    <2>1. ASSUME NEW a \in Account, Vouched(a), gaps[a] = {} PROVE Exact(a)
      <3>1. Good(a) /\ ~AtBlock(a)
        BY <1>2, <2>1 DEF SlotInv
      <3>2. QED
        BY <2>1, <3>1, GoodIsExact
    <2>2. QED
      BY <2>1 DEF VouchedIsExact
  <1>3. QED
    BY <1>1, <1>2 DEF SlotExact, OwnSlotExact, OtherSlotExact

\* The certificate is right: once a request is done, whatever slot it asked
\* for, an account its certificate does not call drifted or unchecked, and of
\* which gaps says nothing, is what it was at the asked moment.
THEOREM SlotsExact == Spec => []SlotExact
  <1>1. SlotInv /\ WrittenInv /\ BudgetInv => SlotExact
    BY SlotSound
  <1>2. Init => SlotInv
    BY SlotInit
  <1>3. QED
    BY <1>1, <1>2, SlotStep, WrittenInit, WrittenStep, BudgetInit, BudgetStep, PTL DEF Spec

-----------------------------------------------------------------------------
(* WhatIfSearch.  First what its threshold search is built from.             *)

\* The least of a set of numbers.
LEMMA Smallest ==
    ASSUME NEW T \in SUBSET Nat, T # {}
    PROVE  \E i \in T : \A j \in T : i <= j
  <1> DEFINE R == {ss \in Nat \X Nat : ss[1] < ss[2]}
  <1>1. R = OpToRel(<, Nat)
    BY Zenon DEF OpToRel
  <1>2. IsWellFoundedOn(R, Nat)
    BY <1>1, NatLessThanWellFounded, Zenon
  <1>3. PICK i \in T : \A j \in T : <<j, i>> \notin R
    <2> HIDE DEF R
    <2>1. T \subseteq Nat
      OBVIOUS
    <2>2. QED
      BY <1>2, <2>1, WFMin, Zenon
  <1>4. \A j \in T : i <= j
    <2>1. TAKE j \in T
    <2>2. i \in Nat /\ j \in Nat
      OBVIOUS
    <2>3. <<j, i>> \notin R
      BY <1>3
    <2>4. ~(j < i)
      BY <2>2, <2>3
    <2>5. QED
      BY <2>2, <2>4
  <1>5. QED
    BY <1>4

\* Induction, over the set of the numbers for which something holds.
LEMMA EveryNumber ==
    ASSUME NEW T \in SUBSET Nat, 0 \in T, \A n \in T : n + 1 \in T
    PROVE  T = Nat
  <1>1. SUFFICES ASSUME Nat \ T # {} PROVE FALSE
    OBVIOUS
  <1>2. PICK i \in Nat \ T : \A j \in Nat \ T : i <= j
    BY <1>1, Smallest
  <1>3. i # 0 /\ i - 1 \in Nat /\ i - 1 \in T
    BY <1>2
  <1>4. QED
    BY <1>2, <1>3

\* What is found by going on from a, step by step, exists.
Turns(x, n, D, a, G) ==
    /\ x \in [0..n -> D] /\ x[0] = a
    /\ \A p \in 1..n : x[p] = G[x[p - 1]]

LEMMA TurnsExist ==
    ASSUME NEW D, NEW a \in D, NEW G \in [D -> D], NEW n \in Nat
    PROVE  \E x : Turns(x, n, D, a, G)
  <1> DEFINE Run(m, x) == /\ x \in [0..m -> D] /\ x[0] = a
                          /\ \A p \in 1..m : x[p] = G[x[p - 1]]
             T == {m \in Nat : \E x : Run(m, x)}
  <1>1. 0 \in T
    <2>1. Run(0, [p \in 0..0 |-> a])
      OBVIOUS
    <2> HIDE DEF Run
    <2>2. QED
      BY <2>1
  <1>2. ASSUME NEW m \in T PROVE m + 1 \in T
    <2>1. m \in Nat
      OBVIOUS
    <2>2. PICK x : Run(m, x)
      <3> HIDE DEF Run
      <3>1. QED
        OBVIOUS
    <2> DEFINE y == [p \in 0..m + 1 |-> IF p = m + 1 THEN G[x[m]] ELSE x[p]]
    <2>3. x[m] \in D
      BY <2>1, <2>2
    <2>4. G[x[m]] \in D
      BY <2>3
    <2>5. \A p \in 0..m : y[p] = x[p] /\ x[p] \in D
      BY <2>1, <2>2
    <2>6. y[m + 1] = G[x[m]]
      BY <2>1
    <2>7. y \in [0..m + 1 -> D]
      <3>1. \A p \in 0..m + 1 : p \in 0..m \/ p = m + 1
        BY <2>1
      <3>2. \A p \in 0..m + 1 : y[p] \in D
        <4> HIDE DEF y
        <4>1. QED
          BY <2>4, <2>5, <2>6, <3>1
      <3>3. y = [p \in 0..m + 1 |-> y[p]]
        OBVIOUS
      <3> HIDE DEF y
      <3>4. QED
        BY <3>2, <3>3
    <2> HIDE DEF y
    <2>8. ASSUME NEW p \in 1..m + 1 PROVE y[p] = G[y[p - 1]]
      <3>1. CASE p = m + 1
        <4>1. y[p - 1] = x[m]
          BY <2>1, <2>5, <3>1
        <4>2. QED
          BY <2>6, <3>1, <4>1
      <3>2. CASE p # m + 1
        <4>1. p \in 1..m /\ p \in 0..m /\ p - 1 \in 0..m
          BY <2>1, <3>2
        <4>2. x[p] = G[x[p - 1]]
          BY <2>2, <4>1
        <4>3. QED
          BY <2>5, <4>1, <4>2
      <3>3. QED
        BY <3>1, <3>2
    <2>9. y[0] = a
      BY <2>1, <2>2, <2>5
    <2>10. Run(m + 1, y)
      BY <2>7, <2>8, <2>9
    <2> HIDE DEF Run
    <2>11. QED
      BY <2>1, <2>10
  <1>3. T = Nat
    <2> HIDE DEF T
    <2>1. T \in SUBSET Nat
      BY DEF T
    <2>2. QED
      BY <1>1, <1>2, <2>1, EveryNumber
  <1>4. PICK x : Run(n, x)
    <2>1. n \in T
      BY <1>3
    <2> HIDE DEF Run
    <2>2. QED
      BY <2>1
  <1>5. QED
    BY <1>4 DEF Turns

\* The powers of two are what their equation says.
LEMMA DoubledIs ==
    /\ Doubled[0] = 1 /\ \A n \in 0..Top : Doubled[n] \in Nat \ {0}
    /\ \A n \in 1..Top : Doubled[n] = 2 * Doubled[n - 1]
  <1> DEFINE D == Nat \ {0}
             G == [n \in D |-> 2 * n]
             F(x) == [n \in 0..Top |-> IF n = 0 THEN 1 ELSE 2 * x[n - 1]]
  <1>1. Top \in Nat /\ G \in [D -> D]
    BY SearchAssumption
  <1>2. PICK x : Turns(x, Top, D, 1, G)
    <2>1. 1 \in D
      OBVIOUS
    <2> HIDE DEF D, G
    <2>2. QED
      BY <1>1, <2>1, TurnsExist
  <1>3. x \in [0..Top -> D] /\ x[0] = 1 /\ \A p \in 1..Top : x[p] = G[x[p - 1]]
    <2> HIDE DEF D, G
    <2>1. QED
      BY <1>2 DEF Turns
  <1>4. x = F(x)
    <2>1. ASSUME NEW n \in 0..Top PROVE x[n] = F(x)[n]
      <3>1. CASE n = 0
        BY <1>3, <3>1
      <3>2. CASE n # 0
        <4>1. n \in 1..Top /\ n - 1 \in 0..Top
          BY <1>1, <3>2
        <4>2. x[n] = G[x[n - 1]] /\ x[n - 1] \in D
          BY <1>3, <4>1
        <4>3. QED
          BY <3>2, <4>2
      <3>3. QED
        BY <3>1, <3>2
    <2>2. x = [n \in 0..Top |-> x[n]]
      BY <1>3
    <2>3. QED
      BY <2>1, <2>2
  <1>5. Doubled = F(Doubled)
    <2>1. Doubled = CHOOSE g : g = F(g)
      BY DEF Doubled
    <2> HIDE DEF F
    <2>2. QED
      BY <1>4, <2>1
  <1>6. Doubled[0] = 1 /\ \A n \in 1..Top : Doubled[n] = 2 * Doubled[n - 1]
    <2>1. 0 \in 0..Top /\ \A n \in 1..Top : n \in 0..Top /\ n # 0
      BY <1>1
    <2>2. Doubled[0] = F(Doubled)[0] /\ \A n \in 1..Top : Doubled[n] = F(Doubled)[n]
      BY <1>5
    <2>3. QED
      BY <2>1, <2>2
  <1>7. \A n \in 0..Top : Doubled[n] \in Nat \ {0}
    <2> DEFINE T == {n \in Nat : n <= Top => Doubled[n] \in Nat \ {0}}
    <2>1. 0 \in T
      BY <1>6
    <2>2. ASSUME NEW n \in T PROVE n + 1 \in T
      <3>1. SUFFICES ASSUME n + 1 <= Top PROVE Doubled[n + 1] \in Nat \ {0}
        OBVIOUS
      <3>2. n \in Nat /\ n + 1 \in 1..Top /\ (n + 1) - 1 = n /\ n <= Top
        BY <1>1, <3>1
      <3>3. Doubled[n] \in Nat \ {0} /\ Doubled[n + 1] = 2 * Doubled[n]
        BY <1>6, <3>2
      <3>4. QED
        BY <3>3
    <2>3. T = Nat
      <3> HIDE DEF T
      <3>1. T \in SUBSET Nat
        BY DEF T
      <3>2. QED
        BY <2>1, <2>2, <3>1, EveryNumber
    <2>4. QED
      BY <1>1, <2>3
  <1>8. QED
    BY <1>6, <1>7

-----------------------------------------------------------------------------
(* search_threshold: the bounds have different outcomes, and each turn       *)
(* halves what lies between them.                                            *)

Narrowing == [lo : Nat, hi : Nat, low : BOOLEAN, high : BOOLEAN, evals : Nat]

Brackets(f, b) ==
    /\ b \in Narrowing /\ b.lo < b.hi /\ b.low # b.high
    /\ f[b.lo] = b.low /\ f[b.hi] = b.high

LEMMA NarrowedBrackets ==
    ASSUME NEW f, NEW b, Brackets(f, b), \A v \in b.lo..b.hi : f[v] \in BOOLEAN
    PROVE  LET c == Narrowed(f, b)
           IN  /\ Brackets(f, c) /\ b.lo <= c.lo /\ c.hi <= b.hi
               /\ b.hi - b.lo <= 1 => c = b
               /\ b.hi - b.lo > 1 => /\ c.low = b.low /\ c.high = b.high /\ c.evals = b.evals + 1
                                     /\ 2 * (c.hi - c.lo - 1) <= b.hi - b.lo - 1
                                     /\ c.hi - c.lo < b.hi - b.lo
  <1> DEFINE half == (b.hi - b.lo) \div 2
             mid == b.lo + half
             c == Narrowed(f, b)
  <1>1. b.lo \in Nat /\ b.hi \in Nat /\ b.evals \in Nat /\ b.lo < b.hi
        /\ b.low \in BOOLEAN /\ b.high \in BOOLEAN /\ b.low # b.high
        /\ b = [lo |-> b.lo, hi |-> b.hi, low |-> b.low, high |-> b.high, evals |-> b.evals]
    BY DEF Brackets, Narrowing
  <1>2. CASE b.hi - b.lo <= 1
    BY <1>2, <1>1 DEF Narrowed
  <1>3. CASE b.hi - b.lo > 1
    <2>1. half \in Nat /\ 2 * half <= b.hi - b.lo /\ b.hi - b.lo <= 2 * half + 1 /\ half > 0
      BY <1>1, <1>3
    <2> HIDE DEF half
    <2>2. mid \in Nat /\ b.lo < mid /\ mid < b.hi /\ mid \in b.lo..b.hi
      BY <1>1, <2>1
    <2>3. f[mid] \in BOOLEAN
      BY <2>2
    <2>4. c = IF f[mid] = b.low THEN [b EXCEPT !.lo = mid, !.evals = @ + 1]
              ELSE [b EXCEPT !.hi = mid, !.evals = @ + 1]
      BY <1>1, <1>3 DEF Narrowed, half
    <2> HIDE DEF c, mid
    <2>5. CASE f[mid] = b.low
      <3>1. c = [lo |-> mid, hi |-> b.hi, low |-> b.low, high |-> b.high, evals |-> b.evals + 1]
        BY <1>1, <2>4, <2>5
      <3>2. c.lo = mid /\ c.hi = b.hi /\ c.low = b.low /\ c.high = b.high /\ c.evals = b.evals + 1
        BY <3>1
      <3>3. c \in Narrowing
        BY <1>1, <2>2, <3>1 DEF Narrowing
      <3>4. Brackets(f, c)
        BY <1>1, <2>2, <2>5, <3>2, <3>3 DEF Brackets
      <3>5. 2 * (c.hi - c.lo - 1) <= b.hi - b.lo - 1 /\ c.hi - c.lo < b.hi - b.lo
            /\ b.lo <= c.lo /\ c.hi <= b.hi
        BY <1>1, <2>1, <2>2, <3>2 DEF mid
      <3>6. QED
        BY <1>1, <1>3, <3>2, <3>4, <3>5 DEF c
    <2>6. CASE f[mid] # b.low
      <3>1. c = [lo |-> b.lo, hi |-> mid, low |-> b.low, high |-> b.high, evals |-> b.evals + 1]
        BY <1>1, <2>4, <2>6
      <3>2. c.lo = b.lo /\ c.hi = mid /\ c.low = b.low /\ c.high = b.high /\ c.evals = b.evals + 1
        BY <3>1
      <3>3. c \in Narrowing
        BY <1>1, <2>2, <3>1 DEF Narrowing
      <3>4. f[mid] = b.high
        BY <1>1, <2>3, <2>6
      <3>5. Brackets(f, c)
        BY <1>1, <2>2, <3>2, <3>3, <3>4 DEF Brackets
      <3>6. 2 * (c.hi - c.lo - 1) <= b.hi - b.lo - 1 /\ c.hi - c.lo < b.hi - b.lo
            /\ b.lo <= c.lo /\ c.hi <= b.hi
        BY <1>1, <2>1, <2>2, <3>2 DEF mid
      <3>7. QED
        BY <1>1, <1>3, <3>2, <3>5, <3>6 DEF c
    <2>7. QED
      BY <2>5, <2>6
  <1>4. QED
    BY <1>1, <1>2, <1>3

\* The turns of a whole search.
TurnsOf(f, lo, hi) ==
    CHOOSE x : x = [i \in 0..hi - lo |-> IF i = 0 THEN Bracket(f, lo, hi) ELSE Narrowed(f, x[i - 1])]

LEMMA ThresholdIs ==
    ASSUME NEW f, NEW top \in Nat, \A v \in 0..top : f[v] \in BOOLEAN
    PROVE  /\ f[0] = f[top] => Threshold(f, 0, top) = <<>>
           /\ f[0] # f[top] =>
                \E c : /\ Threshold(f, 0, top) = <<c>>
                      /\ Brackets(f, c) /\ c.hi = c.lo + 1 /\ c.hi <= top
  <1> DEFINE b == Bracket(f, 0, top)
             D == {c \in Narrowing : Brackets(f, c) /\ c.hi <= top}
             G == [c \in D |-> Narrowed(f, c)]
             following(x) == [i \in 0..top - 0 |-> IF i = 0 THEN b ELSE Narrowed(f, x[i - 1])]
             s == TurnsOf(f, 0, top)
  <1>1. b = [lo |-> 0, hi |-> top, low |-> f[0], high |-> f[top], evals |-> 2]
    BY DEF Bracket
  <1>2. Threshold(f, 0, top) = IF b.low = b.high THEN <<>> ELSE <<s[top - 0]>>
    BY Zenon DEF Threshold, TurnsOf
  <1>3. b.low = f[0] /\ b.high = f[top] /\ 0..top - 0 = 0..top /\ top - 0 = top
    BY <1>1
  <1>4. ASSUME f[0] # f[top]
        PROVE  Brackets(f, s[top]) /\ s[top].hi = s[top].lo + 1 /\ s[top].hi <= top
    <2>1. b \in D
      <3>1. top # 0 /\ f[0] \in BOOLEAN /\ f[top] \in BOOLEAN
        BY <1>4
      <3>2. b \in Narrowing /\ b.lo = 0 /\ b.hi = top
        BY <1>1, <3>1 DEF Narrowing
      <3> HIDE DEF b
      <3>3. QED
        BY <1>3, <1>4, <3>1, <3>2 DEF Brackets
    <2>2. ASSUME NEW c \in D
          PROVE  /\ Narrowed(f, c) \in D
                 /\ c.hi - c.lo <= 1 => Narrowed(f, c) = c
                 /\ c.hi - c.lo > 1 => Narrowed(f, c).hi - Narrowed(f, c).lo < c.hi - c.lo
      <3>1. c.lo \in Nat /\ c.hi \in Nat /\ c.hi <= top /\ Brackets(f, c)
        BY DEF Narrowing
      <3>2. \A v \in c.lo..c.hi : f[v] \in BOOLEAN
        BY <3>1
      <3> DEFINE d == Narrowed(f, c)
      <3>3. /\ Brackets(f, d) /\ c.lo <= d.lo /\ d.hi <= c.hi
            /\ c.hi - c.lo <= 1 => d = c
            /\ c.hi - c.lo > 1 => d.hi - d.lo < c.hi - c.lo
        BY <3>1, <3>2, NarrowedBrackets
      <3> HIDE DEF d
      <3>4. d \in Narrowing /\ d.hi \in Nat
        BY <3>3 DEF Brackets, Narrowing
      <3>5. d.hi <= top
        BY <3>1, <3>3, <3>4
      <3>6. QED
        BY <3>3, <3>4, <3>5 DEF d
    <2>3. G \in [D -> D]
      BY <2>2
    <2>4. PICK x : Turns(x, top, D, b, G)
      <3> HIDE DEF G, D, b
      <3>1. QED
        BY <2>1, <2>3, TurnsExist
    <2>5. x \in [0..top -> D] /\ x[0] = b /\ \A p \in 1..top : x[p] = G[x[p - 1]]
      <3> HIDE DEF G, D, b
      <3>1. QED
        BY <2>4 DEF Turns
    <2>6. x = following(x)
      <3>1. ASSUME NEW n \in 0..top PROVE x[n] = IF n = 0 THEN b ELSE Narrowed(f, x[n - 1])
        <4>1. CASE n = 0
          BY <2>5, <4>1
        <4>2. CASE n # 0
          <5>1. n \in 1..top /\ n - 1 \in 0..top
            BY <4>2
          <5>2. x[n] = G[x[n - 1]] /\ x[n - 1] \in D
            BY <2>5, <5>1
          <5> HIDE DEF D
          <5>3. QED
            BY <4>2, <5>2
        <4>3. QED
          BY <4>1, <4>2
      <3>2. x = [n \in 0..top |-> x[n]]
        BY <2>5
      <3> HIDE DEF b
      <3>3. QED
        BY <1>3, <3>1, <3>2
    <2>7. s = following(s)
      <3>1. s = CHOOSE y : y = following(y)
        BY DEF TurnsOf
      <3> HIDE DEF s, following
      <3>2. QED
        BY <2>6, <3>1
    <2> HIDE DEF s, b
    <2>8. s[0] = b /\ \A n \in 1..top : s[n] = Narrowed(f, s[n - 1])
      <3>1. 0 \in 0..top /\ \A n \in 1..top : n \in 0..top /\ n # 0
        OBVIOUS
      <3>2. following(s)[0] = b /\ \A n \in 1..top : following(s)[n] = Narrowed(f, s[n - 1])
        BY <1>3, <3>1
      <3> HIDE DEF following
      <3>3. QED
        BY <2>7, <3>2
    <2>9. \A n \in 0..top : s[n] \in D /\ s[n].hi - s[n].lo <= IF top - n < 1 THEN 1 ELSE top - n
      <3> DEFINE T == {n \in Nat : n <= top =>
                          s[n] \in D /\ s[n].hi - s[n].lo <= IF top - n < 1 THEN 1 ELSE top - n}
      <3>1. 0 \in T
        <4>1. s[0].hi = top /\ s[0].lo = 0
          BY <1>1, <2>8 DEF b
        <4>2. top >= 1
          BY <1>4
        <4>3. QED
          BY <2>1, <2>8, <4>1, <4>2
      <3>2. ASSUME NEW n \in T PROVE n + 1 \in T
        <4>1. SUFFICES ASSUME n + 1 <= top
                       PROVE  /\ s[n + 1] \in D
                              /\ s[n + 1].hi - s[n + 1].lo <= IF top - (n + 1) < 1 THEN 1 ELSE top - (n + 1)
          OBVIOUS
        <4>2. n \in Nat /\ n + 1 \in 1..top /\ (n + 1) - 1 = n /\ n <= top
          BY <4>1
        <4>3. s[n + 1] = Narrowed(f, s[n])
          BY <2>8, <4>2
        <4>4. s[n] \in D /\ s[n].hi - s[n].lo <= IF top - n < 1 THEN 1 ELSE top - n
          BY <4>2
        <4> HIDE DEF T
        <4>5. /\ s[n + 1] \in D
              /\ s[n].hi - s[n].lo <= 1 => s[n + 1] = s[n]
              /\ s[n].hi - s[n].lo > 1 => s[n + 1].hi - s[n + 1].lo < s[n].hi - s[n].lo
          BY <2>2, <4>3, <4>4
        <4>6. /\ s[n].lo \in Nat /\ s[n].hi \in Nat
              /\ s[n + 1].lo \in Nat /\ s[n + 1].hi \in Nat
          BY <4>4, <4>5 DEF Narrowing
        <4> DEFINE v == s[n].hi - s[n].lo
                   w == s[n + 1].hi - s[n + 1].lo
        <4>7. v \in Int /\ w \in Int /\ (v <= IF top - n < 1 THEN 1 ELSE top - n)
              /\ (v <= 1 => w = v) /\ (v > 1 => w < v)
          <5> HIDE DEF D
          <5>1. QED
            BY <4>4, <4>5, <4>6
        <4> HIDE DEF v, w
        <4>8. w <= IF top - (n + 1) < 1 THEN 1 ELSE top - (n + 1)
          BY <4>1, <4>2, <4>7
        <4>9. QED
          BY <4>5, <4>8 DEF w
      <3>3. T = Nat
        <4> HIDE DEF T
        <4>1. T \in SUBSET Nat
          BY DEF T
        <4>2. QED
          BY <3>1, <3>2, <4>1, EveryNumber
      <3> HIDE DEF D
      <3>4. QED
        BY <3>3
    <2>10. s[top] \in D /\ s[top].hi - s[top].lo <= 1
      BY <2>9
    <2>11. s[top].lo \in Nat /\ s[top].hi \in Nat /\ s[top].lo < s[top].hi
      BY <2>10 DEF Brackets, Narrowing
    <2>12. QED
      BY <2>10, <2>11
  <1>5. CASE f[0] = f[top]
    <2> HIDE DEF b, s
    <2>1. QED
      BY <1>2, <1>3, <1>5
  <1>6. CASE f[0] # f[top]
    <2> HIDE DEF b, s
    <2>1. Threshold(f, 0, top) = <<s[top]>>
      BY <1>2, <1>3, <1>6
    <2>2. QED
      BY <1>4, <1>6, <2>1
  <1>7. QED
    BY <1>5, <1>6

LEMMA Halving ==
    ASSUME NEW w \in Nat, NEW v \in Nat, w > 1, 2 * (v - 1) <= w - 1,
           NEW p \in Nat \ {0}, NEW t \in Nat, (w - 1) * p <= t
    PROVE  p <= t /\ (v - 1) * (2 * p) <= t
  <1> DEFINE a == w - 1
             c == v - 1
  <1>1. a \in Nat /\ c \in Int /\ a >= 1 /\ 2 * c <= a /\ a * p <= t /\ p \in Nat
    OBVIOUS
  <1> HIDE DEF a, c
  <1>2. a * p \in Nat /\ a * p = p + (a - 1) * p /\ (a - 1) * p >= 0
    BY <1>1
  <1>3. p <= t
    BY <1>1, <1>2
  <1>4. c * (2 * p) = (2 * c) * p
    BY <1>1
  <1>5. (2 * c) * p <= a * p
    BY <1>1
  <1>6. c * (2 * p) \in Int /\ (2 * c) * p \in Int
    BY <1>1
  <1>7. c * (2 * p) <= t
    BY <1>1, <1>2, <1>4, <1>5, <1>6
  <1>8. QED
    BY <1>3, <1>7 DEF c

\* What the threshold search knows once it has looked at both ends.
Looked ==
    /\ bounds \in Narrowing /\ bounds.lo <= bounds.hi /\ bounds.hi <= Top
    /\ effect[bounds.lo] = bounds.low /\ effect[bounds.hi] = bounds.high
    /\ hunt = "threshold" => bounds.low # bounds.high /\ bounds.hi - bounds.lo > 1
    /\ hunt = "found" => bounds.low = bounds.high \/ bounds.hi - bounds.lo <= 1
    /\ bounds.evals >= 2 /\ bounds.evals - 2 + (bounds.hi - bounds.lo) <= Top
    /\ (bounds.hi - bounds.lo - 1) * Doubled[bounds.evals - 2] <= Top - 1
    /\ bounds.evals > 2 => Doubled[bounds.evals - 3] < Top

Seeking == {"threshold", "found"}
ThresholdInv ==
    /\ hunt \in Seeking => effect \in [0..Top -> BOOLEAN]
                          /\ (Looked \/ (hunt = "threshold" /\ bounds = NoBounds))
    /\ hunt \notin Seeking => bounds = NoBounds

LEMMA LookKeeps ==
    ASSUME ThresholdInv, NEW lo \in 0..Top, NEW hi \in 0..Top, Look(lo, hi)
    PROVE  ThresholdInv'
  <1>1. Top \in Nat /\ Top > 0
    BY SearchAssumption
  <1>2. /\ hunt = "threshold" /\ lo <= hi /\ bounds' = Bracket(effect, lo, hi)
        /\ hunt' = (IF bounds'.low = bounds'.high \/ hi - lo <= 1 THEN "found" ELSE hunt)
        /\ effect' = effect
    BY DEF Look
  <1>3. effect \in [0..Top -> BOOLEAN]
    BY <1>2 DEF ThresholdInv, Seeking
  <1>4. bounds' = [lo |-> lo, hi |-> hi, low |-> effect[lo], high |-> effect[hi], evals |-> 2]
    BY <1>2 DEF Bracket
  <1>5. bounds'.lo = lo /\ bounds'.hi = hi /\ bounds'.low = effect[lo] /\ bounds'.high = effect[hi]
        /\ bounds'.evals = 2
    BY <1>4
  <1>6. bounds' \in Narrowing
    BY <1>3, <1>4 DEF Narrowing
  <1>7. (hi - lo - 1) * Doubled[2 - 2] <= Top - 1
    <2>1. Doubled[2 - 2] = 1
      BY DoubledIs
    <2>2. QED
      BY <1>1, <2>1
  <1>8. hunt' \in Seeking
    BY <1>2 DEF Seeking
  <1>9. Looked'
    BY <1>1, <1>2, <1>5, <1>6, <1>7 DEF Looked
  <1>10. QED
    BY <1>2, <1>3, <1>8, <1>9 DEF ThresholdInv

LEMMA NarrowKeeps ==
    ASSUME ThresholdInv, Narrow
    PROVE  ThresholdInv'
  <1>1. Top \in Nat /\ Top > 0
    BY SearchAssumption
  <1>2. /\ hunt = "threshold" /\ bounds.evals > 0 /\ bounds' = Narrowed(effect, bounds)
        /\ hunt' = (IF bounds'.hi - bounds'.lo <= 1 THEN "found" ELSE hunt)
        /\ effect' = effect
    BY DEF Narrow
  <1>3. effect \in [0..Top -> BOOLEAN] /\ Looked
    BY <1>2 DEF ThresholdInv, Seeking, NoBounds
  <1>4. Brackets(effect, bounds) /\ bounds.hi - bounds.lo > 1
        /\ bounds.lo \in Nat /\ bounds.hi \in Nat /\ bounds.evals \in Nat /\ bounds.hi <= Top
        /\ bounds.evals >= 2 /\ bounds.evals - 2 + (bounds.hi - bounds.lo) <= Top
        /\ (bounds.hi - bounds.lo - 1) * Doubled[bounds.evals - 2] <= Top - 1
    <2>1. bounds \in Narrowing
      BY <1>3 DEF Looked
    <2>2. bounds.lo \in Nat /\ bounds.hi \in Nat /\ bounds.evals \in Nat
      BY <2>1 DEF Narrowing
    <2>3. bounds.low # bounds.high /\ bounds.hi - bounds.lo > 1
      BY <1>2, <1>3 DEF Looked
    <2>4. bounds.lo < bounds.hi
      BY <2>2, <2>3
    <2>5. Brackets(effect, bounds)
      BY <1>3, <2>1, <2>3, <2>4 DEF Brackets, Looked
    <2>6. QED
      BY <1>3, <2>2, <2>3, <2>5 DEF Looked
  <1>5. \A v \in bounds.lo..bounds.hi : effect[v] \in BOOLEAN
    BY <1>1, <1>3, <1>4
  <1> DEFINE c == Narrowed(effect, bounds)
             n == bounds.evals - 2
             w == bounds.hi - bounds.lo
             v == c.hi - c.lo
  <1>6. /\ Brackets(effect, c) /\ c.hi <= bounds.hi /\ c.evals = bounds.evals + 1
        /\ 2 * (v - 1) <= w - 1 /\ v < w
    BY <1>4, <1>5, NarrowedBrackets
  <1>7. c.lo \in Nat /\ c.hi \in Nat /\ c.lo < c.hi /\ c \in Narrowing
    <2> HIDE DEF c
    <2>1. QED
      BY <1>6 DEF Brackets, Narrowing
  <1>8. n \in Nat /\ w \in Nat /\ v \in Nat /\ w > 1 /\ v >= 1
    <2> HIDE DEF c
    <2>1. QED
      BY <1>4, <1>7
  <1>9. n + w <= Top /\ n + 1 + v <= Top /\ n + 1 \in 1..Top /\ n \in 0..Top
    <2>1. n + w <= Top
      BY <1>4
    <2> HIDE DEF n, w, v
    <2>2. QED
      BY <1>1, <1>6, <1>8, <2>1
  <1> DEFINE p == Doubled[n]
  <1>10. p \in Nat \ {0} /\ Doubled[n + 1] = 2 * p
    <2>1. (n + 1) - 1 = n
      BY <1>8
    <2> HIDE DEF n
    <2>2. QED
      BY <1>9, <2>1, DoubledIs
  <1>11. (w - 1) * p <= Top - 1
    BY <1>4
  <1>12. p <= Top - 1 /\ (v - 1) * (2 * p) <= Top - 1
    <2>1. Top - 1 \in Nat
      BY <1>1
    <2> HIDE DEF p, w, v
    <2>2. QED
      BY <1>6, <1>8, <1>10, <1>11, <2>1, Halving
  <1>13. c.evals - 2 = n + 1 /\ c.evals - 3 = n /\ c.evals > 2
    <2> HIDE DEF c
    <2>1. QED
      BY <1>4, <1>6
  <1>14. (c.hi - c.lo - 1) * Doubled[c.evals - 2] <= Top - 1 /\ Doubled[c.evals - 3] < Top
    <2>1. (v - 1) * Doubled[c.evals - 2] <= Top - 1
      <3> HIDE DEF n, c, p, v
      <3>1. QED
        BY <1>10, <1>12, <1>13
    <2>2. Doubled[c.evals - 3] = p
      <3> HIDE DEF n, c
      <3>1. QED
        BY <1>13
    <2>3. p < Top
      <3> HIDE DEF p
      <3>1. QED
        BY <1>1, <1>10, <1>12
    <2>4. QED
      BY <2>1, <2>2, <2>3
  <1>15. effect[c.lo] = c.low /\ effect[c.hi] = c.high /\ c.low # c.high /\ c.hi <= Top
    <2> HIDE DEF c
    <2>1. QED
      BY <1>1, <1>4, <1>6, <1>7 DEF Brackets
  <1>16. c.evals - 2 + (c.hi - c.lo) <= Top /\ c.evals >= 2 /\ c.evals \in Nat
    <2>1. c.evals - 2 + v <= Top
      <3> HIDE DEF c, v, n
      <3>1. QED
        BY <1>9, <1>13
    <2> HIDE DEF c
    <2>2. QED
      BY <1>4, <1>6, <2>1
  <1>17. hunt' \in Seeking /\ (hunt' = "threshold" => c.hi - c.lo > 1) /\ (hunt' = "found" => c.hi - c.lo <= 1)
    <2> HIDE DEF c
    <2>1. QED
      BY <1>2, <1>7 DEF Seeking, c
  <1>18. bounds' = c
    BY <1>2
  <1> HIDE DEF c
  <1>19. Looked'
    BY <1>2, <1>7, <1>14, <1>15, <1>16, <1>17, <1>18 DEF Looked
  <1>20. QED
    BY <1>2, <1>3, <1>17, <1>19 DEF ThresholdInv

LEMMA ThresholdSound == ThresholdInv => ThresholdTrue
  <1>1. SUFFICES ASSUME ThresholdInv PROVE ThresholdTrue
    OBVIOUS
  <1>2. CASE bounds = NoBounds
    BY <1>2 DEF ThresholdTrue, NoBounds
  <1>3. CASE Looked
    <2>1. bounds.lo \in Nat /\ bounds.hi \in Nat /\ bounds.lo <= bounds.hi
      BY <1>3 DEF Looked, Narrowing
    <2>2. ASSUME hunt = "found", bounds.low # bounds.high PROVE bounds.lo + 1 = bounds.hi
      <3>1. bounds.hi - bounds.lo <= 1 /\ bounds.lo # bounds.hi
        BY <1>3, <2>2 DEF Looked
      <3>2. QED
        BY <2>1, <3>1
    <2>3. QED
      BY <1>3, <2>2 DEF ThresholdTrue, Looked
  <1>4. QED
    BY <1>1, <1>2, <1>3 DEF ThresholdInv

-----------------------------------------------------------------------------
(* minimize_mutations: what was tried and kept is needed by all that is      *)
(* still kept, and stays so while more is dropped.                           *)

All == MutationsOf(Offered)

\* A list is part of what was offered, in its order.
Placed(q, p) ==
    /\ p \in [1..Len(q) -> 1..Len(Offered)]
    /\ \A i, j \in 1..Len(q) : i < j => p[i] < p[j]
    /\ \A i \in 1..Len(q) : q[i] = Offered[p[i]]

Minimizing == {"minimize", "minimized"}
MinimizeInv ==
    hunt \in Minimizing =>
        /\ effect \in [SUBSET All -> BOOLEAN]
        /\ keep \in Seq(All) /\ at \in 1..Len(keep) + 1
        /\ \E p : Placed(keep, p)
        /\ Flips(All) =>
             /\ effect[MutationsOf(keep)] = effect[All]
             /\ Monotone => \A j \in 1..at - 1 : ~Flips(MutationsOf(keep) \ {keep[j]})
             /\ hunt = "minimized" => at = Len(keep) + 1
        /\ ~Flips(All) => \/ hunt = "minimize" /\ keep = Offered /\ at = 1
                          \/ hunt = "minimized" /\ keep = <<>>

LEMMA OfferedIs ==
    /\ Offered \in Seq(All) /\ Len(Offered) \in Nat /\ DOMAIN Offered = 1..Len(Offered)
    /\ \A i, j \in 1..Len(Offered) : Offered[i] = Offered[j] => i = j
  <1>1. Offered \in Seq(All)
    BY SearchAssumption DEF All
  <1>2. Len(Offered) \in Nat /\ DOMAIN Offered = 1..Len(Offered)
    BY <1>1
  <1>3. QED
    BY <1>1, <1>2, SearchAssumption

\* A list that is placed has every mutation once.
LEMMA PlacedOnce ==
    ASSUME NEW q \in Seq(All), NEW p, Placed(q, p)
    PROVE  \A i, j \in 1..Len(q) : q[i] = q[j] => i = j
  <1>1. TAKE i, j \in 1..Len(q)
  <1>2. ASSUME q[i] = q[j], i # j PROVE FALSE
    <2>1. Len(q) \in Nat
      OBVIOUS
    <2>2. i < j \/ j < i
      BY <1>2, <2>1
    <2>3. p[i] \in 1..Len(Offered) /\ p[j] \in 1..Len(Offered) /\ (p[i] < p[j] \/ p[j] < p[i])
      BY <2>2 DEF Placed
    <2>4. Offered[p[i]] = Offered[p[j]]
      BY <1>2 DEF Placed
    <2>5. p[i] = p[j]
      BY <2>3, <2>4, OfferedIs
    <2>6. p[i] \in Nat
      BY <2>3, OfferedIs
    <2>7. QED
      BY <2>3, <2>5, <2>6
  <1>3. QED
    BY <1>2

\* What dropping one leaves.
LEMMA WithoutIs ==
    ASSUME keep \in Seq(All), NEW p, Placed(keep, p), NEW i \in 1..Len(keep)
    PROVE  /\ Without(i) \in Seq(All) /\ Len(Without(i)) = Len(keep) - 1
           /\ MutationsOf(Without(i)) = MutationsOf(keep) \ {keep[i]}
           /\ \A j \in 1..i - 1 : Without(i)[j] = keep[j]
           /\ \E r : Placed(Without(i), r)
  <1> DEFINE n == Len(keep)
             q == Without(i)
             from(j) == IF j < i THEN j ELSE j + 1
             r == [j \in 1..n - 1 |-> p[from(j)]]
  <1>1. n \in Nat /\ DOMAIN keep = 1..n /\ n >= 1 /\ n - 1 \in Nat
    <2>1. n \in Nat /\ DOMAIN keep = 1..n
      OBVIOUS
    <2>2. QED
      BY <2>1
  <1> HIDE DEF n
  <1>2. i \in 1..n
    BY DEF n
  <1>3. \A j \in 1..n - 1 : from(j) \in 1..n /\ from(j) # i
    BY <1>1, <1>2
  <1>4. q = [j \in 1..n - 1 |-> keep[from(j)]]
    <2>1. q = [j \in 1..n - 1 |-> IF j < i THEN keep[j] ELSE keep[j + 1]]
      BY DEF Without, n
    <2>2. \A j \in 1..n - 1 : (IF j < i THEN keep[j] ELSE keep[j + 1]) = keep[from(j)]
      OBVIOUS
    <2> HIDE DEF from, q
    <2>3. QED
      BY <2>1, <2>2
  <1>5. \A k \in 1..n : k # i => \E j \in 1..n - 1 : from(j) = k
    <2>1. ASSUME NEW k \in 1..n, k # i PROVE \E j \in 1..n - 1 : from(j) = k
      <3>1. CASE k < i
        <4>1. k \in 1..n - 1 /\ from(k) = k
          BY <1>1, <1>2, <3>1
        <4>2. QED
          BY <4>1
      <3>2. CASE ~(k < i)
        <4>1. k - 1 \in 1..n - 1 /\ ~(k - 1 < i) /\ (k - 1) + 1 = k
          BY <1>1, <1>2, <2>1, <3>2
        <4>2. from(k - 1) = k
          BY <4>1
        <4>3. QED
          BY <4>1, <4>2
      <3>3. QED
        BY <3>1, <3>2
    <2>2. QED
      BY <2>1
  <1>6. \A j, k \in 1..n - 1 : j < k => from(j) < from(k)
    BY <1>1, <1>2
  <1>7. \A j \in 1..i - 1 : j \in 1..n - 1 /\ from(j) = j
    BY <1>1, <1>2
  <1> HIDE DEF from, q
  <1>8. \A k \in 1..n : keep[k] \in All
    BY DEF n
  <1>9. q \in Seq(All) /\ Len(q) = n - 1 /\ DOMAIN q = 1..n - 1
    <2>1. \A j \in 1..n - 1 : keep[from(j)] \in All
      BY <1>3, <1>8
    <2>2. q \in [1..n - 1 -> All]
      BY <1>4, <2>1
    <2>3. q \in Seq(All)
      BY <1>1, <2>2
    <2>4. QED
      BY <1>1, <2>2, <2>3
  <1>10. \A j \in 1..n - 1 : q[j] = keep[from(j)]
    BY <1>4
  <1>11. MutationsOf(q) = MutationsOf(keep) \ {keep[i]}
    <2>1. \A j, k \in 1..n : keep[j] = keep[k] => j = k
      BY PlacedOnce DEF n
    <2>2. MutationsOf(q) = {q[j] : j \in 1..n - 1} /\ MutationsOf(keep) = {keep[j] : j \in 1..n}
      BY <1>1, <1>9 DEF MutationsOf
    <2>3. \A j \in 1..n - 1 : q[j] \in MutationsOf(keep) /\ q[j] # keep[i]
      BY <1>2, <1>3, <1>10, <2>1, <2>2
    <2>4. \A k \in 1..n : keep[k] # keep[i] => \E j \in 1..n - 1 : q[j] = keep[k]
      BY <1>5, <1>10
    <2>5. QED
      BY <2>2, <2>3, <2>4
  <1>12. Placed(q, r)
    <2>1. \A k \in 1..n : p[k] \in 1..Len(Offered) /\ keep[k] = Offered[p[k]]
      BY DEF Placed, n
    <2>2. \A j, k \in 1..n : j < k => p[j] < p[k]
      BY DEF Placed, n
    <2>3. \A j \in 1..n - 1 : r[j] = p[from(j)]
      OBVIOUS
    <2>4. r = [j \in 1..n - 1 |-> r[j]]
      OBVIOUS
    <2> HIDE DEF r
    <2>5. r \in [1..n - 1 -> 1..Len(Offered)]
      BY <1>3, <2>1, <2>3, <2>4
    <2>6. \A j, k \in 1..n - 1 : j < k => r[j] < r[k]
      BY <1>3, <1>6, <2>2, <2>3
    <2>7. \A j \in 1..n - 1 : q[j] = Offered[r[j]]
      BY <1>3, <1>10, <2>1, <2>3
    <2>8. QED
      BY <1>9, <2>5, <2>6, <2>7 DEF Placed
  <1>13. \A j \in 1..i - 1 : q[j] = keep[j]
    BY <1>7, <1>10
  <1>14. \E s : Placed(q, s)
    BY <1>12
  <1>15. QED
    BY <1>9, <1>11, <1>13, <1>14 DEF q, n

LEMMA EverythingKeeps ==
    ASSUME MinimizeInv, Everything
    PROVE  MinimizeInv'
  <1>1. /\ hunt = "minimize" /\ effect[All] = effect[{}] /\ at = 1
        /\ keep' = <<>> /\ hunt' = "minimized" /\ effect' = effect /\ at' = at
    BY DEF Everything, All
  <1>2. effect \in [SUBSET All -> BOOLEAN]
    BY <1>1 DEF MinimizeInv, Minimizing
  <1>3. ~Flips(All)'
    BY <1>1 DEF Flips
  <1>4. keep' \in Seq(All) /\ at' \in 1..Len(keep') + 1
    BY <1>1
  <1>5. Placed(keep, <<>>)'
    BY <1>1 DEF Placed
  <1>6. QED
    BY <1>1, <1>2, <1>3, <1>4, <1>5 DEF MinimizeInv

LEMMA TryKeeps ==
    ASSUME MinimizeInv, TryWithout
    PROVE  MinimizeInv'
  <1> DEFINE q == Without(at)
             n == Len(keep)
  <1>1. /\ hunt = "minimize" /\ effect[All] # effect[{}] /\ at <= n
        /\ \/ effect[MutationsOf(q)] = effect[All] /\ keep' = q /\ at' = at
           \/ effect[MutationsOf(q)] # effect[All] /\ keep' = keep /\ at' = at + 1
        /\ hunt' = (IF at' > Len(keep') THEN "minimized" ELSE hunt)
        /\ effect' = effect
    BY DEF TryWithout, All
  <1>2. /\ effect \in [SUBSET All -> BOOLEAN] /\ keep \in Seq(All) /\ at \in 1..n + 1
        /\ \E p : Placed(keep, p)
        /\ Flips(All) =>
             /\ effect[MutationsOf(keep)] = effect[All]
             /\ Monotone => \A j \in 1..at - 1 : ~Flips(MutationsOf(keep) \ {keep[j]})
    BY <1>1 DEF MinimizeInv, Minimizing
  <1>3. n \in Nat /\ DOMAIN keep = 1..n
    BY <1>2
  <1>4. at \in 1..n
    BY <1>1, <1>2, <1>3
  <1>5. Flips(All)
    BY <1>1 DEF Flips
  <1>6. /\ q \in Seq(All) /\ Len(q) = n - 1 /\ MutationsOf(q) = MutationsOf(keep) \ {keep[at]}
        /\ \A j \in 1..at - 1 : q[j] = keep[j]
        /\ \E r : Placed(q, r)
    <2>1. PICK p : Placed(keep, p)
      BY <1>2
    <2>2. QED
      BY <1>2, <1>4, <2>1, WithoutIs
  <1>7. MutationsOf(keep) \in SUBSET All
    BY <1>2 DEF MutationsOf
  <1>8. Flips(All)' /\ (Monotone' = Monotone) /\ \A S : Flips(S)' = Flips(S)
    BY <1>1, <1>5 DEF Flips, Monotone
  <1>9. ASSUME Monotone, NEW S \in SUBSET All, NEW T \in SUBSET S, ~Flips(S) PROVE ~Flips(T)
    BY <1>2, <1>9 DEF Monotone
  <1>10. \A j \in 1..at - 1 : j \in 1..n /\ j < at
    BY <1>3, <1>4
  <1>11. hunt' \in Minimizing /\ (hunt' = "minimized" => at' > Len(keep'))
    BY <1>1 DEF Minimizing
  <1> HIDE DEF q
  <1>12. CASE effect[MutationsOf(q)] = effect[All] /\ keep' = q /\ at' = at
    <2>1. at' \in 1..Len(keep') + 1
      BY <1>3, <1>4, <1>6, <1>12
    <2>2. ASSUME Monotone, NEW j \in 1..at - 1 PROVE ~Flips(MutationsOf(q) \ {q[j]})
      <3>1. ~Flips(MutationsOf(keep) \ {keep[j]})
        BY <1>2, <1>5, <2>2
      <3>2. q[j] = keep[j]
        BY <1>6
      <3>3. MutationsOf(q) \ {q[j]} \subseteq MutationsOf(keep) \ {keep[j]}
        BY <1>6, <3>2
      <3>4. QED
        BY <1>7, <1>9, <2>2, <3>1, <3>3
    <2>3. hunt' = "minimized" => at' = Len(keep') + 1
      BY <1>3, <1>4, <1>6, <1>11, <1>12
    <2>4. Monotone' => \A j \in 1..at' - 1 : ~Flips(MutationsOf(keep) \ {keep[j]})'
      BY <1>8, <1>12, <2>2 DEF Flips
    <2>5. effect'[MutationsOf(keep)'] = effect'[All]
      BY <1>1, <1>12
    <2>6. \E r : Placed(keep, r)'
      BY <1>6, <1>12 DEF Placed
    <2>7. keep' \in Seq(All) /\ effect' \in [SUBSET All -> BOOLEAN]
      BY <1>1, <1>2, <1>6, <1>12
    <2>8. QED
      BY <1>8, <1>11, <2>1, <2>3, <2>4, <2>5, <2>6, <2>7 DEF MinimizeInv
  <1>13. CASE effect[MutationsOf(q)] # effect[All] /\ keep' = keep /\ at' = at + 1
    <2>1. at' \in 1..Len(keep') + 1
      BY <1>3, <1>4, <1>13
    <2>2. ~Flips(MutationsOf(keep) \ {keep[at]})
      <3>1. MutationsOf(q) \in SUBSET All /\ {} \in SUBSET All /\ All \in SUBSET All
        BY <1>6, <1>7
      <3>2. effect[MutationsOf(q)] \in BOOLEAN /\ effect[{}] \in BOOLEAN /\ effect[All] \in BOOLEAN
        BY <1>2, <3>1
      <3>3. effect[MutationsOf(q)] = effect[{}]
        BY <1>1, <1>13, <3>2
      <3>4. QED
        BY <1>6, <3>3 DEF Flips
    <2>3. ASSUME Monotone, NEW j \in 1..(at + 1) - 1 PROVE ~Flips(MutationsOf(keep) \ {keep[j]})
      <3>1. j \in 1..at - 1 \/ j = at
        BY <1>3, <1>4
      <3>2. QED
        BY <1>2, <1>5, <2>2, <2>3, <3>1
    <2>4. hunt' = "minimized" => at' = Len(keep') + 1
      BY <1>3, <1>4, <1>11, <1>13
    <2>5. Monotone' => \A j \in 1..at' - 1 : ~Flips(MutationsOf(keep) \ {keep[j]})'
      BY <1>1, <1>8, <1>13, <2>3 DEF Flips
    <2>6. effect'[MutationsOf(keep)'] = effect'[All]
      BY <1>1, <1>2, <1>5, <1>13
    <2>7. \E r : Placed(keep, r)'
      BY <1>2, <1>13 DEF Placed
    <2>8. keep' \in Seq(All) /\ effect' \in [SUBSET All -> BOOLEAN]
      BY <1>1, <1>2, <1>13
    <2>9. QED
      BY <1>8, <1>11, <2>1, <2>4, <2>5, <2>6, <2>7, <2>8 DEF MinimizeInv
  <1>14. QED
    BY <1>1, <1>12, <1>13

LEMMA MinimizeSound == MinimizeInv => MinimalTrue
  <1>1. SUFFICES ASSUME MinimizeInv, hunt = "minimized" PROVE MinimalTrue
    BY DEF MinimalTrue
  <1> DEFINE n == Len(keep)
             K == MutationsOf(keep)
  <1>2. /\ effect \in [SUBSET All -> BOOLEAN] /\ keep \in Seq(All) /\ at \in 1..n + 1
        /\ Flips(All) =>
             /\ effect[K] = effect[All]
             /\ Monotone => \A j \in 1..at - 1 : ~Flips(K \ {keep[j]})
             /\ at = n + 1
        /\ ~Flips(All) => keep = <<>>
    BY <1>1 DEF MinimizeInv, Minimizing
  <1>3. PICK p : Placed(keep, p)
    BY <1>1 DEF MinimizeInv, Minimizing
  <1>4. n \in Nat /\ DOMAIN keep = 1..n
    BY <1>2
  <1>5. K = {keep[i] : i \in 1..n} /\ K \in SUBSET All
    BY <1>2, <1>4 DEF MutationsOf
  <1>6. ASSUME NEW i \in DOMAIN keep, NEW j \in DOMAIN keep, i < j
        PROVE  \E k, l \in DOMAIN Offered : k < l /\ keep[i] = Offered[k] /\ keep[j] = Offered[l]
    <2>1. /\ p[i] \in 1..Len(Offered) /\ p[j] \in 1..Len(Offered) /\ p[i] < p[j]
          /\ keep[i] = Offered[p[i]] /\ keep[j] = Offered[p[j]]
      BY <1>3, <1>4, <1>6 DEF Placed
    <2>2. QED
      BY <2>1, OfferedIs
  <1>7. (Flips(K) <=> Flips(All)) /\ (keep = <<>> <=> ~Flips(All))
    <2>1. CASE Flips(All)
      <3>1. effect[K] = effect[All]
        BY <1>2, <2>1
      <3>2. effect[All] # effect[{}]
        BY <2>1 DEF Flips
      <3>3. Flips(K)
        BY <3>1, <3>2 DEF Flips
      <3>4. keep # <<>>
        <4>1. SUFFICES ASSUME keep = <<>> PROVE FALSE
          OBVIOUS
        <4>2. K = {}
          BY <4>1 DEF MutationsOf
        <4>3. QED
          BY <3>1, <3>2, <4>2
      <3>5. QED
        BY <2>1, <3>3, <3>4
    <2>2. CASE ~Flips(All)
      <3>1. keep = <<>> /\ K = {}
        BY <1>2, <2>2 DEF MutationsOf
      <3>2. ~Flips(K)
        BY <3>1 DEF Flips
      <3>3. QED
        BY <2>2, <3>1, <3>2
    <2>3. QED
      BY <2>1, <2>2
  <1>8. ASSUME Monotone, NEW S \in SUBSET K, Flips(S) PROVE S = K
    <2>1. SUFFICES ASSUME S # K PROVE FALSE
      OBVIOUS
    <2>2. PICK j \in 1..n : keep[j] \notin S
      BY <1>5, <2>1
    <2>3. Flips(All)
      BY <1>2, <1>5, <1>8 DEF Monotone
    <2>4. j \in 1..at - 1
      BY <1>2, <1>4, <2>3
    <2>5. ~Flips(K \ {keep[j]})
      BY <1>2, <1>8, <2>3, <2>4
    <2>6. S \subseteq K \ {keep[j]} /\ K \ {keep[j]} \in SUBSET All
      BY <1>5, <2>2
    <2>7. QED
      BY <1>2, <1>8, <2>5, <2>6 DEF Monotone
  <1>9. Flips(K) = Flips(All) /\ (keep = <<>>) = ~Flips(All)
    BY <1>7 DEF Flips
  <1>10. QED
    BY <1>5, <1>6, <1>8, <1>9 DEF MinimalTrue, All

-----------------------------------------------------------------------------
(* scan_breaking_points_on: what each probe reports.                         *)

PointTrue(p, f, baseline) ==
    CASE p.condition = "is closed" -> f[0] # f[1]
      [] p.condition = "drops below" -> f[p.value] /\ ~f[p.value - 1]
      [] p.condition = "reaches" -> ~f[p.value] /\ f[p.value - 1]
      [] p.condition = "changes" -> f[p.value] # baseline

NumberTyped(knob) ==
    knob.type \in {"lamports", "u64"} =>
        knob.today \in Nat /\ \A v \in 0..2 * knob.today : knob.outcome[v] \in BOOLEAN

\* Between equal ends no single place changes the outcome.
LEMMA OneCrossing ==
    ASSUME NEW f, NEW top \in Nat, Cardinality(Crossings(f, top)) = 1
    PROVE  f[0] # f[top]
  <1>1. IsFiniteSet(Crossings(f, top))
    <2>1. Crossings(f, top) \subseteq 1..top /\ IsFiniteSet(1..top)
      BY FS_Interval DEF Crossings
    <2>2. QED
      BY <2>1, FS_Subset
  <1>2. PICK v : Crossings(f, top) = {v}
    BY <1>1, FS_Singleton
  <1>3. v \in 1..top /\ f[v] # f[v - 1] /\ \A u \in 1..top : f[u] # f[u - 1] => u = v
    BY <1>2 DEF Crossings
  <1>4. \A u \in 0..v - 1 : f[u] = f[0]
    <2> DEFINE T == {u \in 0..v - 1 : f[u] # f[0]}
    <2>1. SUFFICES ASSUME T # {} PROVE FALSE
      OBVIOUS
    <2>2. T \in SUBSET Nat
      OBVIOUS
    <2>3. PICK u \in T : \A w \in T : u <= w
      <3> HIDE DEF T
      <3>1. QED
        BY <2>1, <2>2, Smallest
    <2>4. u \in 0..v - 1 /\ f[u] # f[0] /\ u # 0
      OBVIOUS
    <2>5. u - 1 \in 0..v - 1 /\ u \in 1..top /\ u # v /\ ~(u <= u - 1)
      BY <1>3, <2>4
    <2>6. u - 1 \notin T
      BY <2>3, <2>5
    <2>7. f[u - 1] = f[0]
      BY <2>5, <2>6
    <2>8. QED
      BY <1>3, <2>4, <2>5, <2>7
  <1>5. \A u \in v..top : f[u] = f[v]
    <2> DEFINE T == {u \in v..top : f[u] # f[v]}
    <2>1. SUFFICES ASSUME T # {} PROVE FALSE
      OBVIOUS
    <2>2. T \in SUBSET Nat
      BY <1>3
    <2>3. PICK u \in T : \A w \in T : u <= w
      <3> HIDE DEF T
      <3>1. QED
        BY <2>1, <2>2, Smallest
    <2>4. u \in v..top /\ f[u] # f[v] /\ u # v
      OBVIOUS
    <2>5. u - 1 \in v..top /\ u \in 1..top /\ ~(u <= u - 1)
      BY <1>3, <2>4
    <2>6. u - 1 \notin T
      BY <2>3, <2>5
    <2>7. f[u - 1] = f[v]
      BY <2>5, <2>6
    <2>8. QED
      BY <1>3, <2>4, <2>5, <2>7
  <1>6. v - 1 \in 0..v - 1 /\ top \in v..top
    BY <1>3
  <1>7. QED
    BY <1>3, <1>4, <1>5, <1>6

\* What a bracket of width one is.
LEMMA BracketsTyped ==
    ASSUME NEW f, NEW c, Brackets(f, c), c.hi = c.lo + 1
    PROVE  /\ c.lo \in Nat /\ c.hi \in Nat /\ c.hi >= 1 /\ c.hi - 1 = c.lo
           /\ c.low \in BOOLEAN /\ c.high \in BOOLEAN /\ c.low # c.high
           /\ f[c.lo] = c.low /\ f[c.hi] = c.high
  <1>1. c \in Narrowing /\ c.low # c.high /\ f[c.lo] = c.low /\ f[c.hi] = c.high
    BY DEF Brackets
  <1>2. c.lo \in Nat /\ c.hi \in Nat /\ c.low \in BOOLEAN /\ c.high \in BOOLEAN
    BY <1>1 DEF Narrowing
  <1> DEFINE u == c.lo
             v == c.hi
  <1>3. u \in Nat /\ v = u + 1
    BY <1>2
  <1> HIDE DEF u, v
  <1>4. v >= 1 /\ v - 1 = u
    BY <1>3
  <1>5. QED
    BY <1>1, <1>2, <1>4 DEF u, v

\* What a number is reported with.
NumberPoint(a, k, knob, p) ==
    \E c \in Narrowing :
        /\ Brackets(knob.outcome, c) /\ c.hi = c.lo + 1 /\ c.hi <= 2 * knob.today
        /\ \/ knob.type = "lamports" /\ c.hi <= 1 /\ p = Point(a, k, "is closed", 0)
           \/ p = Point(a, k, Phrase(c), c.hi)

LEMMA NumberProbed ==
    ASSUME NEW a, NEW k, NEW knob, NumberTyped(knob), NEW baseline, knob.type \in {"lamports", "u64"}
    PROVE  /\ \A p \in Probe(a, k, knob, baseline) : NumberPoint(a, k, knob, p)
           /\ knob.outcome[0] # knob.outcome[2 * knob.today] => Probe(a, k, knob, baseline) # {}
  <1> DEFINE f == knob.outcome
             top == 2 * knob.today
  <1>1. knob.today \in Nat /\ top \in Nat /\ \A v \in 0..top : f[v] \in BOOLEAN
    BY DEF NumberTyped
  <1>2. Probe(a, k, knob, baseline) = IF knob.type = "lamports" THEN ProbeLamports(a, k, knob)
                                      ELSE ProbeU64(a, k, knob)
    BY DEF Probe
  <1>3. CASE knob.today = 0
    <2>1. top = 0
      BY <1>3
    <2>2. ProbeLamports(a, k, knob) = {} /\ ProbeU64(a, k, knob) = {}
      BY <1>3 DEF ProbeLamports, ProbeU64
    <2> HIDE DEF top, f
    <2>3. Probe(a, k, knob, baseline) = {}
      BY <1>2, <2>2
    <2>4. f[0] = f[top]
      BY <2>1
    <2>5. QED
      BY <2>3, <2>4 DEF f, top
  <1>4. CASE knob.today # 0 /\ f[0] = f[top]
    <2>1. Threshold(f, 0, top) = <<>>
      <3> HIDE DEF f, top
      <3>1. QED
        BY <1>1, <1>4, ThresholdIs
    <2>2. Probe(a, k, knob, baseline) = {}
      BY <1>2, <1>4, <2>1 DEF ProbeLamports, ProbeU64
    <2>3. QED
      BY <1>4, <2>2
  <1>5. CASE knob.today # 0 /\ f[0] # f[top]
    <2>1. PICK c : /\ Threshold(f, 0, top) = <<c>>
                   /\ Brackets(f, c) /\ c.hi = c.lo + 1 /\ c.hi <= top
      <3> HIDE DEF f, top
      <3>1. QED
        BY <1>1, <1>5, ThresholdIs
    <2>2. <<c>> # <<>> /\ <<c>>[1] = c
      OBVIOUS
    <2>3. Probe(a, k, knob, baseline) =
            IF knob.type = "lamports" /\ c.hi <= 1 THEN {Point(a, k, "is closed", 0)}
            ELSE {Point(a, k, Phrase(c), c.hi)}
      BY <1>2, <1>5, <2>1, <2>2 DEF ProbeLamports, ProbeU64
    <2>4. c \in Narrowing
      BY <2>1 DEF Brackets
    <2>5. \A p \in Probe(a, k, knob, baseline) :
             \/ knob.type = "lamports" /\ c.hi <= 1 /\ p = Point(a, k, "is closed", 0)
             \/ p = Point(a, k, Phrase(c), c.hi)
      BY <2>3
    <2>6. \A p \in Probe(a, k, knob, baseline) : NumberPoint(a, k, knob, p)
      BY <2>1, <2>4, <2>5 DEF NumberPoint
    <2>7. QED
      BY <2>3, <2>6
  <1>6. QED
    BY <1>3, <1>4, <1>5

LEMMA ProbeIs ==
    ASSUME NEW a, NEW k, NEW knob, NumberTyped(knob), NEW baseline,
           NEW p \in Probe(a, k, knob, baseline)
    PROVE  p.account = a /\ p.knob = k /\ PointTrue(p, knob.outcome, baseline)
  <1> DEFINE f == knob.outcome
  <1>1. CASE knob.type \in {"lamports", "u64"}
    <2>1. PICK c \in Narrowing :
            /\ Brackets(f, c) /\ c.hi = c.lo + 1 /\ c.hi <= 2 * knob.today
            /\ \/ knob.type = "lamports" /\ c.hi <= 1 /\ p = Point(a, k, "is closed", 0)
               \/ p = Point(a, k, Phrase(c), c.hi)
      <3>1. NumberPoint(a, k, knob, p)
        BY <1>1, NumberProbed
      <3>2. QED
        BY <3>1 DEF NumberPoint
    <2>2. /\ c.lo \in Nat /\ c.hi \in Nat /\ c.hi >= 1 /\ c.hi - 1 = c.lo
          /\ c.low \in BOOLEAN /\ c.high \in BOOLEAN /\ c.low # c.high
          /\ f[c.lo] = c.low /\ f[c.hi] = c.high
      <3> HIDE DEF f
      <3>1. Brackets(f, c) /\ c.hi = c.lo + 1
        BY <2>1
      <3>2. QED
        BY <3>1, BracketsTyped
    <2>3. CASE c.hi <= 1 /\ p = Point(a, k, "is closed", 0)
      <3>1. c.lo = 0 /\ c.hi = 1
        <4> DEFINE u == c.lo
                   v == c.hi
        <4>1. u \in Nat /\ v \in Nat /\ v >= 1 /\ v <= 1 /\ v - 1 = u
          BY <2>2, <2>3
        <4> HIDE DEF u, v
        <4>2. u = 0 /\ v = 1
          BY <4>1
        <4>3. QED
          BY <4>2 DEF u, v
      <3>2. p.account = a /\ p.knob = k /\ p.condition = "is closed"
        BY <2>3 DEF Point
      <3>3. f[0] # f[1]
        BY <2>2, <3>1
      <3>4. QED
        BY <3>2, <3>3 DEF PointTrue
    <2>4. CASE p = Point(a, k, Phrase(c), c.hi)
      <3>1. p.account = a /\ p.knob = k /\ p.condition = Phrase(c) /\ p.value = c.hi
        BY <2>4 DEF Point
      <3>2. CASE c.low
        <4>1. p.condition = "reaches" /\ ~f[p.value] /\ f[p.value - 1]
          BY <2>2, <3>1, <3>2 DEF Phrase
        <4>2. QED
          BY <3>1, <4>1 DEF PointTrue
      <3>3. CASE ~c.low
        <4>1. p.condition = "drops below" /\ f[p.value] /\ ~f[p.value - 1]
          BY <2>2, <3>1, <3>3 DEF Phrase
        <4>2. QED
          BY <3>1, <4>1 DEF PointTrue
      <3>4. QED
        BY <3>2, <3>3
    <2>5. QED
      BY <2>1, <2>3, <2>4
  <1>2. CASE knob.type = "u8"
    <2>1. PICK i \in DOMAIN Candidates :
            FlipsAt(knob, Candidates[i], baseline) /\ p = Point(a, k, "changes", Candidates[i])
      <3>1. Probe(a, k, knob, baseline) = ProbeU8(a, k, knob, baseline)
        BY <1>2 DEF Probe
      <3>2. p \in ProbeU8(a, k, knob, baseline)
        BY <3>1
      <3>3. QED
        BY <3>2 DEF ProbeU8
    <2>2. p.account = a /\ p.knob = k /\ p.condition = "changes" /\ f[p.value] # baseline
      BY <2>1 DEF Point, FlipsAt
    <2>3. QED
      BY <2>2 DEF PointTrue
  <1>3. CASE knob.type \in {"owner", "pubkey"}
    <2>1. FlipsAt(knob, 1, baseline) /\ p = Point(a, k, "changes", 1)
      <3>1. Probe(a, k, knob, baseline) = ProbeOther(a, k, knob, baseline)
        BY <1>3 DEF Probe
      <3>2. p \in ProbeOther(a, k, knob, baseline)
        BY <3>1
      <3>3. QED
        BY <3>2 DEF ProbeOther
    <2>2. p.account = a /\ p.knob = k /\ p.condition = "changes" /\ f[p.value] # baseline
      BY <2>1 DEF Point, FlipsAt
    <2>3. QED
      BY <2>2 DEF PointTrue
  <1>4. CASE knob.type \notin {"lamports", "u64", "u8", "owner", "pubkey"}
    BY <1>4 DEF Probe
  <1>5. QED
    BY <1>1, <1>2, <1>3, <1>4

LEMMA NumberFound ==
    ASSUME NEW a, NEW k, NEW knob, NumberTyped(knob), NEW baseline, knob.type \in {"lamports", "u64"},
           Cardinality(Crossings(knob.outcome, 2 * knob.today)) = 1
    PROVE  \E p \in Probe(a, k, knob, baseline) :
              /\ p.account = a /\ p.knob = k
              /\ p.value \in Crossings(knob.outcome, 2 * knob.today) \cup {0}
  <1> DEFINE f == knob.outcome
             top == 2 * knob.today
  <1>1. top \in Nat
    BY DEF NumberTyped
  <1>2. f[0] # f[top]
    BY <1>1, OneCrossing
  <1>3. PICK p \in Probe(a, k, knob, baseline) : NumberPoint(a, k, knob, p)
    BY <1>2, NumberProbed
  <1>4. PICK c \in Narrowing :
          /\ Brackets(f, c) /\ c.hi = c.lo + 1 /\ c.hi <= top
          /\ \/ knob.type = "lamports" /\ c.hi <= 1 /\ p = Point(a, k, "is closed", 0)
             \/ p = Point(a, k, Phrase(c), c.hi)
    BY <1>3 DEF NumberPoint
  <1>5. c.lo \in Nat /\ c.hi \in Nat /\ c.hi >= 1 /\ c.hi - 1 = c.lo /\ f[c.lo] # f[c.hi]
    <2> HIDE DEF f, top
    <2>1. Brackets(f, c) /\ c.hi = c.lo + 1
      BY <1>4
    <2>2. QED
      BY <2>1, BracketsTyped
  <1>6. c.hi \in 1..top
    <2> DEFINE v == c.hi
    <2>1. v \in Nat /\ v >= 1 /\ v <= top
      BY <1>4, <1>5
    <2> HIDE DEF v, top
    <2>2. v \in 1..top
      BY <1>1, <2>1
    <2>3. QED
      BY <2>2 DEF v
  <1>7. c.hi \in Crossings(f, top)
    <2> HIDE DEF f, top
    <2>1. f[c.hi] # f[c.hi - 1]
      BY <1>5
    <2>2. QED
      BY <1>6, <2>1 DEF Crossings
  <1>8. p = Point(a, k, "is closed", 0) \/ p = Point(a, k, Phrase(c), c.hi)
    BY <1>4
  <1>9. p.account = a /\ p.knob = k /\ p.value \in {0, c.hi}
    <2> DEFINE w == Phrase(c)
               v == c.hi
    <2>1. CASE p = Point(a, k, "is closed", 0)
      BY <2>1 DEF Point
    <2>2. CASE p = Point(a, k, w, v)
      <3> HIDE DEF w, v
      <3>1. p.account = a /\ p.knob = k /\ p.value = v
        BY <2>2 DEF Point
      <3>2. QED
        BY <3>1 DEF v
    <2>3. QED
      BY <1>8, <2>1, <2>2
  <1>10. QED
    BY <1>7, <1>9

-----------------------------------------------------------------------------
(* The sweep: what it reports is what the accounts it is done with give.     *)

Sweeping == {"sweep", "swept", "failed"}
SweepInv ==
    /\ hunt \in Sweeping =>
         /\ swept \in Sweeps /\ at \in Nat \ {0} /\ at - 1 <= Len(swept.accounts)
         /\ points = UNION {PointsOf(a, swept.accounts[a], swept.baseline) : a \in 1..at - 1}
         /\ hunt = "sweep" => at <= Len(swept.accounts)
         /\ hunt = "swept" => at > Len(swept.accounts) \/ at > MaxAccounts
    /\ hunt \notin Sweeping => points = {}

LEMMA GivenIs ==
    ASSUME NEW s \in Sweeps
    PROVE  /\ Len(s.accounts) \in Nat /\ DOMAIN s.accounts = 1..Len(s.accounts)
           /\ (Len(s.accounts) = 0) <=> (s.accounts = <<>>)
           /\ \A a \in DOMAIN s.accounts : \A k \in DOMAIN s.accounts[a].knobs :
                 NumberTyped(s.accounts[a].knobs[k])
  <1> DEFINE q == s.accounts
             V == {q[a] : a \in DOMAIN q}
  <1>1. q \in Seq(V)
    BY SearchAssumption
  <1>2. \A a \in DOMAIN q : \A k \in DOMAIN q[a].knobs : NumberTyped(q[a].knobs[k])
    BY SearchAssumption DEF NumberTyped
  <1> HIDE DEF q, V
  <1>3. Len(q) \in Nat /\ DOMAIN q = 1..Len(q)
    BY <1>1
  <1>4. Len(q) = 0 <=> q = <<>>
    BY <1>1, <1>3
  <1>5. QED
    BY <1>2, <1>3, <1>4 DEF q

LEMMA SweepKeeps ==
    ASSUME SweepInv, Sweep
    PROVE  SweepInv'
  <1> DEFINE account == swept.accounts[at]
             G(a) == PointsOf(a, swept.accounts[a], swept.baseline)
  <1>1. /\ hunt = "sweep" /\ swept' = swept
        /\ \/ /\ points' = points \cup G(at) /\ at' = at + 1
              /\ hunt' = IF at' > Len(swept.accounts) \/ at' > MaxAccounts THEN "swept" ELSE hunt
           \/ hunt' = "failed" /\ points' = points /\ at' = at
    BY DEF Sweep
  <1>2. /\ swept \in Sweeps /\ at \in Nat \ {0} /\ at <= Len(swept.accounts)
        /\ points = UNION {G(a) : a \in 1..at - 1}
    BY <1>1 DEF SweepInv, Sweeping
  <1>3. Len(swept.accounts) \in Nat
    BY <1>2, GivenIs
  <1>4. hunt' \in Sweeping
    BY <1>1 DEF Sweeping
  <1> HIDE DEF G
  <1>5. points' = UNION {G(a) : a \in 1..at' - 1}
    <2>1. CASE points' = points \cup G(at) /\ at' = at + 1
      <3>1. 1..at' - 1 = (1..at - 1) \cup {at}
        BY <1>2, <2>1
      <3>2. QED
        BY <1>2, <2>1, <3>1
    <2>2. CASE points' = points /\ at' = at
      BY <1>2, <2>2
    <2>3. QED
      BY <1>1, <2>1, <2>2
  <1>6. points' = UNION {PointsOf(a, swept.accounts[a], swept.baseline)' : a \in 1..at' - 1}
    BY <1>1, <1>5 DEF G
  <1>7. at' \in Nat \ {0} /\ at' - 1 <= Len(swept.accounts)
    BY <1>1, <1>2, <1>3
  <1>8. /\ hunt' = "sweep" => at' <= Len(swept.accounts)
        /\ hunt' = "swept" => at' > Len(swept.accounts) \/ at' > MaxAccounts
    BY <1>1, <1>3, <1>7
  <1>9. QED
    BY <1>1, <1>2, <1>4, <1>6, <1>7, <1>8 DEF SweepInv

LEMMA SweepSound == SweepInv => SweepTrue
  <1>1. SUFFICES ASSUME SweepInv PROVE SweepTrue
    OBVIOUS
  <1> DEFINE accounts == swept.accounts
  <1>2. ASSUME NEW p \in points
        PROVE  PointTrue(p, accounts[p.account].knobs[p.knob].outcome, swept.baseline)
    <2>1. /\ swept \in Sweeps /\ at \in Nat \ {0} /\ at - 1 <= Len(accounts)
          /\ points = UNION {PointsOf(a, accounts[a], swept.baseline) : a \in 1..at - 1}
      BY <1>1, <1>2 DEF SweepInv
    <2>2. PICK a \in 1..at - 1 : p \in PointsOf(a, accounts[a], swept.baseline)
      BY <2>1
    <2>3. PICK k \in DOMAIN accounts[a].knobs : p \in Probe(a, k, accounts[a].knobs[k], swept.baseline)
      BY <2>2 DEF PointsOf
    <2>4. a \in DOMAIN accounts
      BY <2>1, GivenIs
    <2>5. NumberTyped(accounts[a].knobs[k])
      BY <2>1, <2>4, GivenIs
    <2>6. p.account = a /\ p.knob = k /\ PointTrue(p, accounts[a].knobs[k].outcome, swept.baseline)
      BY <2>3, <2>5, ProbeIs
    <2>7. QED
      BY <2>6
  <1>3. ASSUME hunt = "swept", NEW a \in DOMAIN accounts, a <= MaxAccounts, ~PassedOver(accounts[a]),
               NEW k \in DOMAIN accounts[a].knobs
        PROVE  LET knob == accounts[a].knobs[k]
                   before == {j \in 1..k - 1 : Tried(accounts[a].knobs[j])}
               IN  /\ knob.type = "lamports" \/ (knob.type = "u64" /\ Cardinality(before) < MaxFields)
                   /\ Cardinality(Crossings(knob.outcome, 2 * knob.today)) = 1
                   => \E p \in points : p.account = a /\ p.knob = k
                         /\ p.value \in Crossings(knob.outcome, 2 * knob.today) \cup {0}
    <2> DEFINE knobs == accounts[a].knobs
               knob == knobs[k]
               baseline == swept.baseline
               before == {j \in 1..k - 1 : Tried(knobs[j])}
    <2>1. SUFFICES ASSUME knob.type = "lamports" \/ (knob.type = "u64" /\ Cardinality(before) < MaxFields),
                          Cardinality(Crossings(knob.outcome, 2 * knob.today)) = 1
                   PROVE  \E p \in points : p.account = a /\ p.knob = k
                             /\ p.value \in Crossings(knob.outcome, 2 * knob.today) \cup {0}
      OBVIOUS
    <2>2. /\ swept \in Sweeps /\ at \in Nat \ {0}
          /\ points = UNION {PointsOf(c, accounts[c], baseline) : c \in 1..at - 1}
          /\ at > Len(accounts) \/ at > MaxAccounts
      BY <1>1, <1>3 DEF SweepInv, Sweeping
    <2>3. a \in 1..at - 1
      <3>1. Len(accounts) \in Nat /\ a \in 1..Len(accounts) /\ MaxAccounts \in Nat
        BY <2>2, GivenIs, SearchAssumption
      <3>2. QED
        BY <1>3, <2>2, <3>1
    <2>4. NumberTyped(knob)
      BY <2>2, GivenIs
    <2> HIDE DEF knob
    <2>5. PICK p \in Probe(a, k, knob, baseline) :
            /\ p.account = a /\ p.knob = k
            /\ p.value \in Crossings(knob.outcome, 2 * knob.today) \cup {0}
      BY <2>1, <2>4, NumberFound
    <2>6. Within(knobs, k)
      BY <2>1 DEF Within, knob
    <2>7. p \in PointsOf(a, accounts[a], baseline)
      BY <1>3, <2>5, <2>6 DEF PointsOf, knob
    <2>8. p \in points
      BY <2>2, <2>3, <2>7
    <2>9. QED
      BY <2>5, <2>8
  <1>4. QED
    BY <1>2, <1>3 DEF SweepTrue, PointTrue

-----------------------------------------------------------------------------
(* The comparison of builds, and the four together: each search leaves what  *)
(* the others keep alone.                                                    *)

ComparisonInv ==
    /\ hunt = "patch" => build \in {Unpatched, [Unpatched EXCEPT !.elf = "none"]}
    /\ PatchUndone

LEMMA CompareKeeps ==
    ASSUME ComparisonInv, ComparePatch
    PROVE  ComparisonInv'
  <1>1. hunt = "patch" /\ hunt' = "compared" /\ build' = Compared(build)
    BY DEF ComparePatch
  <1>2. build \in {Unpatched, [Unpatched EXCEPT !.elf = "none"]}
    BY <1>1 DEF ComparisonInv
  <1>3. CASE build = Unpatched
    <2>1. build'.elf = "original"
      BY <1>1, <1>3 DEF Compared, Unpatched
    <2>2. QED
      BY <1>1, <2>1 DEF ComparisonInv, PatchUndone
  <1>4. CASE build = [Unpatched EXCEPT !.elf = "none"]
    <2>1. build'.elf = "none"
      BY <1>1, <1>4 DEF Compared, Unpatched
    <2>2. QED
      BY <1>1, <2>1 DEF ComparisonInv, PatchUndone
  <1>5. QED
    BY <1>2, <1>3, <1>4

SearchInv == ThresholdInv /\ MinimizeInv /\ SweepInv /\ ComparisonInv

LEMMA SearchInitInv == SearchInit => SearchInv
  <1>1. SUFFICES ASSUME SearchInit PROVE SearchInv
    OBVIOUS
  <1>2. bounds = NoBounds /\ keep = Offered /\ at = 1 /\ points = {}
    BY <1>1 DEF SearchInit
  <1>3. ThresholdInv
    <2>1. hunt \in Seeking => hunt = "threshold" /\ effect \in [0..Top -> BOOLEAN]
      BY <1>1 DEF SearchInit, Seeking
    <2>2. QED
      BY <1>2, <2>1 DEF ThresholdInv
  <1>4. MinimizeInv
    <2>1. hunt \in Minimizing => hunt = "minimize" /\ effect \in [SUBSET All -> BOOLEAN]
      BY <1>1 DEF SearchInit, Minimizing, All
    <2>2. keep \in Seq(All) /\ Len(keep) \in Nat /\ MutationsOf(keep) = All
      BY <1>2, OfferedIs DEF All
    <2>3. \E p : Placed(keep, p)
      <3>1. Placed(keep, [i \in 1..Len(keep) |-> i])
        BY <1>2 DEF Placed
      <3>2. QED
        BY <3>1
    <2>4. at \in 1..Len(keep) + 1 /\ \A j \in 1..at - 1 : FALSE
      BY <1>2, <2>2
    <2>5. QED
      BY <1>2, <2>1, <2>2, <2>3, <2>4 DEF MinimizeInv
  <1>5. SweepInv
    <2>1. hunt \in Sweeping =>
            /\ swept \in Sweeps
            /\ \/ hunt = "sweep" /\ swept.accounts # <<>>
               \/ hunt = "swept" /\ (swept.accounts = <<>> \/ MaxAccounts = 0)
      BY <1>1 DEF SearchInit, Sweeping
    <2>2. ASSUME swept \in Sweeps
          PROVE  /\ at - 1 <= Len(swept.accounts)
                 /\ swept.accounts # <<>> => at <= Len(swept.accounts)
                 /\ swept.accounts = <<>> \/ MaxAccounts = 0 => at > Len(swept.accounts) \/ at > MaxAccounts
      BY <1>2, <2>2, GivenIs
    <2>3. points = UNION {PointsOf(a, swept.accounts[a], swept.baseline) : a \in 1..at - 1}
      BY <1>2
    <2>4. QED
      BY <1>2, <2>1, <2>2, <2>3 DEF SweepInv
  <1>6. ComparisonInv
    BY <1>1 DEF SearchInit, ComparisonInv, PatchUndone
  <1>7. QED
    BY <1>3, <1>4, <1>5, <1>6 DEF SearchInv

LEMMA SearchNextInv == SearchInv /\ [SearchNext]_searchVars => SearchInv'
  <1>1. SUFFICES ASSUME SearchInv, [SearchNext]_searchVars PROVE SearchInv'
    OBVIOUS
  <1>2. ThresholdInv /\ MinimizeInv /\ SweepInv /\ ComparisonInv
    BY <1>1 DEF SearchInv
  \* A search leaves the invariants of the others alone.
  <1>3. ASSUME hunt \notin Seeking, hunt' \notin Seeking, bounds' = bounds PROVE ThresholdInv'
    BY <1>2, <1>3 DEF ThresholdInv
  <1>4. ASSUME hunt' \notin Minimizing PROVE MinimizeInv'
    BY <1>4 DEF MinimizeInv
  <1>5. ASSUME hunt \notin Sweeping, hunt' \notin Sweeping, points' = points PROVE SweepInv'
    BY <1>2, <1>5 DEF SweepInv
  <1>6. ASSUME hunt' \notin {"patch", "compared"} PROVE ComparisonInv'
    BY <1>6 DEF ComparisonInv, PatchUndone
  <1>7. CASE \E lo, hi \in 0..Top : Look(lo, hi)
    <2>1. hunt = "threshold" /\ hunt' \in {"threshold", "found"} /\ points' = points
      BY <1>7 DEF Look
    <2>2. ThresholdInv'
      BY <1>2, <1>7, LookKeeps
    <2>3. QED
      BY <1>4, <1>5, <1>6, <2>1, <2>2 DEF SearchInv, Minimizing, Sweeping
  <1>8. CASE Narrow
    <2>1. hunt = "threshold" /\ hunt' \in {"threshold", "found"} /\ points' = points
      BY <1>8 DEF Narrow
    <2>2. ThresholdInv'
      BY <1>2, <1>8, NarrowKeeps
    <2>3. QED
      BY <1>4, <1>5, <1>6, <2>1, <2>2 DEF SearchInv, Minimizing, Sweeping
  <1>9. CASE Everything
    <2>1. hunt = "minimize" /\ hunt' = "minimized" /\ points' = points /\ bounds' = bounds
      BY <1>9 DEF Everything
    <2>2. MinimizeInv'
      BY <1>2, <1>9, EverythingKeeps
    <2>3. QED
      BY <1>3, <1>5, <1>6, <2>1, <2>2 DEF SearchInv, Seeking, Sweeping
  <1>10. CASE TryWithout
    <2>1. hunt = "minimize" /\ hunt' \in {"minimize", "minimized"} /\ points' = points /\ bounds' = bounds
      BY <1>10 DEF TryWithout
    <2>2. MinimizeInv'
      BY <1>2, <1>10, TryKeeps
    <2>3. QED
      BY <1>3, <1>5, <1>6, <2>1, <2>2 DEF SearchInv, Seeking, Sweeping
  <1>11. CASE Sweep
    <2>1. hunt = "sweep" /\ hunt' \in {"sweep", "swept", "failed"} /\ bounds' = bounds
      BY <1>11 DEF Sweep
    <2>2. SweepInv'
      BY <1>2, <1>11, SweepKeeps
    <2>3. QED
      BY <1>3, <1>4, <1>6, <2>1, <2>2 DEF SearchInv, Seeking, Minimizing
  <1>12. CASE ComparePatch
    <2>1. hunt = "patch" /\ hunt' = "compared" /\ points' = points /\ bounds' = bounds
      BY <1>12 DEF ComparePatch
    <2>2. ComparisonInv'
      BY <1>2, <1>12, CompareKeeps
    <2>3. QED
      BY <1>3, <1>4, <1>5, <2>1, <2>2 DEF SearchInv, Seeking, Minimizing, Sweeping
  <1>13. CASE UNCHANGED searchVars
    <2>1. /\ hunt' = hunt /\ effect' = effect /\ bounds' = bounds /\ keep' = keep /\ at' = at
          /\ swept' = swept /\ points' = points /\ build' = build
      BY <1>13 DEF searchVars
    <2>2. ThresholdInv'
      BY <1>2, <2>1 DEF ThresholdInv, Looked
    <2>3. MinimizeInv'
      BY <1>2, <2>1 DEF MinimizeInv, Placed, Flips, Monotone
    <2>4. SweepInv'
      BY <1>2, <2>1 DEF SweepInv
    <2>5. ComparisonInv'
      BY <1>2, <2>1 DEF ComparisonInv, PatchUndone
    <2>6. QED
      BY <2>2, <2>3, <2>4, <2>5 DEF SearchInv
  <1>14. QED
    BY <1>1, <1>7, <1>8, <1>9, <1>10, <1>11, <1>12, <1>13 DEF SearchNext

\* What the searches over what-ifs report is true of the replays they ran,
\* whatever the replays answer: a threshold that is found is one and took no
\* more turns than the range has halvings, the mutations that are kept flip
\* the outcome and, where more never undo a flip, no smaller part of them
\* does, a breaking point of the sweep breaks there and a number with one
\* crossing is reported at it, and a comparison leaves the world its build.
THEOREM SearchSound == SearchSpec => []SearchTrue
  <1>1. SearchInv => SearchTrue
    <2>1. SUFFICES ASSUME SearchInv PROVE SearchTrue
      OBVIOUS
    <2>2. ThresholdTrue /\ MinimalTrue /\ SweepTrue
      BY <2>1, ThresholdSound, MinimizeSound, SweepSound DEF SearchInv
    <2>3. PatchUndone
      BY <2>1 DEF SearchInv, ComparisonInv
    <2>4. QED
      BY <2>2, <2>3 DEF SearchTrue
  <1>2. QED
    BY <1>1, SearchInitInv, SearchNextInv, PTL DEF SearchSpec
=============================================================================
