---------------------------- MODULE BundleProofs ----------------------------
(***************************************************************************)
(* Bundle replay, for any history, runtime, list of steps and edits, and   *)
(* any requests at once: resuming from a kept run gives what replaying     *)
(* from the first step gives; a step is entered with history's state or    *)
(* names what differs; an edit reaches a later step along an edge.         *)
(***************************************************************************)
EXTENDS Bundle, SequenceTheorems, WellFoundedInduction, TLAPS

-----------------------------------------------------------------------------
(* Numbers.                                                                *)

\* The least of a set of numbers.
LEMMA Smallest ==
    ASSUME NEW T \in SUBSET Nat, T # {}
    PROVE  \E i \in T : \A j \in T : i <= j
  <1> DEFINE R == {ss \in Nat \X Nat : ss[1] < ss[2]}
  <1>1. R = OpToRel(<, Nat)
    BY Zenon DEF OpToRel
  <1>2. IsWellFoundedOn(R, Nat)
    BY <1>1, NatLessThanWellFounded, Zenon
  <1>3. PICK i \in T : \A j \in T : <<j, i>> \notin R
    <2> HIDE DEF R
    <2>1. T \subseteq Nat
      OBVIOUS
    <2>2. QED
      BY <1>2, <2>1, WFMin, Zenon
  <1>4. \A j \in T : i <= j
    <2>1. TAKE j \in T
    <2>2. i \in Nat /\ j \in Nat
      OBVIOUS
    <2>3. <<j, i>> \notin R
      BY <1>3
    <2>4. ~(j < i)
      BY <2>2, <2>3
    <2>5. QED
      BY <2>2, <2>4
  <1>5. QED
    BY <1>4

\* What holds of the first of some numbers and passes from each to the next
\* holds of all of them: induction, over the set of those it holds of.
LEMMA EveryStep ==
    ASSUME NEW n \in Nat, NEW T, 1 \in T, \A i \in 1..n : i \in T => i + 1 \in T
    PROVE  1..n + 1 \subseteq T
  <1>1. SUFFICES ASSUME (1..n + 1) \ T # {} PROVE FALSE
    OBVIOUS
  <1>2. PICK i \in (1..n + 1) \ T : \A j \in (1..n + 1) \ T : i <= j
    <2>1. (1..n + 1) \ T \in SUBSET Nat
      OBVIOUS
    <2>2. QED
      BY <1>1, <2>1, Smallest
  <1>3. i # 1 /\ i - 1 \in 1..n /\ i - 1 + 1 = i
    BY <1>2
  <1>4. i - 1 \in T
    <2>1. i - 1 \in 1..n + 1 /\ ~(i <= i - 1)
      BY <1>3
    <2>2. QED
      BY <1>2, <2>1
  <1>5. QED
    BY <1>2, <1>3, <1>4

\* The first edited step.
LEMMA FirstIs ==
    ASSUME NEW e \in Edits
    PROVE  /\ FirstEdited(e) \in 1..MaxSteps + 1
           /\ \A k \in DOMAIN e : k \in 1..MaxSteps /\ FirstEdited(e) <= k
  <1>1. DOMAIN e \subseteq 1..MaxSteps /\ MaxSteps \in Nat
    BY BundleAssumption
  <1>2. CASE DOMAIN e = {}
    BY <1>1, <1>2 DEF FirstEdited
  <1>3. CASE DOMAIN e # {}
    <2>1. DOMAIN e \in SUBSET Nat
      BY <1>1
    <2>2. \E k \in DOMAIN e : \A j \in DOMAIN e : k <= j
      BY <1>3, <2>1, Smallest
    <2>3. FirstEdited(e) \in DOMAIN e /\ \A j \in DOMAIN e : FirstEdited(e) <= j
      BY <1>3, <2>2 DEF FirstEdited
    <2>4. QED
      BY <1>1, <2>3
  <1>4. QED
    BY <1>2, <1>3

-----------------------------------------------------------------------------
(* The recursive functions of the model exist: each of the first m values  *)
(* follows from the one before it.                                         *)

\* States of a run from the start.
ScratchStep(edits, x, i) == IF i = 1 THEN Entry ELSE NextState(i - 1, x[i - 1], edits)
ScratchIs(edits) ==
    /\ FromScratch(edits, 1) = Entry
    /\ \A k \in Steps : FromScratch(edits, k + 1) = NextState(k, FromScratch(edits, k), edits)

LEMMA ScratchExists ==
    ASSUME Len(bundle.steps) \in Nat, NEW edits
    PROVE  ScratchIs(edits)
  <1> DEFINE n == Len(bundle.steps)
             next(x, m) == [i \in 1..m |-> IF i = 1 THEN Entry
                                           ELSE NextState(i - 1, x[i - 1], edits)]
             T == {m \in Nat : \E x : x = next(x, m)}
  <1>1. 1 \in T
    <2> DEFINE x == [i \in 1..1 |-> Entry]
    <2>1. x = next(x, 1)
      OBVIOUS
    <2> HIDE DEF x, next
    <2>2. QED
      BY <2>1
  <1>2. ASSUME NEW m \in 1..n, m \in T PROVE m + 1 \in T
    <2> HIDE DEF next
    <2>1. PICK x : x = next(x, m)
      BY <1>2
    <2> DEFINE y == [i \in 1..m + 1 |-> IF i = m + 1 THEN NextState(m, x[m], edits) ELSE x[i]]
    <2>2. m \in Nat /\ m >= 1
      OBVIOUS
    <2>3. ASSUME NEW i \in 1..m + 1 PROVE y[i] = next(y, m + 1)[i]
      <3> USE DEF next
      <3>1. CASE i = m + 1
        <4>1. i - 1 = m /\ i # 1 /\ m \in 1..m + 1 /\ m # m + 1
          BY <2>2, <3>1
        <4>2. y[m] = x[m]
          BY <4>1
        <4> HIDE DEF y
        <4>3. next(y, m + 1)[i] = NextState(m, x[m], edits)
          BY <4>1, <4>2
        <4>4. y[i] = NextState(m, x[m], edits)
          BY <3>1 DEF y
        <4>5. QED
          BY <4>3, <4>4
      <3>2. CASE i # m + 1
        <4>1. i \in 1..m /\ y[i] = x[i]
          BY <2>2, <3>2
        <4>2. x[i] = next(x, m)[i]
          BY <2>1
        <4>3. CASE i = 1
          BY <4>1, <4>2, <4>3
        <4>4. CASE i # 1
          <5>1. i - 1 \in 1..m + 1 /\ i - 1 # m + 1
            BY <2>2, <3>2, <4>4
          <5>2. y[i - 1] = x[i - 1]
            BY <5>1
          <5> HIDE DEF y
          <5>3. QED
            BY <4>1, <4>2, <4>4, <5>2
        <4>5. QED
          BY <4>3, <4>4
      <3>3. QED
        BY <3>1, <3>2
    <2>4. y = [i \in 1..m + 1 |-> y[i]]
      OBVIOUS
    <2>5. next(y, m + 1) = [i \in 1..m + 1 |-> next(y, m + 1)[i]]
      BY DEF next
    <2> HIDE DEF y
    <2>6. y = next(y, m + 1)
      BY <2>3, <2>4, <2>5
    <2>7. m + 1 \in Nat
      BY <2>2
    <2>8. QED
      BY <2>6, <2>7
  <1>3. n + 1 \in T
    <2> HIDE DEF T
    <2>1. 1..n + 1 \subseteq T
      BY <1>1, <1>2, EveryStep
    <2>2. QED
      BY <2>1
  <1> DEFINE s[i \in 1..n + 1] == IF i = 1 THEN Entry ELSE NextState(i - 1, s[i - 1], edits)
  <1>4. \A k : FromScratch(edits, k) = s[k]
    BY DEF FromScratch
  <1>5. s = CHOOSE x : x = next(x, n + 1)
    BY Zenon DEF s
  <1>6. s = next(s, n + 1)
    <2> HIDE DEF s, next
    <2>1. QED
      BY <1>3, <1>5
  <1> HIDE DEF s
  <1>7. s[1] = Entry
    <2>1. next(s, n + 1)[1] = Entry
      OBVIOUS
    <2> HIDE DEF next
    <2>2. QED
      BY <1>6, <2>1
  <1>8. ASSUME NEW k \in Steps PROVE s[k + 1] = NextState(k, s[k], edits)
    <2>1. k \in 1..n /\ k + 1 \in 1..n + 1 /\ k + 1 # 1 /\ k + 1 - 1 = k
      BY DEF Steps
    <2>2. next(s, n + 1)[k + 1] = NextState(k, s[k], edits)
      BY <2>1
    <2> HIDE DEF next
    <2>3. QED
      BY <1>6, <2>2
  <1>9. QED
    BY <1>4, <1>7, <1>8 DEF ScratchIs
-----------------------------------------------------------------------------
(* Runs and what is kept of them.                                          *)

Reported(edits, k) == Report(k, FromScratch(edits, k), edits)
StatesTo(edits, k) == [i \in 1..k - 1 |-> FromScratch(edits, i)]
ReportsTo(edits, k) == [i \in 1..k - 1 |-> Reported(edits, i)]

\* As long as the bundle is the same, so is every run of it.
LEMMA SameBundle ==
    ASSUME bundle' = bundle
    PROVE  /\ \A e, k : FromScratch(e, k)' = FromScratch(e, k)
           /\ \A e, k : Reported(e, k)' = Reported(e, k)
           /\ \A e, k : StatesTo(e, k)' = StatesTo(e, k)
           /\ \A e, k : ReportsTo(e, k)' = ReportsTo(e, k)
  <1>1. ASSUME NEW e, NEW k PROVE FromScratch(e, k)' = FromScratch(e, k)
    BY SMT DEF FromScratch, NextState, Entry, Ran, EditsOf, WithCreated, LaterNames, Names, Steps
  <1>2. ASSUME NEW e, NEW k, NEW s PROVE Report(k, s, e)' = Report(k, s, e)
    BY SMT DEF Report, Ran, EditsOf, Names
  <1>3. ASSUME NEW e, NEW k PROVE Reported(e, k)' = Reported(e, k)
    <2>1. FromScratch(e, k)' = FromScratch(e, k)
      BY <1>1
    <2>2. Reported(e, k)' = Report(k, FromScratch(e, k), e)'
      BY <2>1 DEF Reported
    <2>3. QED
      BY <2>1, <2>2, <1>2 DEF Reported
  <1>4. ASSUME NEW e, NEW k PROVE StatesTo(e, k)' = StatesTo(e, k)
    BY <1>1 DEF StatesTo
  <1>5. ASSUME NEW e, NEW k PROVE ReportsTo(e, k)' = ReportsTo(e, k)
    BY <1>3 DEF ReportsTo
  <1>6. QED
    BY <1>1, <1>3, <1>4, <1>5

\* A function of 1..m is a sequence; one more value is an append, fewer a cut.
IsList(f, m) == f = [i \in 1..m |-> f[i]]

LEMMA Listed ==
    ASSUME NEW m \in Nat, NEW f, IsList(f, m)
    PROVE  /\ Len(f) = m
           /\ \A l \in 0..m : SubSeq(f, 1, l) = [i \in 1..l |-> f[i]]
  <1> DEFINE S == {f[i] : i \in 1..m}
  <1>1. f \in Seq(S) /\ Len(f) = m
    BY IsASeq DEF IsList
  <1>2. ASSUME NEW l \in 0..m PROVE SubSeq(f, 1, l) = [i \in 1..l |-> f[i]]
    BY <1>1
  <1>3. QED
    BY <1>1, <1>2

LEMMA Extended ==
    ASSUME NEW m \in Nat, NEW f, NEW g, IsList(f, m), IsList(g, m + 1),
           \A i \in 1..m : g[i] = f[i]
    PROVE  Append(f, g[m + 1]) = g
  <1> DEFINE S == {f[i] : i \in 1..m}
  <1>1. f \in Seq(S) /\ Len(f) = m
    BY IsASeq DEF IsList
  <1>2. Append(f, g[m + 1]) = [i \in 1..m + 1 |-> IF i = m + 1 THEN g[m + 1] ELSE f[i]]
    BY <1>1
  <1>3. ASSUME NEW i \in 1..m + 1 PROVE g[i] = IF i = m + 1 THEN g[m + 1] ELSE f[i]
    <2>1. CASE i = m + 1
      BY <2>1
    <2>2. CASE i # m + 1
      <3>1. i \in 1..m
        BY <2>2
      <3>2. QED
        BY <2>2, <3>1
    <2>3. QED
      BY <2>1, <2>2
  <1>4. QED
    BY <1>2, <1>3 DEF IsList

LEMMA ListsOfRuns ==
    ASSUME NEW e, NEW k \in Nat \ {0}
    PROVE  /\ StatesTo(e, 1) = <<>> /\ ReportsTo(e, 1) = <<>>
           /\ Len(StatesTo(e, k)) = k - 1 /\ Len(ReportsTo(e, k)) = k - 1
           /\ Append(StatesTo(e, k), FromScratch(e, k)) = StatesTo(e, k + 1)
           /\ Append(ReportsTo(e, k), Reported(e, k)) = ReportsTo(e, k + 1)
           /\ \A l \in 1..k : SubSeq(ReportsTo(e, k), 1, l - 1) = ReportsTo(e, l)
  <1>1. k - 1 \in Nat /\ k - 1 + 1 = k /\ k + 1 - 1 = k
    OBVIOUS
  <1>2. StatesTo(e, 1) = <<>> /\ ReportsTo(e, 1) = <<>>
    BY DEF StatesTo, ReportsTo
  <1>3. Len(StatesTo(e, k)) = k - 1 /\ Append(StatesTo(e, k), FromScratch(e, k)) = StatesTo(e, k + 1)
    <2>1. IsList(StatesTo(e, k), k - 1) /\ IsList(StatesTo(e, k + 1), k - 1 + 1)
      BY <1>1 DEF StatesTo, IsList
    <2>2. /\ \A i \in 1..k - 1 : StatesTo(e, k + 1)[i] = StatesTo(e, k)[i]
          /\ StatesTo(e, k + 1)[k - 1 + 1] = FromScratch(e, k)
      BY <1>1 DEF StatesTo
    <2>3. Len(StatesTo(e, k)) = k - 1
      BY <1>1, <2>1, Listed
    <2>4. Append(StatesTo(e, k), StatesTo(e, k + 1)[k - 1 + 1]) = StatesTo(e, k + 1)
      BY <1>1, <2>1, <2>2, Extended
    <2>5. QED
      BY <2>2, <2>3, <2>4
  <1>4. /\ Len(ReportsTo(e, k)) = k - 1 /\ Append(ReportsTo(e, k), Reported(e, k)) = ReportsTo(e, k + 1)
        /\ \A l \in 1..k : SubSeq(ReportsTo(e, k), 1, l - 1) = ReportsTo(e, l)
    <2>1. IsList(ReportsTo(e, k), k - 1) /\ IsList(ReportsTo(e, k + 1), k - 1 + 1)
      BY <1>1 DEF ReportsTo, IsList
    <2>2. /\ \A i \in 1..k - 1 : ReportsTo(e, k + 1)[i] = ReportsTo(e, k)[i]
          /\ ReportsTo(e, k + 1)[k - 1 + 1] = Reported(e, k)
      BY <1>1 DEF ReportsTo
    <2>3. Len(ReportsTo(e, k)) = k - 1
          /\ \A l \in 0..k - 1 : SubSeq(ReportsTo(e, k), 1, l) = [i \in 1..l |-> ReportsTo(e, k)[i]]
      BY <1>1, <2>1, Listed
    <2>4. Append(ReportsTo(e, k), ReportsTo(e, k + 1)[k - 1 + 1]) = ReportsTo(e, k + 1)
      BY <1>1, <2>1, <2>2, Extended
    <2>5. ASSUME NEW l \in 1..k PROVE SubSeq(ReportsTo(e, k), 1, l - 1) = ReportsTo(e, l)
      <3>1. l - 1 \in 0..k - 1
        OBVIOUS
      <3>2. SubSeq(ReportsTo(e, k), 1, l - 1) = [i \in 1..l - 1 |-> ReportsTo(e, k)[i]]
        BY <2>3, <3>1
      <3>3. \A i \in 1..l - 1 : ReportsTo(e, k)[i] = Reported(e, i)
        BY DEF ReportsTo
      <3>4. QED
        BY <3>2, <3>3 DEF ReportsTo
    <2>6. QED
      BY <2>2, <2>3, <2>4, <2>5
  <1>5. QED
    BY <1>2, <1>3, <1>4

LEMMA OnLists ==
    ASSUME NEW e, NEW k, NEW i \in 1..k - 1
    PROVE  StatesTo(e, k)[i] = FromScratch(e, i) /\ ReportsTo(e, k)[i] = Reported(e, i)
  BY DEF StatesTo, ReportsTo

\* Up to the first edited step a run is the unedited one.
LEMMA UneditedSame ==
    ASSUME NEW e, NEW k, k \notin DOMAIN e, NEW s
    PROVE  NextState(k, s, e) = NextState(k, s, NoEdits) /\ Report(k, s, e) = Report(k, s, NoEdits)
           /\ Ran(k, s, e) = Ran(k, s, NoEdits)
  <1>1. EditsOf(e, k) = EditsOf(NoEdits, k)
    BY DEF EditsOf, NoEdits
  <1>2. Ran(k, s, e) = Ran(k, s, NoEdits)
    BY <1>1 DEF Ran
  <1>3. QED
    BY <1>2 DEF NextState, Report

AgreesTo(e, k) ==
    \A i \in 1..k : FromScratch(e, i) = FromScratch(NoEdits, i)
                      /\ (i # k => Reported(e, i) = Reported(NoEdits, i))

LEMMA RunsAgree ==
    ASSUME Len(bundle.steps) \in Nat, NEW e \in Edits,
           NEW k \in 1..Len(bundle.steps) + 1, k <= FirstEdited(e)
    PROVE  AgreesTo(e, k)
  <1> DEFINE n == Len(bundle.steps)
             T == {i \in Nat : i <= k => FromScratch(e, i) = FromScratch(NoEdits, i)}
  <1>1. ScratchIs(e) /\ ScratchIs(NoEdits)
    BY ScratchExists
  <1>2. ASSUME NEW i \in 1..n, i < k PROVE i \notin DOMAIN e
    <2>1. \A j \in DOMAIN e : j \in 1..MaxSteps /\ FirstEdited(e) <= j
      BY FirstIs
    <2>2. FirstEdited(e) \in Nat
      BY FirstIs, BundleAssumption
    <2>3. QED
      BY <1>2, <2>1, <2>2
  <1>3. 1 \in T
    BY <1>1 DEF ScratchIs
  <1>4. ASSUME NEW i \in 1..n, i \in T PROVE i + 1 \in T
    <2>1. SUFFICES ASSUME i + 1 <= k PROVE FromScratch(e, i + 1) = FromScratch(NoEdits, i + 1)
      OBVIOUS
    <2>2. i < k /\ i <= k
      BY <2>1
    <2>3. FromScratch(e, i) = FromScratch(NoEdits, i)
      BY <1>4, <2>2
    <2>4. NextState(i, FromScratch(e, i), e) = NextState(i, FromScratch(e, i), NoEdits)
      BY <1>2, <2>2, UneditedSame
    <2>5. i \in Steps
      BY DEF Steps
    <2>6. QED
      BY <1>1, <2>3, <2>4, <2>5 DEF ScratchIs
  <1>5. 1..n + 1 \subseteq T
    <2> HIDE DEF T
    <2>1. QED
      BY <1>3, <1>4, EveryStep
  <1>6. ASSUME NEW i \in 1..k PROVE FromScratch(e, i) = FromScratch(NoEdits, i)
    <2>1. i \in 1..n + 1 /\ i <= k
      OBVIOUS
    <2>2. QED
      BY <1>5, <2>1
  <1>7. ASSUME NEW i \in 1..k, i # k PROVE Reported(e, i) = Reported(NoEdits, i)
    <2>1. i \in 1..n /\ i < k
      BY <1>7
    <2>2. i \notin DOMAIN e
      BY <1>2, <2>1
    <2>3. QED
      BY <1>6, <2>2, UneditedSame DEF Reported
  <1>8. QED
    BY <1>6, <1>7 DEF AgreesTo

-----------------------------------------------------------------------------
(* What is true in every state, and that every step keeps it.              *)

SetupTrue ==
    /\ chain \in Chains /\ plan \in Plans
    /\ \A k \in 1..Len(plan) : plan[k].pos <= Len(chain.txs)
    /\ drifted \in [1..Len(plan) -> Drift]
    /\ bundle # Unbuilt => bundle = Built(chain, plan, drifted) /\ ~Refused(chain, plan)
    /\ bundle = Unbuilt => baseline = Unbuilt /\ \A t \in Thread : thread[t] = [pc |-> "idle"]

BaselineTrue ==
    LET n == Len(bundle.steps)
    IN  baseline # Unbuilt =>
            baseline = [states |-> StatesTo(NoEdits, n + 2), reports |-> ReportsTo(NoEdits, n + 1)]

RequestFields == {"pc", "kind", "edits", "upto", "k", "keep", "state", "kept", "reports"}

\* A request has come to step k, and holds what replaying to k gives.
RequestTrue(r) ==
    LET n == Len(bundle.steps)
    IN  \/ r = [pc |-> "idle"]
        \/ /\ DOMAIN r = RequestFields
           /\ r.pc \in {"driving", "done", "failed"} /\ r.kind \in {"run", "trace"}
           /\ r.edits \in Edits /\ r.upto \in 1..n + 1 /\ r.k \in 1..r.upto
           /\ r.kind = "run" => r.upto = n + 1
           /\ r.pc = "done" => r.k = r.upto
           /\ r.state = FromScratch(r.edits, r.k)
           /\ r.reports = ReportsTo(r.edits, r.k)
           /\ r.keep \in BOOLEAN
           /\ r.keep => r.kind = "run" /\ r.edits = NoEdits /\ r.kept = StatesTo(NoEdits, r.k)

RequestsTrue == thread = [t \in Thread |-> thread[t]] /\ \A t \in Thread : RequestTrue(thread[t])

ResumeInv == SetupTrue /\ BaselineTrue /\ RequestsTrue

\* How many steps there are.
LEMMA StepCount ==
    ASSUME SetupTrue, bundle # Unbuilt
    PROVE  /\ Len(plan) \in 1..MaxSteps /\ Len(bundle.steps) = Len(plan) /\ Steps = 1..Len(plan)
           /\ MaxSteps \in Nat /\ Len(bundle.steps) \in Nat
  <1> DEFINE S == {plan[k] : k \in DOMAIN plan}
  <1>1. plan \in Seq(S) /\ MaxSteps \in Nat
    BY BundleAssumption DEF SetupTrue
  <1>2. Len(plan) \in Nat /\ plan # <<>> /\ ~(Len(plan) > MaxSteps)
    BY <1>1 DEF SetupTrue, Refused
  <1>3. Len(plan) # 0
    <2> HIDE DEF S
    <2>1. QED
      BY <1>1, <1>2
  <1>4. IsList(bundle.steps, Len(plan))
    BY DEF SetupTrue, Built, IsList
  <1>5. Len(bundle.steps) = Len(plan)
    BY <1>2, <1>4, Listed
  <1>6. QED
    BY <1>1, <1>2, <1>3, <1>5 DEF Steps

\* A request that goes to another state of its own leaves the others be.
LEMMA OneRequest ==
    ASSUME RequestsTrue, bundle' = bundle, NEW t \in Thread, NEW X,
           thread' = [thread EXCEPT ![t] = X], RequestTrue(X)
    PROVE  RequestsTrue'
  <1>1. thread' = [s \in Thread |-> thread'[s]]
    BY DEF RequestsTrue
  <1>2. ASSUME NEW s \in Thread PROVE RequestTrue(thread[s])'
    <2>1. PICK r : r = thread'[s]
      OBVIOUS
    <2>2. RequestTrue(r)
      BY <2>1 DEF RequestsTrue
    <2>3. RequestTrue(r)'
      BY <2>2, SameBundle DEF RequestTrue
    <2>4. QED
      BY <2>1, <2>3
  <1>3. QED
    BY <1>1, <1>2 DEF RequestsTrue

LEMMA SameSetup ==
    ASSUME SetupTrue, UNCHANGED built, bundle # Unbuilt
    PROVE  SetupTrue'
  BY Zenon DEF SetupTrue, built

LEMMA SameBaseline ==
    ASSUME BaselineTrue, bundle' = bundle, baseline' = baseline
    PROVE  BaselineTrue'
  BY SameBundle DEF BaselineTrue

LEMMA InitTrue == Init => ResumeInv
  <1>1. SUFFICES ASSUME Init PROVE ResumeInv
    OBVIOUS
  <1>2. SetupTrue
    <2>1. ~(bundle # Unbuilt)
      BY <1>1 DEF Init
    <2>2. QED
      BY <1>1, <2>1 DEF Init, SetupTrue
  <1>3. BaselineTrue
    BY <1>1 DEF Init, BaselineTrue
  <1>4. RequestsTrue
    BY <1>1 DEF Init, RequestsTrue, RequestTrue
  <1>5. QED
    BY <1>2, <1>3, <1>4 DEF ResumeInv

LEMMA BuildKeeps ==
    ASSUME ResumeInv, Build
    PROVE  ResumeInv'
  <1>1. /\ bundle = Unbuilt /\ ~Refused(chain, plan) /\ bundle' = Built(chain, plan, drifted)
        /\ UNCHANGED <<chain, plan, drifted, baseline, thread, requests>>
    BY DEF Build
  <1>2. baseline = Unbuilt /\ \A t \in Thread : thread[t] = [pc |-> "idle"]
    BY <1>1 DEF ResumeInv, SetupTrue
  <1>3. SetupTrue'
    <2>1. (chain \in Chains /\ plan \in Plans /\ drifted \in [1..Len(plan) -> Drift])'
          /\ (\A k \in 1..Len(plan) : plan[k].pos <= Len(chain.txs))'
      BY <1>1 DEF ResumeInv, SetupTrue
    <2>2. (bundle # Unbuilt => bundle = Built(chain, plan, drifted) /\ ~Refused(chain, plan))'
      <3>1. bundle' = Built(chain', plan', drifted') /\ ~Refused(chain', plan')
        BY <1>1
      <3>2. QED
        BY <3>1
    <2>3. (bundle = Unbuilt => baseline = Unbuilt /\ \A t \in Thread : thread[t] = [pc |-> "idle"])'
      BY <1>1, <1>2
    <2>4. QED
      BY <2>1, <2>2, <2>3 DEF SetupTrue
  <1>4. BaselineTrue'
    BY <1>1, <1>2 DEF BaselineTrue
  <1>5. RequestsTrue'
    <2>1. (thread = [t \in Thread |-> thread[t]])'
      BY <1>1 DEF ResumeInv, RequestsTrue
    <2>2. ASSUME NEW t \in Thread PROVE RequestTrue(thread[t])'
      BY <1>1, <1>2 DEF RequestTrue
    <2>3. QED
      BY <2>1, <2>2 DEF RequestsTrue
  <1>6. QED
    BY <1>3, <1>4, <1>5 DEF ResumeInv

\* What a request may begin with: the beginning, or a place the kept run has.
LEMMA Resumed ==
    ASSUME SetupTrue, BaselineTrue, bundle # Unbuilt, NEW edits \in Edits,
           NEW upto \in 1..Len(bundle.steps) + 1
    PROVE  LET start == ResumeAt(upto, edits)
           IN  /\ start \in 1..upto
               /\ (IF baseline = Unbuilt THEN Entry ELSE baseline.states[start])
                    = FromScratch(edits, start)
               /\ (IF baseline = Unbuilt THEN <<>> ELSE SubSeq(baseline.reports, 1, start - 1))
                    = ReportsTo(edits, start)
  <1> DEFINE n == Len(bundle.steps)
             start == ResumeAt(upto, edits)
  <1>1. n \in Nat /\ n \in 1..MaxSteps /\ Len(bundle.steps) \in Nat
    BY StepCount
  <1>2. ScratchIs(edits)
    BY <1>1, ScratchExists
  <1>3. CASE baseline = Unbuilt
    <2>1. start = 1
      BY <1>3 DEF ResumeAt
    <2>2. FromScratch(edits, 1) = Entry
      BY <1>2 DEF ScratchIs
    <2>3. ReportsTo(edits, 1) = <<>>
      BY ListsOfRuns
    <2> HIDE DEF start
    <2>4. QED
      BY <1>3, <2>1, <2>2, <2>3 DEF start
  <1>4. CASE baseline # Unbuilt
    <2>1. baseline.states = StatesTo(NoEdits, n + 2) /\ baseline.reports = ReportsTo(NoEdits, n + 1)
      BY <1>4 DEF BaselineTrue
    <2>2. Len(baseline.states) = n + 1
      <3>1. n + 2 \in Nat \ {0} /\ n + 2 - 1 = n + 1
        BY <1>1
      <3>2. Len(StatesTo(NoEdits, n + 2)) = n + 2 - 1
        BY <3>1, ListsOfRuns
      <3>3. QED
        BY <2>1, <3>1, <3>2
    <2>3. FirstEdited(edits) \in 1..MaxSteps + 1 /\ MaxSteps \in Nat
      BY FirstIs, BundleAssumption
    <2>4. start = Least(Least(FirstEdited(edits), upto), n + 1)
      BY <1>4, <2>2 DEF ResumeAt
    <2>5. start \in 1..upto /\ start <= n + 1 /\ start <= FirstEdited(edits)
      <3> HIDE DEF start
      <3>1. QED
        BY <1>1, <2>3, <2>4 DEF Least
    <2> HIDE DEF start, n
    <2>6. start \in 1..n + 1
      BY <2>5
    <2>7. AgreesTo(edits, start)
      BY <1>1, <2>5, <2>6, RunsAgree DEF n
    <2>8. baseline.states[start] = FromScratch(edits, start)
      <3>1. start \in 1..(n + 2) - 1 /\ start \in 1..start
        BY <1>1, <2>6
      <3>2. StatesTo(NoEdits, n + 2)[start] = FromScratch(NoEdits, start)
        BY <3>1, OnLists, Zenon
      <3>3. FromScratch(edits, start) = FromScratch(NoEdits, start)
        BY <2>7, <3>1 DEF AgreesTo
      <3>4. QED
        BY <2>1, <3>2, <3>3
    <2>9. SubSeq(baseline.reports, 1, start - 1) = ReportsTo(edits, start)
      <3>1. SubSeq(ReportsTo(NoEdits, n + 1), 1, start - 1) = ReportsTo(NoEdits, start)
        <4>1. n + 1 \in Nat \ {0}
          BY <1>1
        <4>2. \A l \in 1..n + 1 : SubSeq(ReportsTo(NoEdits, n + 1), 1, l - 1) = ReportsTo(NoEdits, l)
          BY <4>1, ListsOfRuns
        <4>3. QED
          BY <2>6, <4>2
      <3>2. \A i \in 1..start - 1 : Reported(edits, i) = Reported(NoEdits, i)
        <4>1. \A i \in 1..start - 1 : i \in 1..start /\ i # start
          BY <2>6
        <4>2. QED
          BY <2>7, <4>1 DEF AgreesTo
      <3>3. ReportsTo(NoEdits, start) = ReportsTo(edits, start)
        BY <3>2 DEF ReportsTo
      <3>4. QED
        BY <2>1, <3>1, <3>3
    <2>10. QED
      BY <1>4, <2>5, <2>8, <2>9 DEF start
  <1>5. QED
    BY <1>3, <1>4

LEMMA AskKeeps ==
    ASSUME ResumeInv, NEW t \in Thread, Ask(t)
    PROVE  ResumeInv'
  <1>1. bundle # Unbuilt /\ UNCHANGED built /\ bundle' = bundle /\ baseline' = baseline
    BY DEF Ask, built
  <1>2. SetupTrue /\ BaselineTrue /\ RequestsTrue
    BY DEF ResumeInv
  <1>3. Len(bundle.steps) \in 1..MaxSteps /\ MaxSteps \in Nat /\ Steps = 1..Len(bundle.steps)
    BY <1>1, <1>2, StepCount
  <1>4. PICK edits \in Edits, kind \in {"run", "trace"} :
          \E upto \in IF kind = "run" THEN {Len(bundle.steps) + 1} ELSE Steps :
            LET start == ResumeAt(upto, edits)
            IN  thread' = [thread EXCEPT ![t] =
                  [pc |-> "driving", kind |-> kind, edits |-> edits, upto |-> upto, k |-> start,
                   keep |-> kind = "run" /\ edits = NoEdits /\ start = 1,
                   state |-> IF baseline = Unbuilt THEN Entry ELSE baseline.states[start],
                   kept |-> <<>>,
                   reports |-> IF baseline = Unbuilt THEN <<>>
                               ELSE SubSeq(baseline.reports, 1, start - 1)]]
    BY DEF Ask
  <1>5. PICK upto \in IF kind = "run" THEN {Len(bundle.steps) + 1} ELSE Steps :
          LET start == ResumeAt(upto, edits)
          IN  thread' = [thread EXCEPT ![t] =
                  [pc |-> "driving", kind |-> kind, edits |-> edits, upto |-> upto, k |-> start,
                   keep |-> kind = "run" /\ edits = NoEdits /\ start = 1,
                   state |-> IF baseline = Unbuilt THEN Entry ELSE baseline.states[start],
                   kept |-> <<>>,
                   reports |-> IF baseline = Unbuilt THEN <<>>
                               ELSE SubSeq(baseline.reports, 1, start - 1)]]
    BY <1>4
  <1> DEFINE start == ResumeAt(upto, edits)
             state == IF baseline = Unbuilt THEN Entry ELSE baseline.states[start]
             reports == IF baseline = Unbuilt THEN <<>> ELSE SubSeq(baseline.reports, 1, start - 1)
             keep == kind = "run" /\ edits = NoEdits /\ start = 1
             X == [pc |-> "driving", kind |-> kind, edits |-> edits, upto |-> upto, k |-> start,
                   keep |-> keep, state |-> state, kept |-> <<>>, reports |-> reports]
  <1>6. upto \in 1..Len(bundle.steps) + 1 /\ (kind = "run" => upto = Len(bundle.steps) + 1)
    BY <1>3
  <1>7. thread' = [thread EXCEPT ![t] = X]
    BY <1>5
  <1>8. start \in 1..upto /\ state = FromScratch(edits, start) /\ reports = ReportsTo(edits, start)
    BY <1>1, <1>2, <1>6, Resumed
  <1>9. keep \in BOOLEAN /\ (keep => kind = "run" /\ edits = NoEdits /\ <<>> = StatesTo(NoEdits, start))
    <2>1. StatesTo(NoEdits, 1) = <<>>
      BY ListsOfRuns
    <2>2. QED
      BY <2>1
  <1> HIDE DEF start, state, reports, keep
  <1>10. RequestTrue(X)
    BY <1>6, <1>8, <1>9 DEF RequestTrue, RequestFields
  <1> HIDE DEF X
  <1>11. RequestsTrue'
    BY <1>1, <1>2, <1>7, <1>10, OneRequest
  <1>12. SetupTrue' /\ BaselineTrue'
    BY <1>1, <1>2, SameSetup, SameBaseline
  <1>13. QED
    BY <1>11, <1>12 DEF ResumeInv

LEMMA RequestParts ==
    ASSUME NEW r, RequestTrue(r), r.pc # "idle"
    PROVE  /\ DOMAIN r = RequestFields
           /\ r.pc \in {"driving", "done", "failed"} /\ r.kind \in {"run", "trace"}
           /\ r.edits \in Edits /\ r.upto \in 1..Len(bundle.steps) + 1 /\ r.k \in 1..r.upto
           /\ r.kind = "run" => r.upto = Len(bundle.steps) + 1
           /\ r.pc = "done" => r.k = r.upto
           /\ r.state = FromScratch(r.edits, r.k)
           /\ r.reports = ReportsTo(r.edits, r.k)
           /\ r.keep \in BOOLEAN
           /\ r.keep => r.kind = "run" /\ r.edits = NoEdits /\ r.kept = StatesTo(NoEdits, r.k)
  <1>1. r # [pc |-> "idle"]
    OBVIOUS
  <1>2. QED
    BY <1>1 DEF RequestTrue

LEMMA FailedToo ==
    ASSUME NEW r, RequestTrue(r), r.pc # "idle", NEW pc \in {"driving", "done", "failed"},
           pc = "done" => r.k = r.upto
    PROVE  RequestTrue([r EXCEPT !.pc = pc])
  <1> DEFINE X == [r EXCEPT !.pc = pc]
  <1>1. DOMAIN r = RequestFields
    BY RequestParts
  <1>2. /\ X.pc = pc /\ X.kind = r.kind /\ X.edits = r.edits /\ X.upto = r.upto /\ X.k = r.k
        /\ X.keep = r.keep /\ X.state = r.state /\ X.kept = r.kept /\ X.reports = r.reports
        /\ DOMAIN X = RequestFields
    BY <1>1 DEF RequestFields
  <1> HIDE DEF X
  <1>3. RequestTrue(X)
    BY <1>2, RequestParts DEF RequestTrue
  <1>4. QED
    BY <1>3 DEF X

LEMMA DrivenOn ==
    ASSUME NEW r, RequestTrue(r), r.pc = "driving", r.k < r.upto, NEW next, NEW report, NEW kept,
           Len(bundle.steps) \in Nat,
           next = NextState(r.k, r.state, r.edits), report = Report(r.k, r.state, r.edits),
           kept = IF r.keep THEN Append(r.kept, r.state) ELSE r.kept
    PROVE  RequestTrue([r EXCEPT !.k = r.k + 1, !.state = next, !.kept = kept,
                                 !.reports = Append(r.reports, report)])
  <1> DEFINE reports == Append(r.reports, report)
             X == [r EXCEPT !.k = r.k + 1, !.state = next, !.kept = kept, !.reports = reports]
  <1>1. /\ DOMAIN r = RequestFields
        /\ r.kind \in {"run", "trace"}
        /\ r.edits \in Edits /\ r.upto \in 1..Len(bundle.steps) + 1 /\ r.k \in 1..r.upto
        /\ r.kind = "run" => r.upto = Len(bundle.steps) + 1
        /\ r.state = FromScratch(r.edits, r.k)
        /\ r.reports = ReportsTo(r.edits, r.k)
        /\ r.keep \in BOOLEAN
        /\ r.keep => r.kind = "run" /\ r.edits = NoEdits /\ r.kept = StatesTo(NoEdits, r.k)
    BY RequestParts
  <1>2. r.k \in Nat \ {0} /\ r.k \in 1..Len(bundle.steps) /\ r.k + 1 \in 1..r.upto
    BY <1>1
  <1>3. next = FromScratch(r.edits, r.k + 1)
    <2>1. ScratchIs(r.edits) /\ r.k \in Steps
      BY <1>2, ScratchExists DEF Steps
    <2>2. QED
      BY <1>1, <2>1 DEF ScratchIs
  <1>4. reports = ReportsTo(r.edits, r.k + 1)
    <2>1. report = Reported(r.edits, r.k)
      BY <1>1 DEF Reported
    <2>2. Append(ReportsTo(r.edits, r.k), Reported(r.edits, r.k)) = ReportsTo(r.edits, r.k + 1)
      BY <1>2, ListsOfRuns
    <2>3. QED
      BY <1>1, <2>1, <2>2
  <1>5. r.keep => kept = StatesTo(NoEdits, r.k + 1)
    <2>1. Append(StatesTo(NoEdits, r.k), FromScratch(NoEdits, r.k)) = StatesTo(NoEdits, r.k + 1)
      BY <1>2, ListsOfRuns
    <2>2. QED
      BY <1>1, <2>1
  <1> HIDE DEF reports
  <1>6. /\ X.pc = r.pc /\ X.kind = r.kind /\ X.edits = r.edits /\ X.upto = r.upto /\ X.k = r.k + 1
        /\ X.keep = r.keep /\ X.state = next /\ X.kept = kept /\ X.reports = reports
        /\ DOMAIN X = RequestFields
    <2>1. DOMAIN r = RequestFields
      BY <1>1
    <2>2. QED
      BY <2>1 DEF RequestFields
  <1> HIDE DEF X
  <1>7. RequestTrue(X)
    BY <1>1, <1>2, <1>3, <1>4, <1>5, <1>6 DEF RequestTrue
  <1>8. QED
    BY <1>7 DEF X, reports

LEMMA DriveKeeps ==
    ASSUME ResumeInv, NEW t \in Thread, Drive(t)
    PROVE  ResumeInv'
  <1>1. bundle' = bundle /\ baseline' = baseline /\ UNCHANGED built
    BY DEF Drive, built
  <1>2. SetupTrue /\ BaselineTrue /\ RequestsTrue
    BY DEF ResumeInv
  <1>3. thread[t].pc = "driving" /\ thread[t].k < thread[t].upto
    BY DEF Drive
  <1>4. bundle # Unbuilt
    BY <1>2, <1>3 DEF SetupTrue
  <1>5. Len(bundle.steps) \in Nat
    BY <1>2, <1>4, StepCount
  <1>6. PICK r : r = thread[t]
    OBVIOUS
  <1>7. RequestTrue(r) /\ r.pc = "driving" /\ r.k < r.upto
    BY <1>2, <1>3, <1>6 DEF RequestsTrue
  <1> DEFINE next == NextState(r.k, r.state, r.edits)
             report == Report(r.k, r.state, r.edits)
             kept == IF r.keep THEN Append(r.kept, r.state) ELSE r.kept
             on == [r EXCEPT !.k = r.k + 1, !.state = next, !.kept = kept,
                             !.reports = Append(r.reports, report)]
             failed == [r EXCEPT !.pc = "failed"]
  <1>8. thread' = [thread EXCEPT ![t] = on] \/ thread' = [thread EXCEPT ![t] = failed]
    BY <1>6 DEF Drive
  <1>9. RequestTrue(on)
    BY <1>5, <1>7, DrivenOn
  <1>10. RequestTrue(failed)
    BY <1>7, FailedToo
  <1> HIDE DEF on, failed
  <1>11. RequestsTrue'
    BY <1>1, <1>2, <1>8, <1>9, <1>10, OneRequest
  <1>12. SetupTrue' /\ BaselineTrue'
    BY <1>1, <1>2, <1>4, SameSetup, SameBaseline
  <1>13. QED
    BY <1>11, <1>12 DEF ResumeInv

LEMMA FinishKeeps ==
    ASSUME ResumeInv, NEW t \in Thread, Finish(t)
    PROVE  ResumeInv'
  <1>1. bundle' = bundle /\ UNCHANGED built
    BY DEF Finish, built
  <1>2. SetupTrue /\ BaselineTrue /\ RequestsTrue
    BY DEF ResumeInv
  <1>3. thread[t].pc = "driving" /\ thread[t].k = thread[t].upto
    BY DEF Finish
  <1>4. bundle # Unbuilt
    BY <1>2, <1>3 DEF SetupTrue
  <1>5. Len(bundle.steps) \in Nat
    BY <1>2, <1>4, StepCount
  <1>6. PICK r : r = thread[t]
    OBVIOUS
  <1>7. RequestTrue(r) /\ r.pc = "driving" /\ r.k = r.upto
    BY <1>2, <1>3, <1>6 DEF RequestsTrue
  <1>8. /\ r.kind = "run" => r.upto = Len(bundle.steps) + 1
        /\ r.state = FromScratch(r.edits, r.k) /\ r.reports = ReportsTo(r.edits, r.k)
        /\ r.keep => r.kind = "run" /\ r.edits = NoEdits /\ r.kept = StatesTo(NoEdits, r.k)
    BY <1>7, RequestParts
  <1>9. RequestsTrue'
    <2> DEFINE X == [r EXCEPT !.pc = "done"]
    <2>1. thread' = [thread EXCEPT ![t] = X]
      BY <1>2, <1>6 DEF Finish, RequestsTrue
    <2>2. RequestTrue(X)
      BY <1>7, FailedToo
    <2> HIDE DEF X
    <2>3. QED
      BY <1>1, <1>2, <2>1, <2>2, OneRequest
  <1>10. BaselineTrue'
    <2>1. CASE r.keep
      <3> DEFINE n == Len(bundle.steps)
      <3>1. baseline' = [states |-> Append(r.kept, r.state), reports |-> r.reports]
        BY <1>6, <2>1 DEF Finish
      <3>2. r.k = n + 1 /\ n + 1 \in Nat \ {0} /\ n + 1 + 1 = n + 2
        BY <1>5, <1>7, <1>8, <2>1
      <3>3. r.kept = StatesTo(NoEdits, n + 1) /\ r.state = FromScratch(NoEdits, n + 1)
            /\ r.reports = ReportsTo(NoEdits, n + 1)
        BY <1>8, <2>1, <3>2
      <3>4. Append(StatesTo(NoEdits, n + 1), FromScratch(NoEdits, n + 1)) = StatesTo(NoEdits, n + 2)
        <4>1. Append(StatesTo(NoEdits, n + 1), FromScratch(NoEdits, n + 1)) = StatesTo(NoEdits, n + 1 + 1)
          BY <3>2, ListsOfRuns
        <4>2. QED
          BY <3>2, <4>1
      <3>5. baseline' = [states |-> StatesTo(NoEdits, n + 2), reports |-> ReportsTo(NoEdits, n + 1)]
        BY <3>1, <3>3, <3>4
      <3>6. /\ StatesTo(NoEdits, n + 2)' = StatesTo(NoEdits, n + 2)
            /\ ReportsTo(NoEdits, n + 1)' = ReportsTo(NoEdits, n + 1) /\ n' = n
        BY <1>1, SameBundle DEF NoEdits
      <3>7. QED
        BY <3>5, <3>6 DEF BaselineTrue
    <2>2. CASE ~r.keep
      <3>1. baseline' = baseline
        BY <1>6, <2>2 DEF Finish
      <3>2. QED
        BY <1>1, <1>2, <3>1, SameBaseline
    <2>3. QED
      BY <2>1, <2>2
  <1>11. SetupTrue'
    BY <1>1, <1>2, <1>4, SameSetup
  <1>12. QED
    BY <1>9, <1>10, <1>11 DEF ResumeInv

LEMMA LeaveKeeps ==
    ASSUME ResumeInv, NEW t \in Thread, Leave(t)
    PROVE  ResumeInv'
  <1>1. bundle' = bundle /\ baseline' = baseline /\ UNCHANGED built
    BY DEF Leave, built
  <1>2. SetupTrue /\ BaselineTrue /\ RequestsTrue
    BY DEF ResumeInv
  <1>3. thread[t].pc \in {"done", "failed"} /\ thread' = [thread EXCEPT ![t] = [pc |-> "idle"]]
    BY DEF Leave
  <1>4. bundle # Unbuilt
    BY <1>2, <1>3 DEF SetupTrue
  <1>5. RequestTrue([pc |-> "idle"])
    BY DEF RequestTrue
  <1>6. RequestsTrue'
    BY <1>1, <1>2, <1>3, <1>5, OneRequest
  <1>7. SetupTrue' /\ BaselineTrue'
    BY <1>1, <1>2, <1>4, SameSetup, SameBaseline
  <1>8. QED
    BY <1>6, <1>7 DEF ResumeInv

LEMMA StaysTrue ==
    ASSUME ResumeInv, [Next]_vars
    PROVE  ResumeInv'
  <1>1. CASE Build
    BY <1>1, BuildKeeps
  <1>2. ASSUME NEW t \in Thread, Ask(t) PROVE ResumeInv'
    BY <1>2, AskKeeps
  <1>3. ASSUME NEW t \in Thread, Drive(t) PROVE ResumeInv'
    BY <1>3, DriveKeeps
  <1>4. ASSUME NEW t \in Thread, Finish(t) PROVE ResumeInv'
    BY <1>4, FinishKeeps
  <1>5. ASSUME NEW t \in Thread, Leave(t) PROVE ResumeInv'
    BY <1>5, LeaveKeeps
  <1>6. CASE UNCHANGED vars
    <2>1. /\ bundle' = bundle /\ baseline' = baseline /\ thread' = thread
          /\ chain' = chain /\ plan' = plan /\ drifted' = drifted
      BY <1>6 DEF vars
    <2>2. SetupTrue'
      BY <2>1, Zenon DEF ResumeInv, SetupTrue
    <2>3. BaselineTrue'
      BY <2>1, SameBaseline DEF ResumeInv
    <2>4. RequestsTrue'
      <3>1. ASSUME NEW s \in Thread PROVE RequestTrue(thread[s])'
        <4>1. PICK r : r = thread[s]
          OBVIOUS
        <4>2. RequestTrue(r)
          BY <4>1 DEF ResumeInv, RequestsTrue
        <4>3. RequestTrue(r)'
          BY <2>1, <4>2, SameBundle DEF RequestTrue
        <4>4. QED
          BY <2>1, <4>1, <4>3
      <3>2. QED
        BY <2>1, <3>1 DEF ResumeInv, RequestsTrue
    <2>5. QED
      BY <2>2, <2>3, <2>4 DEF ResumeInv
  <1>7. QED
    BY <1>1, <1>2, <1>3, <1>4, <1>5, <1>6 DEF Next

\* The bundle is what building its list gives, the baseline is the unedited run,
\* and every request holds what replaying to its step gives (bundle.rs, bundle,
\* drive and run).
THEOREM AlwaysTrue == Spec => []ResumeInv
  BY InitTrue, StaysTrue, PTL DEF Spec

\* Whatever was asked before and beside it, a request that ends reports, and a
\* trace starts from, what replaying every step from the first gives
\* (bundle.rs, resume_at and the kept baseline).
THEOREM ResumingIsSound == Spec => []ResumeSound
  <1>1. ASSUME ResumeInv PROVE ResumeSound
    <2>1. SUFFICES ASSUME NEW t \in Thread, thread[t].pc = "done"
                   PROVE  /\ \A i \in 1..thread[t].upto - 1 :
                               thread[t].reports[i] = Report(i, FromScratch(thread[t].edits, i), thread[t].edits)
                          /\ thread[t].kind = "trace"
                               => thread[t].state = FromScratch(thread[t].edits, thread[t].upto)
      BY DEF ResumeSound
    <2>2. PICK r : r = thread[t]
      OBVIOUS
    <2>3. RequestTrue(r) /\ r.pc = "done"
      BY <1>1, <2>1, <2>2 DEF ResumeInv, RequestsTrue
    <2>4. r.k = r.upto /\ r.state = FromScratch(r.edits, r.k) /\ r.reports = ReportsTo(r.edits, r.k)
      BY <2>3, RequestParts
    <2>5. ASSUME NEW i \in 1..r.upto - 1 PROVE r.reports[i] = Report(i, FromScratch(r.edits, i), r.edits)
      BY <2>4, OnLists DEF Reported
    <2>6. QED
      BY <2>2, <2>4, <2>5
  <1>2. QED
    BY <1>1, AlwaysTrue, PTL

-----------------------------------------------------------------------------
(* Worlds and states.                                                      *)

\* What it is to be a world.
IsWorld(w) ==
    /\ w = [a \in DOMAIN w |-> w[a]] /\ DOMAIN w \subseteq Account
    /\ \A a \in DOMAIN w : w[a] \in 1..MaxContent

LEMMA WorldIs ==
    ASSUME NEW w
    PROVE  w \in Worlds <=> IsWorld(w)
  <1>1. ASSUME w \in Worlds PROVE IsWorld(w)
    <2>1. PICK L \in SUBSET Account : w \in [L -> 1..MaxContent]
      BY <1>1 DEF Worlds
    <2>2. QED
      BY <2>1 DEF IsWorld
  <1>2. ASSUME IsWorld(w) PROVE w \in Worlds
    <2>1. w \in [DOMAIN w -> 1..MaxContent] /\ DOMAIN w \in SUBSET Account
      BY <1>2 DEF IsWorld
    <2>2. QED
      BY <2>1 DEF Worlds
  <1>3. QED
    BY <1>1, <1>2

LEMMA LoadedIs ==
    ASSUME NEW s \in AccountsDB, NEW L \in SUBSET Account
    PROVE  /\ Loaded(s, L) \in Worlds
           /\ \A a : a \in DOMAIN Loaded(s, L) <=> a \in L /\ s[a] # 0
           /\ \A a \in DOMAIN Loaded(s, L) : Loaded(s, L)[a] = s[a]
  <1>1. \A a \in L : s[a] # 0 => s[a] \in 1..MaxContent
    BY SvmAssumption DEF AccountsDB, Content
  <1>2. IsWorld(Loaded(s, L))
    BY <1>1 DEF IsWorld, Loaded
  <1>3. QED
    BY <1>2, WorldIs DEF Loaded

LEMMA OverlayIs ==
    ASSUME NEW w \in Worlds, NEW o \in Worlds
    PROVE  /\ Overlay(w, o) \in Worlds
           /\ DOMAIN Overlay(w, o) = DOMAIN w \cup DOMAIN o
           /\ \A a \in DOMAIN o : Overlay(w, o)[a] = o[a]
           /\ \A a \in DOMAIN w \ DOMAIN o : Overlay(w, o)[a] = w[a]
  <1>1. IsWorld(w) /\ IsWorld(o)
    BY WorldIs
  <1>2. /\ Overlay(w, o) = [a \in DOMAIN w \cup DOMAIN o |-> IF a \in DOMAIN o THEN o[a] ELSE w[a]]
        /\ DOMAIN Overlay(w, o) = DOMAIN w \cup DOMAIN o
        /\ \A a \in DOMAIN w \cup DOMAIN o : Overlay(w, o)[a] = IF a \in DOMAIN o THEN o[a] ELSE w[a]
    BY DEF Overlay
  <1>3. IsWorld(Overlay(w, o))
    <2>1. \A a \in DOMAIN w \cup DOMAIN o : Overlay(w, o)[a] \in 1..MaxContent
      BY <1>1, <1>2 DEF IsWorld
    <2>2. Overlay(w, o) = [a \in DOMAIN Overlay(w, o) |-> Overlay(w, o)[a]]
      BY DEF Overlay
    <2>3. DOMAIN Overlay(w, o) \subseteq Account
      BY <1>1, <1>2 DEF IsWorld
    <2>4. QED
      BY <1>2, <2>1, <2>2, <2>3 DEF IsWorld
  <1>4. QED
    BY <1>2, <1>3, WorldIs

LEMMA RestrictedIs ==
    ASSUME NEW w \in Worlds, NEW L
    PROVE  /\ Restricted(w, L) \in Worlds
           /\ DOMAIN Restricted(w, L) = DOMAIN w \cap L
           /\ \A a \in DOMAIN w \cap L : Restricted(w, L)[a] = w[a]
  <1>1. IsWorld(w)
    BY WorldIs
  <1>2. IsWorld(Restricted(w, L))
    BY <1>1 DEF IsWorld, Restricted
  <1>3. QED
    BY <1>2, WorldIs DEF Restricted

LEMMA UnloadedIs ==
    ASSUME NEW w \in Worlds, NEW L
    PROVE  /\ Unloaded(w, L) \in Worlds
           /\ DOMAIN Unloaded(w, L) = DOMAIN w \ L
           /\ \A a \in DOMAIN w \ L : Unloaded(w, L)[a] = w[a]
  <1>1. DOMAIN w \subseteq Account
    BY WorldIs DEF IsWorld
  <1>2. DOMAIN w \cap (Account \ L) = DOMAIN w \ L
    BY <1>1
  <1>3. QED
    BY <1>2, RestrictedIs DEF Unloaded

\* u is the world w with what o holds beside it that is not decided.
Absorbed(w, o, decided, u) ==
    /\ u \in Worlds /\ DOMAIN u = DOMAIN w \cup (DOMAIN o \ decided)
    /\ \A a \in DOMAIN w : u[a] = w[a]
    /\ \A a \in (DOMAIN o \ decided) \ DOMAIN w : u[a] = o[a]

LEMMA AbsorbIs ==
    ASSUME NEW w \in Worlds, NEW o \in Worlds, NEW decided
    PROVE  Absorbed(w, o, decided, AbsorbUndecided(w, o, decided))
  <1> DEFINE u == Restricted(o, Account \ decided)
  <1>1. u = Unloaded(o, decided)
    BY DEF Unloaded
  <1>2. AbsorbUndecided(w, o, decided) = Overlay(u, w)
    BY DEF AbsorbUndecided
  <1> HIDE DEF u
  <1>3. u \in Worlds /\ DOMAIN u = DOMAIN o \ decided /\ \A a \in DOMAIN o \ decided : u[a] = o[a]
    BY <1>1, UnloadedIs, Zenon
  <1>4. /\ Overlay(u, w) \in Worlds /\ DOMAIN Overlay(u, w) = DOMAIN u \cup DOMAIN w
        /\ \A a \in DOMAIN w : Overlay(u, w)[a] = w[a]
        /\ \A a \in DOMAIN u \ DOMAIN w : Overlay(u, w)[a] = u[a]
    BY <1>3, OverlayIs
  <1>5. QED
    BY <1>2, <1>3, <1>4 DEF Absorbed

SameAt(v, w, a) == (a \in DOMAIN w <=> a \in DOMAIN v) /\ (a \in DOMAIN v => w[a] = v[a])

LEMMA AbsorbSpares ==
    ASSUME NEW w \in Worlds, NEW o \in Worlds, NEW decided, NEW a \in decided
    PROVE  SameAt(w, AbsorbUndecided(w, o, decided), a)
  <1>1. Absorbed(w, o, decided, AbsorbUndecided(w, o, decided))
    BY AbsorbIs
  <1>2. QED
    BY <1>1 DEF SameAt, Absorbed

LEMMA SvmIs ==
    ASSUME NEW w \in Worlds
    PROVE  /\ SvmOf(w) \in AccountsDB
           /\ \A a \in DOMAIN w : a \in Account /\ SvmOf(w)[a] = w[a] /\ w[a] # 0
           /\ \A a \in Account \ DOMAIN w : SvmOf(w)[a] = 0
  <1>1. DOMAIN w \subseteq Account /\ (\A a \in DOMAIN w : w[a] \in 1..MaxContent) /\ MaxContent \in Nat
    BY WorldIs, SvmAssumption DEF IsWorld
  <1>2. \A a \in Account : SvmOf(w)[a] = IF a \in DOMAIN w THEN w[a] ELSE 0
    BY DEF SvmOf
  <1>3. \A a \in Account : SvmOf(w)[a] \in Content
    <2>1. \A x \in 1..MaxContent : x \in Content
      BY <1>1 DEF Content
    <2>2. 0 \in Content
      BY <1>1 DEF Content
    <2>3. QED
      BY <1>1, <1>2, <2>1, <2>2
  <1>4. SvmOf(w) \in AccountsDB
    <2> DEFINE s == SvmOf(w)
    <2>1. s = [a \in Account |-> s[a]]
      <3>1. \A a \in Account : s[a] = IF a \in DOMAIN w THEN w[a] ELSE 0
        BY <1>2
      <3>2. s = [a \in Account |-> IF a \in DOMAIN w THEN w[a] ELSE 0]
        BY DEF SvmOf
      <3> HIDE DEF s
      <3>3. QED
        BY <3>1, <3>2
    <2> HIDE DEF s
    <2>2. \A a \in Account : s[a] \in Content
      BY <1>3 DEF s
    <2>3. s \in AccountsDB
      BY <2>1, <2>2 DEF AccountsDB
    <2>4. QED
      BY <2>3 DEF s
  <1>5. QED
    BY <1>1, <1>2, <1>4

\* Edits of one step: some accounts, with what they are to hold.
SomeEdits == UNION {[L -> Content] : L \in SUBSET Account}

LEMMA MutateIs ==
    ASSUME NEW d \in SomeEdits, NEW s \in AccountsDB
    PROVE  /\ Mutate(d, s) \in AccountsDB
           /\ \A a \in Account \ DOMAIN d : Mutate(d, s)[a] = s[a]
  <1>1. \A a \in DOMAIN d : d[a] \in Content
    BY DEF SomeEdits
  <1>2. \A a \in Account : Mutate(d, s)[a] = IF a \in DOMAIN d THEN d[a] ELSE s[a]
    BY DEF Mutate
  <1>3. \A a \in Account : Mutate(d, s)[a] \in Content
    BY <1>1, <1>2 DEF AccountsDB
  <1>4. Mutate(d, s) = [a \in Account |-> Mutate(d, s)[a]]
    BY DEF Mutate
  <1>5. QED
    BY <1>2, <1>3, <1>4 DEF AccountsDB

-----------------------------------------------------------------------------
(* The chain, and the worlds a bundle is built of.                         *)

LEMMA EveryFromZero ==
    ASSUME NEW n \in Nat, NEW T, 0 \in T, \A i \in 1..n : i - 1 \in T => i \in T
    PROVE  0..n \subseteq T
  <1> DEFINE U == {i \in Nat : i - 1 \in T}
  <1>1. 1 \in U
    OBVIOUS
  <1>2. ASSUME NEW i \in 1..n, i \in U PROVE i + 1 \in U
    <2>1. i - 1 \in T /\ i + 1 - 1 = i /\ i + 1 \in Nat
      BY <1>2
    <2>2. QED
      BY <2>1
  <1>3. 1..n + 1 \subseteq U
    <2> HIDE DEF U
    <2>1. QED
      BY <1>1, <1>2, EveryStep
  <1>4. ASSUME NEW i \in 0..n PROVE i \in T
    <2>1. i + 1 \in 1..n + 1 /\ i + 1 - 1 = i
      OBVIOUS
    <2>2. QED
      BY <1>3, <2>1
  <1>5. QED
    BY <1>4

\* A value for each number, each made of the one before it.
Recursive(s, n, S, x, F) ==
    s \in [0..n -> S] /\ s[0] = x /\ \A i \in 1..n : s[i] = F[i][s[i - 1]]

LEMMA Recursion ==
    ASSUME NEW n \in Nat, NEW S, NEW x \in S, NEW F, \A i \in 1..n : \A v \in S : F[i][v] \in S
    PROVE  \E s : Recursive(s, n, S, x, F)
  <1> DEFINE T == {m \in 0..n : \E s : Recursive(s, m, S, x, F)}
  <1>1. 0 \in T
    <2> DEFINE s == [i \in 0..0 |-> x]
    <2>1. Recursive(s, 0, S, x, F)
      BY DEF Recursive
    <2> HIDE DEF s
    <2>2. QED
      BY <2>1
  <1>2. ASSUME NEW m \in 1..n, m - 1 \in T PROVE m \in T
    <2>1. PICK s : Recursive(s, m - 1, S, x, F)
      BY <1>2
    <2> DEFINE y == [i \in 0..m |-> IF i = m THEN F[m][s[m - 1]] ELSE s[i]]
    <2>2. m \in Nat /\ m # 0 /\ m - 1 \in 0..m - 1 /\ 0 \in 0..m - 1
      OBVIOUS
    <2>3. s[0] = x /\ (\A i \in 0..m - 1 : s[i] \in S) /\ \A i \in 1..m - 1 : s[i] = F[i][s[i - 1]]
      BY <2>1 DEF Recursive
    <2>4. y[m] = F[m][s[m - 1]] /\ \A i \in 0..m - 1 : y[i] = s[i]
      BY <2>2
    <2>5. y \in [0..m -> S]
      <3>1. ASSUME NEW i \in 0..m PROVE (IF i = m THEN F[m][s[m - 1]] ELSE s[i]) \in S
        <4>1. s[m - 1] \in S
          BY <2>2, <2>3
        <4>2. CASE i = m
          BY <4>1, <4>2
        <4>3. CASE i # m
          <5>1. i \in 0..m - 1
            BY <4>3
          <5>2. QED
            BY <2>3, <4>3, <5>1
        <4>4. QED
          BY <4>2, <4>3
      <3>2. QED
        BY <3>1
    <2> HIDE DEF y
    <2>6. ASSUME NEW i \in 1..m PROVE y[i] = F[i][y[i - 1]]
      <3>1. i - 1 \in 0..m - 1
        OBVIOUS
      <3>2. CASE i = m
        BY <2>4, <3>1, <3>2
      <3>3. CASE i # m
        <4>1. i \in 1..m - 1 /\ i \in 0..m - 1
          BY <3>3
        <4>2. QED
          BY <2>3, <2>4, <3>1, <4>1
      <3>4. QED
        BY <3>2, <3>3
    <2>7. Recursive(y, m, S, x, F)
      BY <2>2, <2>3, <2>4, <2>5, <2>6 DEF Recursive
    <2>8. QED
      BY <2>7
  <1>3. n \in T
    <2> HIDE DEF T
    <2>1. 0..n \subseteq T
      BY <1>1, <1>2, EveryFromZero
    <2>2. QED
      BY <2>1
  <1>4. QED
    BY <1>3

\* What accounts held along a chain.
ChainIs(c) ==
    /\ StateAt(c, 1) = c.genesis
    /\ \A p \in 1..Len(c.txs) :
          /\ StateAt(c, p + 1) = Exec(c.txs[p], StateAt(c, p)).post
          /\ c.txs[p] \in Tx
    /\ \A p \in 1..Len(c.txs) + 1 : StateAt(c, p) \in AccountsDB
    /\ Len(c.txs) \in Nat

LEMMA ChainExists ==
    ASSUME NEW c \in Chains
    PROVE  ChainIs(c)
  <1> DEFINE n == Len(c.txs)
             next(x) == [i \in 1..n + 1 |-> IF i = 1 THEN c.genesis ELSE Exec(c.txs[i - 1], x[i - 1]).post]
             F == [i \in 1..n |-> [v \in AccountsDB |-> Exec(c.txs[i], v).post]]
  <1>1. n \in Nat /\ c.genesis \in AccountsDB /\ \A p \in 1..n : c.txs[p] \in Tx
    BY BundleAssumption
  <1>2. ASSUME NEW p \in 1..n, NEW v \in AccountsDB PROVE Exec(c.txs[p], v).post \in AccountsDB
    BY <1>1, SvmAssumption
  <1>3. \E x : x = next(x)
    <2>1. \A i \in 1..n : \A v \in AccountsDB : F[i][v] = Exec(c.txs[i], v).post
      OBVIOUS
    <2> HIDE DEF F, n
    <2>2. \A i \in 1..n : \A v \in AccountsDB : F[i][v] \in AccountsDB
      BY <1>2, <2>1
    <2>3. PICK s : Recursive(s, n, AccountsDB, c.genesis, F)
      BY <1>1, <2>2, Recursion
    <2> DEFINE x == [i \in 1..n + 1 |-> s[i - 1]]
    <2>4. ASSUME NEW i \in 1..n + 1 PROVE x[i] = IF i = 1 THEN c.genesis ELSE Exec(c.txs[i - 1], x[i - 1]).post
      <3>1. CASE i = 1
        BY <2>3, <3>1 DEF Recursive
      <3>2. CASE i # 1
        <4>1. i - 1 \in 1..n /\ i - 1 \in 1..n + 1 /\ i - 1 - 1 \in 0..n
          BY <1>1, <3>2
        <4>2. x[i] = s[i - 1] /\ x[i - 1] = s[i - 1 - 1]
          BY <4>1
        <4>3. s[i - 1] = F[i - 1][s[i - 1 - 1]] /\ s[i - 1 - 1] \in AccountsDB
          BY <2>3, <4>1 DEF Recursive
        <4> HIDE DEF x
        <4>4. QED
          BY <2>1, <3>2, <4>1, <4>2, <4>3
      <3>3. QED
        BY <3>1, <3>2
    <2>5. x = [i \in 1..n + 1 |-> x[i]]
      OBVIOUS
    <2> HIDE DEF x
    <2>6. x = next(x)
      BY <2>4, <2>5
    <2>7. QED
      BY <2>6
  <1> DEFINE s[i \in 1..n + 1] == IF i = 1 THEN c.genesis ELSE Exec(c.txs[i - 1], s[i - 1]).post
  <1>4. \A p : StateAt(c, p) = s[p]
    BY DEF StateAt
  <1>5. s = CHOOSE x : x = next(x)
    BY Zenon DEF s
  <1>6. s = next(s)
    <2> HIDE DEF s, next
    <2>1. QED
      BY <1>3, <1>5
  <1> HIDE DEF s
  <1>7. s[1] = c.genesis
    <2>1. next(s)[1] = c.genesis
      BY <1>1
    <2> HIDE DEF next
    <2>2. QED
      BY <1>6, <2>1
  <1>8. ASSUME NEW p \in 1..n PROVE s[p + 1] = Exec(c.txs[p], s[p]).post
    <2>1. p + 1 \in 1..n + 1 /\ p + 1 # 1 /\ p + 1 - 1 = p
      BY <1>1
    <2>2. next(s)[p + 1] = Exec(c.txs[p], s[p]).post
      BY <2>1
    <2> HIDE DEF next
    <2>3. QED
      BY <1>6, <2>2
  <1> HIDE DEF next, F
  <1>9. \A p \in 1..n + 1 : s[p] \in AccountsDB
    <2> DEFINE T == {p \in Nat : s[p] \in AccountsDB}
    <2>1. 1 \in T
      BY <1>1, <1>7
    <2>2. ASSUME NEW p \in 1..n, p \in T PROVE p + 1 \in T
      <3>1. s[p + 1] \in AccountsDB
        BY <1>2, <1>8, <2>2
      <3>2. QED
        BY <3>1
    <2>3. 1..n + 1 \subseteq T
      <3> HIDE DEF T, n
      <3>1. QED
        BY <1>1, <2>1, <2>2, EveryStep
    <2>4. QED
      BY <2>3
  <1>10. QED
    BY <1>1, <1>4, <1>7, <1>8, <1>9 DEF ChainIs

\* A list of steps and what is known of each step's world.
GoodPlan(c, steps, drift) ==
    /\ c \in Chains /\ steps \in Plans /\ drift \in [1..Len(steps) -> Drift]
    /\ \A k \in 1..Len(steps) : steps[k].pos <= Len(c.txs)

LEMMA PlanIs ==
    ASSUME NEW c, NEW steps, NEW drift, GoodPlan(c, steps, drift)
    PROVE  /\ Len(steps) \in Nat /\ ChainIs(c)
           /\ \A k \in 1..Len(steps) :
                /\ drift[k] \in SUBSET Account
                /\ HasBase(steps[k]) => steps[k].pos \in 1..Len(c.txs)
                /\ IsLanded(steps[k]) => HasBase(steps[k])
                /\ ~IsLanded(steps[k]) => steps[k].tx \in Tx
                /\ TxOf(c, steps[k]) \in Tx
  <1> DEFINE S == {steps[k] : k \in DOMAIN steps}
  <1>1. steps \in Seq(S) /\ Drift \subseteq SUBSET Account
    BY BundleAssumption DEF GoodPlan
  <1>2. Len(steps) \in Nat /\ DOMAIN steps = 1..Len(steps)
    BY <1>1
  <1>3. ChainIs(c)
    BY ChainExists DEF GoodPlan
  <1>4. ASSUME NEW k \in 1..Len(steps)
        PROVE  /\ drift[k] \in SUBSET Account
               /\ HasBase(steps[k]) => steps[k].pos \in 1..Len(c.txs)
               /\ IsLanded(steps[k]) => HasBase(steps[k])
               /\ ~IsLanded(steps[k]) => steps[k].tx \in Tx
    <2>1. \/ steps[k].kind = "landed" /\ steps[k].pos \in Nat \ {None}
          \/ steps[k].kind = "custom" /\ steps[k].pos \in Nat /\ steps[k].tx \in Tx
      BY <1>2, BundleAssumption DEF GoodPlan
    <2>2. steps[k].pos <= Len(c.txs) /\ Len(c.txs) \in Nat
      BY <1>3 DEF GoodPlan, ChainIs
    <2>3. drift[k] \in Drift
      BY DEF GoodPlan
    <2>4. QED
      BY <1>1, <2>1, <2>2, <2>3 DEF HasBase, IsLanded, None
  <1>5. ASSUME NEW k \in 1..Len(steps) PROVE TxOf(c, steps[k]) \in Tx
    <2>1. CASE IsLanded(steps[k])
      BY <1>3, <1>4, <2>1 DEF ChainIs, TxOf
    <2>2. CASE ~IsLanded(steps[k])
      BY <1>4, <2>2 DEF TxOf
    <2>3. QED
      BY <2>1, <2>2
  <1>6. QED
    BY <1>2, <1>3, <1>4, <1>5

\* The world of transaction p by itself, with the accounts L as of today.
ReplayHolds(c, p, L) ==
    LET base == ReplayAt(c, p, L)
        names == c.txs[p].names
    IN  /\ base.ctx \in Worlds /\ base.provenance = names \ L
        /\ DOMAIN base.ctx \subseteq names /\ names \subseteq Account
        /\ L = {} => \A a : /\ a \in DOMAIN base.ctx <=> a \in names /\ StateAt(c, p)[a] # 0
                            /\ a \in DOMAIN base.ctx => base.ctx[a] = StateAt(c, p)[a]

LEMMA ReplayIs ==
    ASSUME NEW c, ChainIs(c), NEW p \in 1..Len(c.txs), NEW L \in SUBSET Account
    PROVE  ReplayHolds(c, p, L)
  <1> DEFINE names == c.txs[p].names
             old == Loaded(Today(c), names \cap L)
             known == Loaded(StateAt(c, p), names \ L)
  <1>1. c.txs[p] \in Tx /\ StateAt(c, p) \in AccountsDB /\ Len(c.txs) \in Nat
    BY DEF ChainIs
  <1>2. Today(c) \in AccountsDB
    BY <1>1 DEF ChainIs, Today
  <1>3. names \subseteq Account
    BY <1>1, SvmAssumption
  <1>4. ReplayAt(c, p, L).ctx = Overlay(old, known) /\ ReplayAt(c, p, L).provenance = names \ L
    BY DEF ReplayAt
  <1> HIDE DEF names
  <1>5. names \cap L \in SUBSET Account /\ names \ L \in SUBSET Account
    BY <1>3
  <1>6. /\ old \in Worlds /\ known \in Worlds
        /\ \A a : a \in DOMAIN old <=> a \in names \cap L /\ Today(c)[a] # 0
        /\ \A a : a \in DOMAIN known <=> a \in names \ L /\ StateAt(c, p)[a] # 0
        /\ \A a \in DOMAIN known : known[a] = StateAt(c, p)[a]
    BY <1>1, <1>2, <1>5, LoadedIs
  <1> HIDE DEF old, known
  <1>7. Overlay(old, known) \in Worlds /\ DOMAIN Overlay(old, known) = DOMAIN old \cup DOMAIN known
        /\ \A a \in DOMAIN known : Overlay(old, known)[a] = known[a]
    BY <1>6, OverlayIs
  <1>8. DOMAIN Overlay(old, known) \subseteq names
    BY <1>6, <1>7
  <1>9. ASSUME L = {}, NEW a
        PROVE  /\ a \in DOMAIN Overlay(old, known) <=> a \in names /\ StateAt(c, p)[a] # 0
               /\ a \in DOMAIN Overlay(old, known) => Overlay(old, known)[a] = StateAt(c, p)[a]
    <2>1. a \notin DOMAIN old
      BY <1>6, <1>9
    <2>2. a \in DOMAIN known <=> a \in names /\ StateAt(c, p)[a] # 0
      BY <1>6, <1>9
    <2>3. QED
      BY <1>6, <1>7, <2>1, <2>2
  <1>10. QED
    BY <1>3, <1>4, <1>7, <1>8, <1>9 DEF names, ReplayHolds

\* A step's own world holds what that of its place in history holds.
StepReplayHolds(c, s, L) ==
    LET rebuilt == StepReplay(c, s, L).ctx
        base == ReplayAt(c, s.pos, L).ctx
    IN  /\ rebuilt \in Worlds
        /\ HasBase(s) => base \in Worlds /\ \A a \in DOMAIN base : a \in DOMAIN rebuilt /\ rebuilt[a] = base[a]

LEMMA StepReplayIs ==
    ASSUME NEW c, NEW steps, NEW drift, GoodPlan(c, steps, drift), NEW k \in 1..Len(steps)
    PROVE  StepReplayHolds(c, steps[k], drift[k])
  <1> DEFINE s == steps[k]
             L == drift[k]
             base == ReplayAt(c, s.pos, L)
             today == Loaded(Today(c), s.tx.names)
  <1>1. /\ ChainIs(c) /\ L \in SUBSET Account
        /\ HasBase(s) => s.pos \in 1..Len(c.txs)
        /\ IsLanded(s) => HasBase(s)
        /\ ~IsLanded(s) => s.tx \in Tx
    BY PlanIs
  <1>2. HasBase(s) => base.ctx \in Worlds
    BY <1>1, ReplayIs DEF ReplayHolds
  <1>3. ~IsLanded(s) => today \in Worlds
    <2>1. Today(c) \in AccountsDB
      BY <1>1 DEF ChainIs, Today
    <2>2. ~IsLanded(s) => s.tx.names \in SUBSET Account
      BY <1>1, SvmAssumption
    <2>3. QED
      BY <2>1, <2>2, LoadedIs
  <1>4. StepReplay(c, s, L).ctx =
          IF IsLanded(s) THEN base.ctx
          ELSE IF ~HasBase(s) THEN today
          ELSE Overlay(Unloaded(today, base.provenance), base.ctx)
    BY DEF StepReplay
  <1> HIDE DEF s, base, today, L
  <1>5. ASSUME ~IsLanded(s), HasBase(s)
        PROVE  LET both == Overlay(Unloaded(today, base.provenance), base.ctx)
               IN  /\ both \in Worlds
                   /\ \A a \in DOMAIN base.ctx : a \in DOMAIN both /\ both[a] = base.ctx[a]
    <2> DEFINE kept == Unloaded(today, base.provenance)
               own == base.ctx
    <2>1. kept \in Worlds /\ own \in Worlds
      BY <1>2, <1>3, <1>5, UnloadedIs
    <2> HIDE DEF kept, own
    <2>2. Overlay(kept, own) \in Worlds /\ DOMAIN Overlay(kept, own) = DOMAIN kept \cup DOMAIN own
          /\ \A a \in DOMAIN own : Overlay(kept, own)[a] = own[a]
      BY <2>1, OverlayIs
    <2>3. QED
      BY <2>2 DEF kept, own
  <1>6. StepReplay(c, s, L).ctx \in Worlds
    BY <1>1, <1>2, <1>3, <1>4, <1>5
  <1>7. ASSUME HasBase(s), NEW a \in DOMAIN base.ctx
        PROVE  a \in DOMAIN StepReplay(c, s, L).ctx /\ StepReplay(c, s, L).ctx[a] = base.ctx[a]
    BY <1>4, <1>5, <1>7
  <1>8. QED
    BY <1>2, <1>6, <1>7 DEF s, base, L, StepReplayHolds

\* The merge over the first k steps.
MergeStates == [ctx : Worlds, decided : SUBSET Account, absent : SUBSET Account]
MergeStart == [ctx |-> <<>>, decided |-> {}, absent |-> {}]
MergeStep(c, steps, drift, k, h) ==
    IF ~HasBase(steps[k]) THEN h
    ELSE LET base == ReplayAt(c, steps[k].pos, drift[k])
             held == h.decided \cup DOMAIN base.ctx
             known == base.provenance \ DOMAIN base.ctx
         IN  [ctx |-> AbsorbUndecided(h.ctx, base.ctx, h.decided),
              decided |-> held \cup known,
              absent |-> h.absent \cup (known \ held)]
MergeTo(c, steps, drift) ==
    CHOOSE h : h = [k \in 0..Len(steps) |-> IF k = 0 THEN MergeStart
                                            ELSE MergeStep(c, steps, drift, k, h[k - 1])]
MergeIs(c, steps, drift) ==
    LET h == MergeTo(c, steps, drift)
    IN  /\ Merge(c, steps, drift) = h[Len(steps)]
        /\ h[0] = MergeStart
        /\ \A k \in 1..Len(steps) : h[k] = MergeStep(c, steps, drift, k, h[k - 1])
        /\ \A k \in 0..Len(steps) : h[k] \in MergeStates

LEMMA NoWorld == <<>> \in Worlds
  <1>1. IsWorld(<<>>)
    BY DEF IsWorld
  <1>2. QED
    BY <1>1, WorldIs

LEMMA MergeStepIs ==
    ASSUME NEW c, NEW steps, NEW drift, GoodPlan(c, steps, drift), NEW k \in 1..Len(steps),
           NEW h \in MergeStates
    PROVE  MergeStep(c, steps, drift, k, h) \in MergeStates
  <1> DEFINE base == ReplayAt(c, steps[k].pos, drift[k])
             held == h.decided \cup DOMAIN base.ctx
             known == base.provenance \ DOMAIN base.ctx
  <1>1. CASE ~HasBase(steps[k])
    BY <1>1 DEF MergeStep
  <1>2. CASE HasBase(steps[k])
    <2>1. /\ base.ctx \in Worlds /\ base.provenance = c.txs[steps[k].pos].names \ drift[k]
          /\ c.txs[steps[k].pos].names \subseteq Account
      <3>1. PICK p, L : p = steps[k].pos /\ L = drift[k]
        OBVIOUS
      <3>2. ChainIs(c) /\ p \in 1..Len(c.txs) /\ L \in SUBSET Account
        BY <1>2, <3>1, PlanIs
      <3>3. ReplayHolds(c, p, L)
        BY <3>2, ReplayIs
      <3>4. /\ ReplayAt(c, p, L).ctx \in Worlds /\ ReplayAt(c, p, L).provenance = c.txs[p].names \ L
            /\ c.txs[p].names \subseteq Account
        BY <3>3, Zenon DEF ReplayHolds
      <3>5. QED
        BY <3>1, <3>4
    <2>2. MergeStep(c, steps, drift, k, h) =
            [ctx |-> AbsorbUndecided(h.ctx, base.ctx, h.decided),
             decided |-> held \cup known, absent |-> h.absent \cup (known \ held)]
      BY <1>2 DEF MergeStep
    <2> HIDE DEF base
    <2>3. h.ctx \in Worlds /\ h.decided \subseteq Account /\ h.absent \subseteq Account
      BY DEF MergeStates
    <2>4. DOMAIN base.ctx \subseteq Account
      BY <2>1, WorldIs DEF IsWorld
    <2>5. AbsorbUndecided(h.ctx, base.ctx, h.decided) \in Worlds
      BY <2>1, <2>3, AbsorbIs DEF Absorbed
    <2>6. held \cup known \in SUBSET Account /\ h.absent \cup (known \ held) \in SUBSET Account
      BY <2>1, <2>3, <2>4
    <2>7. QED
      BY <2>2, <2>5, <2>6 DEF MergeStates
  <1>3. QED
    BY <1>1, <1>2

LEMMA MergeExists ==
    ASSUME NEW c, NEW steps, NEW drift, GoodPlan(c, steps, drift)
    PROVE  MergeIs(c, steps, drift)
  <1> DEFINE n == Len(steps)
             next(x) == [k \in 0..Len(steps) |-> IF k = 0 THEN MergeStart
                                                 ELSE MergeStep(c, steps, drift, k, x[k - 1])]
             F == [k \in 1..n |-> [h \in MergeStates |-> MergeStep(c, steps, drift, k, h)]]
             s == MergeTo(c, steps, drift)
  <1>1. n \in Nat /\ MergeStart \in MergeStates
    BY PlanIs, NoWorld DEF MergeStart, MergeStates
  <1>2. \A k \in 1..n : \A h \in MergeStates : MergeStep(c, steps, drift, k, h) \in MergeStates
    BY MergeStepIs
  <1>3. \E x : x = next(x)
    <2>1. \A i \in 1..n : \A v \in MergeStates : F[i][v] = MergeStep(c, steps, drift, i, v)
      OBVIOUS
    <2> HIDE DEF F
    <2>2. \A i \in 1..n : \A v \in MergeStates : F[i][v] \in MergeStates
      BY <1>2, <2>1
    <2>3. PICK x : Recursive(x, n, MergeStates, MergeStart, F)
      BY <1>1, <2>2, Recursion
    <2>4. ASSUME NEW i \in 0..n
          PROVE  x[i] = IF i = 0 THEN MergeStart ELSE MergeStep(c, steps, drift, i, x[i - 1])
      <3>1. CASE i = 0
        BY <2>3, <3>1 DEF Recursive
      <3>2. CASE i # 0
        <4>1. i \in 1..n /\ i - 1 \in 0..n
          BY <1>1, <3>2
        <4>2. x[i] = F[i][x[i - 1]] /\ x[i - 1] \in MergeStates
          BY <2>3, <4>1 DEF Recursive
        <4>3. QED
          BY <2>1, <3>2, <4>1, <4>2
      <3>3. QED
        BY <3>1, <3>2
    <2>5. x = [i \in 0..n |-> x[i]]
      BY <2>3 DEF Recursive
    <2>6. x = next(x)
      BY <2>4, <2>5
    <2>7. QED
      BY <2>6
  <1>4. s = next(s)
    <2>1. s = CHOOSE x : x = next(x)
      BY DEF MergeTo
    <2> HIDE DEF s, next
    <2>2. QED
      BY <1>3, <2>1
  <1>5. Merge(c, steps, drift) = s[n]
    BY Zenon DEF Merge, MergeTo, MergeStep, MergeStart
  <1> HIDE DEF s, F
  <1>6. s[0] = MergeStart /\ \A k \in 1..n : s[k] = MergeStep(c, steps, drift, k, s[k - 1])
    <2>1. next(s)[0] = MergeStart
      BY <1>1
    <2>2. ASSUME NEW k \in 1..n PROVE next(s)[k] = MergeStep(c, steps, drift, k, s[k - 1])
      <3>1. k \in 0..n /\ k # 0
        BY <1>1
      <3>2. QED
        BY <3>1
    <2> HIDE DEF next
    <2>3. QED
      BY <1>4, <2>1, <2>2
  <1>7. \A k \in 0..n : s[k] \in MergeStates
    <2> DEFINE T == {k \in 0..n : s[k] \in MergeStates}
    <2>1. 0 \in T
      BY <1>1, <1>6
    <2>2. \A k \in 1..n : k - 1 \in T => k \in T
      BY <1>2, <1>6
    <2>3. 0..n \subseteq T
      <3> HIDE DEF T, n
      <3>1. QED
        BY <1>1, <2>1, <2>2, EveryFromZero
    <2>4. QED
      BY <2>3
  <1>8. QED
    BY <1>5, <1>6, <1>7 DEF MergeIs, s

\* The world after the first k steps' own transactions.
Headed(replays, merged) ==
    Unloaded(Overlay(replays[1].ctx, merged.ctx), merged.absent \ DOMAIN merged.ctx)
WorldStep(steps, replays, merged, k, w) ==
    IF IsLanded(steps[k]) THEN w ELSE AbsorbUndecided(w, replays[k].ctx, merged.decided)
WorldTo(steps, replays, merged) ==
    CHOOSE w : w = [k \in 0..Len(steps) |-> IF k = 0 THEN Headed(replays, merged)
                                            ELSE WorldStep(steps, replays, merged, k, w[k - 1])]
WorldIsOf(steps, replays, merged) ==
    LET w == WorldTo(steps, replays, merged)
    IN  /\ World(steps, replays, merged) = w[Len(steps)]
        /\ w[0] = Headed(replays, merged)
        /\ \A k \in 1..Len(steps) : w[k] = WorldStep(steps, replays, merged, k, w[k - 1])
        /\ \A k \in 0..Len(steps) : w[k] \in Worlds

LEMMA WorldExists ==
    ASSUME NEW steps, NEW replays, NEW merged \in MergeStates, Len(steps) \in Nat \ {0},
           \A k \in 1..Len(steps) : replays[k].ctx \in Worlds
    PROVE  WorldIsOf(steps, replays, merged)
  <1> DEFINE n == Len(steps)
             next(x) == [k \in 0..Len(steps) |-> IF k = 0 THEN Headed(replays, merged)
                                                 ELSE WorldStep(steps, replays, merged, k, x[k - 1])]
             F == [k \in 1..n |-> [w \in Worlds |-> WorldStep(steps, replays, merged, k, w)]]
             s == WorldTo(steps, replays, merged)
  <1>1. n \in Nat /\ Headed(replays, merged) \in Worlds
    <2>1. replays[1].ctx \in Worlds /\ merged.ctx \in Worlds
      BY DEF MergeStates
    <2>2. Overlay(replays[1].ctx, merged.ctx) \in Worlds
      BY <2>1, OverlayIs
    <2>3. QED
      BY <2>2, UnloadedIs DEF Headed
  <1>2. \A k \in 1..n : \A w \in Worlds : WorldStep(steps, replays, merged, k, w) \in Worlds
    BY AbsorbIs DEF WorldStep, Absorbed
  <1>3. \E x : x = next(x)
    <2>1. \A i \in 1..n : \A v \in Worlds : F[i][v] = WorldStep(steps, replays, merged, i, v)
      OBVIOUS
    <2> HIDE DEF F
    <2>2. \A i \in 1..n : \A v \in Worlds : F[i][v] \in Worlds
      BY <1>2, <2>1
    <2>3. PICK x : Recursive(x, n, Worlds, Headed(replays, merged), F)
      BY <1>1, <2>2, Recursion
    <2>4. ASSUME NEW i \in 0..n
          PROVE  x[i] = IF i = 0 THEN Headed(replays, merged)
                        ELSE WorldStep(steps, replays, merged, i, x[i - 1])
      <3>1. CASE i = 0
        BY <2>3, <3>1 DEF Recursive
      <3>2. CASE i # 0
        <4>1. i \in 1..n /\ i - 1 \in 0..n
          BY <1>1, <3>2
        <4>2. x[i] = F[i][x[i - 1]] /\ x[i - 1] \in Worlds
          BY <2>3, <4>1 DEF Recursive
        <4>3. QED
          BY <2>1, <3>2, <4>1, <4>2
      <3>3. QED
        BY <3>1, <3>2
    <2>5. x = [i \in 0..n |-> x[i]]
      BY <2>3 DEF Recursive
    <2>6. x = next(x)
      BY <2>4, <2>5
    <2>7. QED
      BY <2>6
  <1>4. s = next(s)
    <2>1. s = CHOOSE x : x = next(x)
      BY DEF WorldTo
    <2> HIDE DEF s, next
    <2>2. QED
      BY <1>3, <2>1
  <1>5. World(steps, replays, merged) = s[n]
    BY Zenon DEF World, WorldTo, WorldStep, Headed
  <1> HIDE DEF s, F
  <1>6. s[0] = Headed(replays, merged) /\ \A k \in 1..n : s[k] = WorldStep(steps, replays, merged, k, s[k - 1])
    <2>1. next(s)[0] = Headed(replays, merged)
      BY <1>1
    <2>2. ASSUME NEW k \in 1..n PROVE next(s)[k] = WorldStep(steps, replays, merged, k, s[k - 1])
      <3>1. k \in 0..n /\ k # 0
        BY <1>1
      <3>2. QED
        BY <3>1
    <2> HIDE DEF next
    <2>3. QED
      BY <1>4, <2>1, <2>2
  <1>7. \A k \in 0..n : s[k] \in Worlds
    <2> DEFINE T == {k \in 0..n : s[k] \in Worlds}
    <2>1. 0 \in T
      BY <1>1, <1>6
    <2>2. \A k \in 1..n : k - 1 \in T => k \in T
      BY <1>2, <1>6
    <2>3. 0..n \subseteq T
      <3> HIDE DEF T, n
      <3>1. QED
        BY <1>1, <2>1, <2>2, EveryFromZero
    <2>4. QED
      BY <2>3
  <1>8. QED
    BY <1>5, <1>6, <1>7 DEF WorldIsOf, s

\* An account the merge has decided is in the bundle's world as the merge has it.
LEMMA DecidedStays ==
    ASSUME NEW steps, NEW replays, NEW merged \in MergeStates, Len(steps) \in Nat \ {0},
           \A k \in 1..Len(steps) : replays[k].ctx \in Worlds,
           NEW a \in merged.decided
    PROVE  LET w == World(steps, replays, merged)
           IN  /\ w \in Worlds
               /\ a \in DOMAIN merged.ctx => a \in DOMAIN w /\ w[a] = merged.ctx[a]
               /\ a \in merged.absent /\ a \notin DOMAIN merged.ctx => a \notin DOMAIN w
  <1> DEFINE n == Len(steps)
             w == WorldTo(steps, replays, merged)
             both == Overlay(replays[1].ctx, merged.ctx)
             gone == merged.absent \ DOMAIN merged.ctx
             T == {k \in 0..n : /\ a \in DOMAIN w[k] <=> a \in DOMAIN w[0]
                                /\ a \in DOMAIN w[0] => w[k][a] = w[0][a]}
  <1>1. /\ World(steps, replays, merged) = w[n] /\ w[0] = Headed(replays, merged)
        /\ \A k \in 1..n : w[k] = WorldStep(steps, replays, merged, k, w[k - 1])
        /\ \A k \in 0..n : w[k] \in Worlds
    BY WorldExists DEF WorldIsOf
  <1> HIDE DEF w
  <1>2. n \in Nat /\ n \in 0..n /\ 0 \in 0..n
    OBVIOUS
  <1>3. 0 \in T
    BY <1>2
  <1>4. ASSUME NEW k \in 1..n, k - 1 \in T PROVE k \in T
    <2>1. k - 1 \in 0..n /\ k \in 0..n /\ w[k - 1] \in Worlds
      BY <1>1, <1>4
    <2>2. CASE IsLanded(steps[k])
      BY <1>1, <1>4, <2>1, <2>2 DEF WorldStep
    <2>3. CASE ~IsLanded(steps[k])
      <3>1. w[k] = AbsorbUndecided(w[k - 1], replays[k].ctx, merged.decided)
        BY <1>1, <2>3 DEF WorldStep
      <3>2. /\ a \in DOMAIN w[k] <=> a \in DOMAIN w[k - 1]
            /\ a \in DOMAIN w[k - 1] => w[k][a] = w[k - 1][a]
        <4>1. PICK v, o : v = w[k - 1] /\ o = replays[k].ctx
          OBVIOUS
        <4>2. v \in Worlds /\ o \in Worlds
          BY <2>1, <4>1
        <4>3. SameAt(v, AbsorbUndecided(v, o, merged.decided), a)
          BY <4>2, AbsorbSpares
        <4>4. QED
          BY <3>1, <4>1, <4>3 DEF SameAt
      <3>3. QED
        BY <1>4, <2>1, <3>2
    <2>4. QED
      BY <2>2, <2>3
  <1>5. n \in T
    <2> HIDE DEF T, n
    <2>1. 0..n \subseteq T
      BY <1>2, <1>3, <1>4, EveryFromZero
    <2>2. QED
      BY <1>2, <2>1
  <1>6. replays[1].ctx \in Worlds /\ merged.ctx \in Worlds
    BY DEF MergeStates
  <1>7. w[0] = Unloaded(both, gone)
    BY <1>1 DEF Headed
  <1> HIDE DEF T
  <1>8. both \in Worlds /\ DOMAIN both = DOMAIN replays[1].ctx \cup DOMAIN merged.ctx
        /\ \A x \in DOMAIN merged.ctx : both[x] = merged.ctx[x]
    BY <1>6, OverlayIs
  <1> HIDE DEF both, gone
  <1>9. DOMAIN w[0] = DOMAIN both \ gone /\ \A x \in DOMAIN both \ gone : w[0][x] = both[x]
    <2>1. DOMAIN Unloaded(both, gone) = DOMAIN both \ gone
          /\ \A x \in DOMAIN both \ gone : Unloaded(both, gone)[x] = both[x]
      BY <1>8, UnloadedIs, Zenon
    <2>2. QED
      BY <1>7, <2>1
  <1>10. /\ a \in DOMAIN merged.ctx => a \in DOMAIN w[0] /\ w[0][a] = merged.ctx[a]
         /\ a \in merged.absent /\ a \notin DOMAIN merged.ctx => a \notin DOMAIN w[0]
    BY <1>8, <1>9 DEF gone
  <1>11. /\ a \in DOMAIN w[n] <=> a \in DOMAIN w[0]
         /\ a \in DOMAIN w[0] => w[n][a] = w[0][a]
    BY <1>5 DEF T
  <1>12. QED
    BY <1>1, <1>2, <1>10, <1>11

-----------------------------------------------------------------------------
(* The world a bundle starts from holds, of an account that a step with an *)
(* established world is the first to name, what that world holds.          *)

Named(c, s) == c.txs[s.pos].names

\* Step m, with a place in history and its world established, is the first to name a.
FirstNames(c, steps, drift, m, a) ==
    /\ HasBase(steps[m]) /\ drift[m] = {} /\ a \in Named(c, steps[m])
    /\ \A i \in 1..m - 1 : HasBase(steps[i]) => a \notin Named(c, steps[i])

\* A merge holds of the account a what the state s holds.
Settled(h, s, a) ==
    /\ a \in h.decided
    /\ s[a] # 0 => a \in DOMAIN h.ctx /\ h.ctx[a] = s[a]
    /\ s[a] = 0 => a \notin DOMAIN h.ctx /\ a \in h.absent

Untouched(h, a) == a \notin h.decided /\ a \notin DOMAIN h.ctx

LEMMA MergePasses ==
    ASSUME NEW c, NEW steps, NEW drift, GoodPlan(c, steps, drift), NEW k \in 1..Len(steps),
           NEW h \in MergeStates, NEW a, HasBase(steps[k]) => a \notin Named(c, steps[k]),
           Untouched(h, a)
    PROVE  Untouched(MergeStep(c, steps, drift, k, h), a)
  <1> DEFINE base == ReplayAt(c, steps[k].pos, drift[k])
             held == h.decided \cup DOMAIN base.ctx
             known == base.provenance \ DOMAIN base.ctx
  <1>1. CASE ~HasBase(steps[k])
    BY <1>1 DEF MergeStep
  <1>2. CASE HasBase(steps[k])
    <2>1. PICK p, L : p = steps[k].pos /\ L = drift[k]
      OBVIOUS
    <2>2. ChainIs(c) /\ p \in 1..Len(c.txs) /\ L \in SUBSET Account
      BY <1>2, <2>1, PlanIs
    <2>3. /\ base.ctx \in Worlds /\ base.provenance = c.txs[p].names \ L
          /\ DOMAIN base.ctx \subseteq c.txs[p].names
      BY <2>1, <2>2, ReplayIs DEF ReplayHolds
    <2>4. a \notin c.txs[p].names
      BY <1>2, <2>1 DEF Named
    <2>5. MergeStep(c, steps, drift, k, h) =
            [ctx |-> AbsorbUndecided(h.ctx, base.ctx, h.decided),
             decided |-> held \cup known, absent |-> h.absent \cup (known \ held)]
      BY <1>2 DEF MergeStep
    <2> HIDE DEF base
    <2>6. a \notin held \cup known
      BY <2>3, <2>4 DEF Untouched
    <2>7. h.ctx \in Worlds
      BY DEF MergeStates
    <2>8. Absorbed(h.ctx, base.ctx, h.decided, AbsorbUndecided(h.ctx, base.ctx, h.decided))
      BY <2>3, <2>7, AbsorbIs
    <2>9. a \notin DOMAIN AbsorbUndecided(h.ctx, base.ctx, h.decided)
      BY <2>3, <2>4, <2>8 DEF Absorbed, Untouched
    <2>10. QED
      BY <2>5, <2>6, <2>9 DEF Untouched
  <1>3. QED
    BY <1>1, <1>2

LEMMA MergeSettles ==
    ASSUME NEW c, NEW steps, NEW drift, GoodPlan(c, steps, drift), NEW k \in 1..Len(steps),
           NEW h \in MergeStates, NEW a, HasBase(steps[k]), a \in Named(c, steps[k]), drift[k] = {},
           Untouched(h, a)
    PROVE  Settled(MergeStep(c, steps, drift, k, h), StateAt(c, steps[k].pos), a)
  <1> DEFINE base == ReplayAt(c, steps[k].pos, drift[k])
             held == h.decided \cup DOMAIN base.ctx
             known == base.provenance \ DOMAIN base.ctx
             u == AbsorbUndecided(h.ctx, base.ctx, h.decided)
  <1>1. PICK p : p = steps[k].pos
    OBVIOUS
  <1>2. ChainIs(c) /\ p \in 1..Len(c.txs)
    BY <1>1, PlanIs
  <1>3. /\ ReplayAt(c, p, {}).ctx \in Worlds /\ ReplayAt(c, p, {}).provenance = c.txs[p].names \ {}
        /\ \A b : /\ b \in DOMAIN ReplayAt(c, p, {}).ctx <=> b \in c.txs[p].names /\ StateAt(c, p)[b] # 0
                  /\ b \in DOMAIN ReplayAt(c, p, {}).ctx
                       => ReplayAt(c, p, {}).ctx[b] = StateAt(c, p)[b]
    <2>1. PICK L \in SUBSET Account : L = {}
      OBVIOUS
    <2>2. /\ ReplayAt(c, p, L).ctx \in Worlds /\ ReplayAt(c, p, L).provenance = c.txs[p].names \ L
          /\ \A b : /\ b \in DOMAIN ReplayAt(c, p, L).ctx <=> b \in c.txs[p].names /\ StateAt(c, p)[b] # 0
                    /\ b \in DOMAIN ReplayAt(c, p, L).ctx
                         => ReplayAt(c, p, L).ctx[b] = StateAt(c, p)[b]
      <3>1. ReplayHolds(c, p, L)
        BY <1>2, ReplayIs
      <3>2. QED
        BY <2>1, <3>1 DEF ReplayHolds
    <2>3. QED
      BY <2>1, <2>2
  <1>4. base = ReplayAt(c, p, {}) /\ a \in c.txs[p].names
    BY <1>1 DEF Named
  <1>5. MergeStep(c, steps, drift, k, h) =
          [ctx |-> u, decided |-> held \cup known, absent |-> h.absent \cup (known \ held)]
    BY DEF MergeStep
  <1> HIDE DEF base
  <1>6. h.ctx \in Worlds /\ base.ctx \in Worlds
    BY <1>3, <1>4 DEF MergeStates
  <1>7. Absorbed(h.ctx, base.ctx, h.decided, u)
    BY <1>6, AbsorbIs
  <1> HIDE DEF u
  <1>8. a \notin h.decided /\ a \notin DOMAIN h.ctx
    BY DEF Untouched
  <1>9. CASE StateAt(c, p)[a] # 0
    <2>1. a \in DOMAIN base.ctx /\ base.ctx[a] = StateAt(c, p)[a]
      BY <1>3, <1>4, <1>9
    <2>2. a \in DOMAIN u /\ u[a] = StateAt(c, p)[a]
      BY <1>7, <1>8, <2>1 DEF Absorbed
    <2>3. QED
      BY <1>1, <1>5, <1>9, <2>1, <2>2 DEF Settled
  <1>10. CASE StateAt(c, p)[a] = 0
    <2>1. a \notin DOMAIN base.ctx /\ a \in base.provenance
      BY <1>3, <1>4, <1>10
    <2>2. a \notin DOMAIN u
      BY <1>7, <1>8, <2>1 DEF Absorbed
    <2>3. a \in known /\ a \notin held
      BY <1>8, <2>1
    <2>4. QED
      BY <1>1, <1>5, <1>10, <2>2, <2>3 DEF Settled
  <1>11. QED
    BY <1>9, <1>10

LEMMA MergeStays ==
    ASSUME NEW c, NEW steps, NEW drift, GoodPlan(c, steps, drift), NEW k \in 1..Len(steps),
           NEW h \in MergeStates, NEW a, NEW s, Settled(h, s, a)
    PROVE  Settled(MergeStep(c, steps, drift, k, h), s, a)
  <1> DEFINE base == ReplayAt(c, steps[k].pos, drift[k])
             held == h.decided \cup DOMAIN base.ctx
             known == base.provenance \ DOMAIN base.ctx
             u == AbsorbUndecided(h.ctx, base.ctx, h.decided)
  <1>1. CASE ~HasBase(steps[k])
    BY <1>1 DEF MergeStep
  <1>2. CASE HasBase(steps[k])
    <2>1. base.ctx \in Worlds
      BY <1>2, StepReplayIs DEF StepReplayHolds
    <2>2. MergeStep(c, steps, drift, k, h) =
            [ctx |-> u, decided |-> held \cup known, absent |-> h.absent \cup (known \ held)]
      BY <1>2 DEF MergeStep
    <2> HIDE DEF base
    <2>3. h.ctx \in Worlds
      BY DEF MergeStates
    <2>4. SameAt(h.ctx, u, a)
      BY <2>1, <2>3, AbsorbSpares DEF Settled
    <2> HIDE DEF u
    <2>5. QED
      BY <2>2, <2>4 DEF Settled, SameAt
  <1>3. QED
    BY <1>1, <1>2

LEMMA FirstMention ==
    ASSUME NEW c, NEW steps, NEW drift, GoodPlan(c, steps, drift), NEW m \in 1..Len(steps), NEW a,
           FirstNames(c, steps, drift, m, a)
    PROVE  Settled(Merge(c, steps, drift), StateAt(c, steps[m].pos), a)
  <1> DEFINE n == Len(steps)
             h == MergeTo(c, steps, drift)
             s == StateAt(c, steps[m].pos)
             T == {i \in 0..m - 1 : Untouched(h[i], a)}
             U == {i \in 0..n : i >= m => Settled(h[i], s, a)}
  <1>1. n \in Nat
    BY PlanIs
  <1>2. /\ Merge(c, steps, drift) = h[n] /\ h[0] = MergeStart
        /\ \A k \in 1..n : h[k] = MergeStep(c, steps, drift, k, h[k - 1])
        /\ \A k \in 0..n : h[k] \in MergeStates
    BY MergeExists DEF MergeIs
  <1> HIDE DEF h, s
  <1>3. m \in 1..n /\ m - 1 \in Nat /\ m - 1 \in 0..n
    BY <1>1
  <1>4. m - 1 \in T
    <2>1. 0 \in T
      BY <1>2, <1>3 DEF MergeStart, Untouched
    <2>2. ASSUME NEW i \in 1..m - 1, i - 1 \in T PROVE i \in T
      <3>1. i \in 1..n /\ i - 1 \in 0..n /\ i \in 0..m - 1
        BY <1>3
      <3>2. HasBase(steps[i]) => a \notin Named(c, steps[i])
        BY DEF FirstNames
      <3>3. Untouched(h[i - 1], a) /\ h[i - 1] \in MergeStates
        BY <1>2, <2>2, <3>1
      <3>4. Untouched(MergeStep(c, steps, drift, i, h[i - 1]), a)
        BY <3>1, <3>2, <3>3, MergePasses
      <3>5. QED
        BY <1>2, <3>1, <3>4
    <2>3. 0..m - 1 \subseteq T
      <3> HIDE DEF T
      <3>1. QED
        BY <1>3, <2>1, <2>2, EveryFromZero
    <2>4. m - 1 \in 0..m - 1
      BY <1>3
    <2>5. QED
      BY <2>3, <2>4
  <1>5. Settled(h[m], s, a)
    <2>1. Untouched(h[m - 1], a) /\ h[m - 1] \in MergeStates
      BY <1>2, <1>3, <1>4
    <2>2. HasBase(steps[m]) /\ drift[m] = {} /\ a \in Named(c, steps[m])
      BY DEF FirstNames
    <2>3. Settled(MergeStep(c, steps, drift, m, h[m - 1]), StateAt(c, steps[m].pos), a)
      BY <2>1, <2>2, MergeSettles
    <2>4. QED
      BY <1>2, <1>3, <2>3 DEF s
  <1>6. n \in U
    <2>1. 0 \in U
      BY <1>3
    <2>2. ASSUME NEW i \in 1..n, i - 1 \in U PROVE i \in U
      <3>1. i \in 0..n /\ i - 1 \in 0..n
        BY <1>1
      <3>2. CASE i < m
        BY <3>1, <3>2
      <3>3. CASE i = m
        BY <1>5, <3>1, <3>3
      <3>4. CASE i > m
        <4>1. Settled(h[i - 1], s, a) /\ h[i - 1] \in MergeStates
          BY <1>2, <2>2, <3>1, <3>4
        <4>2. Settled(MergeStep(c, steps, drift, i, h[i - 1]), s, a)
          BY <4>1, MergeStays
        <4>3. QED
          BY <1>2, <3>1, <4>2
      <3>5. QED
        BY <3>2, <3>3, <3>4
    <2>3. 0..n \subseteq U
      <3> HIDE DEF U
      <3>1. QED
        BY <1>1, <2>1, <2>2, EveryFromZero
    <2>4. n \in 0..n
      BY <1>1
    <2>5. QED
      BY <2>3, <2>4
  <1>7. Settled(h[n], s, a)
    BY <1>3, <1>6
  <1>8. QED
    BY <1>2, <1>7 DEF s

\* What is known of a bundle that is built.
BuiltWell ==
    /\ GoodPlan(chain, plan, drifted)
    /\ Len(plan) \in 1..MaxSteps /\ Len(bundle.steps) = Len(plan) /\ Steps = 1..Len(plan)
    /\ bundle.mode \in {"Consecutive", "CrossSlot"}
    /\ bundle.world \in Worlds
    /\ \A k \in Steps :
          /\ bundle.replays[k].ctx = StepReplay(chain, plan[k], drifted[k]).ctx
          /\ bundle.replays[k].ctx \in Worlds
          /\ bundle.steps[k] = [tx |-> TxOf(chain, plan[k]), custom |-> ~IsLanded(plan[k]),
                                compared |-> HasBase(plan[k]),
                                chain_ok |-> HasBase(plan[k]) => Recorded(chain, plan[k].pos)]
          /\ Names(k) \subseteq Account /\ bundle.steps[k].tx \in Tx
    /\ \A m \in Steps, a \in Account :
          FirstNames(chain, plan, drifted, m, a) =>
            SvmOf(bundle.world)[a] = StateAt(chain, plan[m].pos)[a]

LEMMA IsBuiltWell ==
    ASSUME SetupTrue, bundle # Unbuilt
    PROVE  BuiltWell
  <1> DEFINE n == Len(plan)
             replays == [k \in 1..n |-> StepReplay(chain, plan[k], drifted[k])]
             merged == Merge(chain, plan, drifted)
  <1>1. GoodPlan(chain, plan, drifted) /\ bundle = Built(chain, plan, drifted)
    BY DEF SetupTrue, GoodPlan
  <1>2. n \in 1..MaxSteps /\ Len(bundle.steps) = n /\ Steps = 1..n /\ n \in Nat \ {0}
    BY StepCount
  <1>3. /\ bundle.replays = replays /\ bundle.world = World(plan, replays, merged)
        /\ bundle.mode \in {"Consecutive", "CrossSlot"}
        /\ bundle.steps = [k \in 1..n |-> [tx |-> TxOf(chain, plan[k]), custom |-> ~IsLanded(plan[k]),
                                compared |-> HasBase(plan[k]),
                                chain_ok |-> HasBase(plan[k]) => Recorded(chain, plan[k].pos)]]
    BY <1>1 DEF Built
  <1>4. \A k \in 1..n : replays[k] = StepReplay(chain, plan[k], drifted[k])
    OBVIOUS
  <1> HIDE DEF replays
  <1>5. ASSUME NEW k \in 1..n PROVE replays[k].ctx \in Worlds
    BY <1>1, <1>4, StepReplayIs DEF StepReplayHolds
  <1>6. merged \in MergeStates
    <2>1. MergeIs(chain, plan, drifted)
      BY <1>1, MergeExists
    <2>2. n \in 0..n
      BY <1>2
    <2>3. QED
      BY <2>1, <2>2 DEF MergeIs
  <1>7. bundle.world \in Worlds
    <2>1. WorldIsOf(plan, replays, merged)
      BY <1>2, <1>5, <1>6, WorldExists
    <2>2. n \in 0..n
      BY <1>2
    <2>3. QED
      BY <1>3, <2>1, <2>2 DEF WorldIsOf
  <1>8. ASSUME NEW k \in Steps
        PROVE  /\ bundle.replays[k].ctx = StepReplay(chain, plan[k], drifted[k]).ctx
               /\ bundle.replays[k].ctx \in Worlds
               /\ bundle.steps[k] = [tx |-> TxOf(chain, plan[k]), custom |-> ~IsLanded(plan[k]),
                                compared |-> HasBase(plan[k]),
                                chain_ok |-> HasBase(plan[k]) => Recorded(chain, plan[k].pos)]
               /\ Names(k) \subseteq Account /\ bundle.steps[k].tx \in Tx
    <2>1. k \in 1..n
      BY <1>2
    <2>2. bundle.steps[k] = [tx |-> TxOf(chain, plan[k]), custom |-> ~IsLanded(plan[k]),
                             compared |-> HasBase(plan[k]),
                             chain_ok |-> HasBase(plan[k]) => Recorded(chain, plan[k].pos)]
      BY <1>3, <2>1
    <2>3. bundle.steps[k].tx \in Tx
      BY <1>1, <2>1, <2>2, PlanIs
    <2>4. Names(k) \subseteq Account
      BY <2>3, SvmAssumption DEF Names
    <2>5. QED
      BY <1>3, <1>4, <1>5, <2>1, <2>2, <2>3, <2>4
  <1>9. ASSUME NEW m \in Steps, NEW a \in Account, FirstNames(chain, plan, drifted, m, a)
        PROVE  SvmOf(bundle.world)[a] = StateAt(chain, plan[m].pos)[a]
    <2> DEFINE s == StateAt(chain, plan[m].pos)
               w == World(plan, replays, merged)
    <2>1. m \in 1..n
      BY <1>2
    <2>2. Settled(merged, s, a)
      BY <1>1, <1>9, <2>1, FirstMention
    <2> HIDE DEF merged
    <2>3. a \in merged.decided
      BY <2>2 DEF Settled
    <2>4. /\ a \in DOMAIN merged.ctx => a \in DOMAIN w /\ w[a] = merged.ctx[a]
          /\ a \in merged.absent /\ a \notin DOMAIN merged.ctx => a \notin DOMAIN w
      BY <1>2, <1>5, <1>6, <2>3, DecidedStays
    <2>5. w \in Worlds
      BY <1>3, <1>7
    <2> HIDE DEF s, w
    <2>6. CASE s[a] # 0
      <3>1. a \in DOMAIN w /\ w[a] = s[a]
        BY <2>2, <2>4, <2>6 DEF Settled
      <3>2. SvmOf(w)[a] = s[a]
        BY <2>5, <3>1, SvmIs
      <3>3. QED
        BY <1>3, <3>2 DEF s, w
    <2>7. CASE s[a] = 0
      <3>1. a \notin DOMAIN w
        BY <2>2, <2>4, <2>7 DEF Settled
      <3>2. SvmOf(w)[a] = 0
        BY <2>5, <3>1, SvmIs
      <3>3. QED
        BY <1>3, <2>7, <3>2 DEF s, w
    <2>8. QED
      BY <2>6, <2>7
  <1>10. QED
    BY <1>1, <1>2, <1>3, <1>7, <1>8, <1>9 DEF BuiltWell

-----------------------------------------------------------------------------
(* One step of a run.                                                      *)

GoodEdits(e) == \A k \in DOMAIN e : e[k] \in SomeEdits

LEMMA EditsAreGood ==
    /\ \A e \in Edits : GoodEdits(e)
    /\ GoodEdits(NoEdits)
  BY BundleAssumption DEF GoodEdits, SomeEdits, NoEdits

\* What a step does to the state the fresh SVM is in.
RanHolds(k, st, e) ==
    LET ran == Ran(k, st, e)
    IN  /\ ran.pre \in AccountsDB /\ ran.out.post \in AccountsDB /\ ran.out.ok \in BOOLEAN
        /\ \A a \in Account : (k \notin DOMAIN e \/ a \notin DOMAIN e[k]) => ran.pre[a] = SvmOf(st.ctx)[a]
        /\ \A a \in Account \ Names(k) : ran.out.post[a] = ran.pre[a]

LEMMA RanIs ==
    ASSUME BuiltWell, NEW k \in Steps, NEW st \in Snapshots, NEW e, GoodEdits(e)
    PROVE  RanHolds(k, st, e)
  <1> DEFINE svm == SvmOf(st.ctx)
             d == EditsOf(e, k)
             pre == Mutate(d, svm)
             tx == bundle.steps[k].tx
  <1>1. svm \in AccountsDB
    BY SvmIs DEF Snapshots
  <1>2. d \in SomeEdits
    <2>1. <<>> \in [{} -> Content]
      OBVIOUS
    <2>2. <<>> \in SomeEdits
      BY <2>1 DEF SomeEdits
    <2>3. QED
      BY <2>2 DEF EditsOf, GoodEdits
  <1>3. \A a : k \notin DOMAIN e \/ a \notin DOMAIN e[k] => a \notin DOMAIN d
    BY DEF EditsOf
  <1>4. tx \in Tx /\ tx.names = Names(k)
    BY DEF BuiltWell, Names
  <1> HIDE DEF svm, d
  <1>5. pre \in AccountsDB /\ \A a \in Account \ DOMAIN d : pre[a] = svm[a]
    BY <1>1, <1>2, MutateIs
  <1>6. Ran(k, st, e) = [pre |-> pre, out |-> Exec(tx, pre)]
    BY DEF Ran, svm, d
  <1> HIDE DEF pre, tx
  <1>7. /\ Exec(tx, pre).ok \in BOOLEAN /\ Exec(tx, pre).post \in AccountsDB
        /\ \A a \in Account \ Names(k) : Exec(tx, pre).post[a] = pre[a]
    BY <1>4, <1>5, SvmAssumption
  <1>8. QED
    BY <1>3, <1>5, <1>6, <1>7 DEF RanHolds, svm

\* The state a step leaves the next one, account by account.
NextHolds(k, st, e) ==
    LET svm == Ran(k, st, e).out.post
        next == NextState(k, st, e)
        rebuilt == bundle.replays[k + 1].ctx
    IN  /\ next \in Snapshots
        /\ \A a \in DOMAIN st.ctx :
              svm[a] # 0 => a \in DOMAIN next.carried /\ next.carried[a] = svm[a]
        /\ k + 1 \in Steps /\ bundle.mode = "Consecutive" =>
              /\ next.pending = {}
              /\ \A a \in DOMAIN st.ctx :
                    svm[a] # 0 => a \in DOMAIN next.ctx /\ next.ctx[a] = svm[a]
              /\ \A a \in LaterNames(k) \ DOMAIN st.ctx : SvmOf(next.ctx)[a] = svm[a]
        /\ k + 1 \in Steps /\ bundle.mode = "CrossSlot" =>
              /\ next.pending = Diverged(next.carried, rebuilt)
              /\ \A a \in DOMAIN next.carried : a \in DOMAIN next.ctx /\ next.ctx[a] = next.carried[a]
              /\ \A a \in DOMAIN rebuilt \ DOMAIN next.carried :
                    a \in DOMAIN next.ctx /\ next.ctx[a] = rebuilt[a]

\* w, and what s holds of L beside it.
WithBeside(w, s, L) == Overlay(Loaded(s, L), w)
Beside(w, s, L) ==
    LET u == WithBeside(w, s, L)
    IN  /\ u \in Worlds
        /\ \A a \in DOMAIN w : a \in DOMAIN u /\ u[a] = w[a]
        /\ \A a \in L \ DOMAIN w : SvmOf(u)[a] = s[a]

LEMMA BesideIs ==
    ASSUME NEW w \in Worlds, NEW s \in AccountsDB, NEW L \in SUBSET Account
    PROVE  Beside(w, s, L)
  <1> DEFINE v == Loaded(s, L)
             u == Overlay(v, w)
  <1>1. /\ v \in Worlds /\ \A a : a \in DOMAIN v <=> a \in L /\ s[a] # 0
        /\ \A a \in DOMAIN v : v[a] = s[a]
    BY LoadedIs
  <1> HIDE DEF v
  <1>2. /\ u \in Worlds /\ DOMAIN u = DOMAIN v \cup DOMAIN w
        /\ \A a \in DOMAIN w : u[a] = w[a]
        /\ \A a \in DOMAIN v \ DOMAIN w : u[a] = v[a]
    BY <1>1, OverlayIs
  <1>3. u = WithBeside(w, s, L)
    BY DEF v, WithBeside
  <1> HIDE DEF u
  <1>4. ASSUME NEW a \in L \ DOMAIN w PROVE SvmOf(u)[a] = s[a]
    <2>1. a \in Account
      OBVIOUS
    <2>2. CASE s[a] # 0
      <3>1. a \in DOMAIN u /\ u[a] = s[a]
        BY <1>1, <1>2, <2>2
      <3>2. QED
        BY <1>2, <3>1, SvmIs
    <2>3. CASE s[a] = 0
      <3>1. a \notin DOMAIN u
        BY <1>1, <1>2, <2>3
      <3>2. SvmOf(u)[a] = 0
        BY <1>2, <2>1, <3>1, SvmIs
      <3>3. QED
        BY <2>3, <3>2
    <2>4. QED
      BY <2>2, <2>3
  <1>5. QED
    BY <1>2, <1>3, <1>4 DEF Beside

LEMMA NextIs ==
    ASSUME BuiltWell, NEW k \in Steps, NEW st \in Snapshots, NEW e, GoodEdits(e)
    PROVE  NextHolds(k, st, e)
  <1> DEFINE svm == Ran(k, st, e).out.post
             post == LoadedState(st.ctx, svm)
             next == NextState(k, st, e)
             rebuilt == bundle.replays[k + 1].ctx
             later == LaterNames(k)
             carried == Overlay(st.carried, post)
  <1>1. svm \in AccountsDB
    BY RanIs DEF RanHolds
  <1>2. st.ctx \in Worlds /\ st.carried \in Worlds /\ DOMAIN st.ctx \in SUBSET Account
    BY WorldIs DEF Snapshots, IsWorld
  <1> HIDE DEF svm
  <1>3. /\ post \in Worlds /\ \A a : a \in DOMAIN post <=> a \in DOMAIN st.ctx /\ svm[a] # 0
        /\ \A a \in DOMAIN post : post[a] = svm[a]
    BY <1>1, <1>2, LoadedIs DEF LoadedState
  <1> HIDE DEF post
  <1>4. /\ carried \in Worlds /\ \A a \in DOMAIN post : a \in DOMAIN carried /\ carried[a] = post[a]
    <2>1. PICK w : w = st.carried
      OBVIOUS
    <2>2. /\ Overlay(w, post) \in Worlds /\ DOMAIN Overlay(w, post) = DOMAIN w \cup DOMAIN post
          /\ \A a \in DOMAIN post : Overlay(w, post)[a] = post[a]
      BY <1>2, <1>3, <2>1, OverlayIs
    <2>3. QED
      BY <2>1, <2>2
  <1>5. next = IF k = Len(bundle.steps)
               THEN [ctx |-> st.ctx, carried |-> carried, pending |-> {}]
               ELSE IF bundle.mode = "Consecutive"
               THEN [ctx |-> WithBeside(Overlay(st.ctx, post), svm, later), carried |-> carried, pending |-> {}]
               ELSE [ctx |-> WithBeside(Overlay(rebuilt, carried), svm, later), carried |-> carried,
                     pending |-> Diverged(carried, rebuilt)]
    BY DEF NextState, WithCreated, WithBeside, svm, post
  <1> HIDE DEF carried, next
  <1>6. later \in SUBSET Account
    BY DEF LaterNames, BuiltWell
  <1> HIDE DEF later
  <1>7. next.carried = carried
    BY <1>5
  <1>8. k \in Nat /\ Len(bundle.steps) \in Nat /\ Steps = 1..Len(bundle.steps)
    BY DEF BuiltWell, Steps
  <1>9. \A a \in DOMAIN st.ctx : svm[a] # 0 => a \in DOMAIN carried /\ carried[a] = svm[a]
    BY <1>3, <1>4
  <1>10. CASE k = Len(bundle.steps)
    <2>1. next = [ctx |-> st.ctx, carried |-> carried, pending |-> {}]
      BY <1>5, <1>10
    <2>2. next \in Snapshots
      BY <1>2, <1>4, <2>1 DEF Snapshots
    <2>3. k + 1 \notin Steps
      BY <1>8, <1>10
    <2>4. QED
      BY <1>7, <1>9, <2>2, <2>3 DEF NextHolds, svm, next
  <1>11. CASE k # Len(bundle.steps) /\ bundle.mode = "Consecutive"
    <2> DEFINE w == Overlay(st.ctx, post)
    <2>1. next = [ctx |-> WithBeside(w, svm, later), carried |-> carried, pending |-> {}]
      BY <1>5, <1>11
    <2>2. w \in Worlds /\ DOMAIN w = DOMAIN st.ctx \cup DOMAIN post /\ \A a \in DOMAIN post : w[a] = post[a]
      BY <1>2, <1>3, OverlayIs
    <2> HIDE DEF w
    <2>3. Beside(w, svm, later)
      BY <1>1, <1>6, <2>2, BesideIs
    <2>4. next \in Snapshots
      BY <1>4, <2>1, <2>3 DEF Snapshots, Beside
    <2>5. \A a \in DOMAIN st.ctx : svm[a] # 0 => a \in DOMAIN next.ctx /\ next.ctx[a] = svm[a]
      BY <1>3, <2>1, <2>2, <2>3 DEF Beside
    <2>6. \A a \in later \ DOMAIN st.ctx : SvmOf(next.ctx)[a] = svm[a]
      <3>1. next.ctx = WithBeside(w, svm, later)
        BY <2>1
      <3>2. \A a \in later \ DOMAIN st.ctx : a \in later \ DOMAIN w
        BY <1>3, <2>2
      <3>3. QED
        BY <2>3, <3>1, <3>2 DEF Beside
    <2>7. next.pending = {} /\ bundle.mode # "CrossSlot"
      BY <1>11, <2>1
    <2>8. QED
      BY <1>7, <1>9, <2>4, <2>5, <2>6, <2>7 DEF NextHolds, svm, next, later
  <1>12. CASE k # Len(bundle.steps) /\ bundle.mode = "CrossSlot"
    <2> DEFINE w == Overlay(rebuilt, carried)
    <2>1. next = [ctx |-> WithBeside(w, svm, later), carried |-> carried, pending |-> Diverged(carried, rebuilt)]
      BY <1>5, <1>12
    <2>2. rebuilt \in Worlds
      <3>1. k + 1 \in Steps
        BY <1>8, <1>12
      <3>2. QED
        BY <3>1 DEF BuiltWell
    <2> HIDE DEF rebuilt
    <2>3. w \in Worlds /\ DOMAIN w = DOMAIN rebuilt \cup DOMAIN carried
          /\ (\A a \in DOMAIN carried : w[a] = carried[a])
          /\ (\A a \in DOMAIN rebuilt \ DOMAIN carried : w[a] = rebuilt[a])
      BY <1>4, <2>2, OverlayIs
    <2> HIDE DEF w
    <2>4. Beside(w, svm, later)
      BY <1>1, <1>6, <2>3, BesideIs
    <2>5. Diverged(carried, rebuilt) \in SUBSET Account
      <3>1. DOMAIN carried \subseteq Account
        BY <1>4, WorldIs DEF IsWorld
      <3>2. QED
        BY <3>1 DEF Diverged
    <2>6. next \in Snapshots
      BY <1>4, <2>1, <2>4, <2>5 DEF Snapshots, Beside
    <2>7. /\ \A a \in DOMAIN carried : a \in DOMAIN next.ctx /\ next.ctx[a] = carried[a]
          /\ \A a \in DOMAIN rebuilt \ DOMAIN carried : a \in DOMAIN next.ctx /\ next.ctx[a] = rebuilt[a]
      BY <2>1, <2>3, <2>4 DEF Beside
    <2>8. next.pending = Diverged(carried, rebuilt) /\ bundle.mode # "Consecutive"
      BY <1>12, <2>1
    <2>9. QED
      BY <1>7, <1>9, <2>6, <2>7, <2>8 DEF NextHolds, svm, next, rebuilt
  <1>13. QED
    BY <1>10, <1>11, <1>12 DEF BuiltWell

LEMMA EntryIs ==
    ASSUME BuiltWell
    PROVE  Entry \in Snapshots
  BY NoWorld DEF Entry, Snapshots, BuiltWell

\* Every state a run from the first step goes through is one.
LEMMA ScratchIsTyped ==
    ASSUME BuiltWell, NEW e, GoodEdits(e), NEW k \in 1..Len(bundle.steps) + 1
    PROVE  FromScratch(e, k) \in Snapshots
  <1> DEFINE n == Len(bundle.steps)
             T == {i \in Nat : FromScratch(e, i) \in Snapshots}
  <1>1. n \in Nat /\ Steps = 1..n
    BY DEF BuiltWell, Steps
  <1>2. ScratchIs(e)
    BY <1>1, ScratchExists
  <1>3. 1 \in T
    BY <1>2, EntryIs DEF ScratchIs
  <1>4. ASSUME NEW i \in 1..n, i \in T PROVE i + 1 \in T
    <2>1. NextHolds(i, FromScratch(e, i), e)
      BY <1>1, <1>4, NextIs
    <2>2. FromScratch(e, i + 1) = NextState(i, FromScratch(e, i), e)
      BY <1>1, <1>2 DEF ScratchIs
    <2>3. FromScratch(e, i + 1) \in Snapshots /\ i + 1 \in Nat
      BY <2>1, <2>2 DEF NextHolds
    <2>4. QED
      BY <2>3
  <1>5. 1..n + 1 \subseteq T
    <2> HIDE DEF T, n
    <2>1. QED
      BY <1>1, <1>3, <1>4, EveryStep
  <1>6. QED
    BY <1>5

-----------------------------------------------------------------------------
(* An edit reaches a later step along an edge.                             *)

\* An account is entered with as the bundle's world has it.
AsBuilt(st, a, k) ==
    /\ a \in DOMAIN st.ctx /\ st.ctx[a] = bundle.world[a]
    /\ k # 1 => /\ a \in DOMAIN st.carried /\ st.carried[a] = bundle.world[a]
                /\ a \in st.pending <=> /\ bundle.mode = "CrossSlot"
                                        /\ a \in DOMAIN bundle.replays[k].ctx
                                        /\ bundle.world[a] # bundle.replays[k].ctx[a]

\* Step k neither is edited at a, nor changes it, nor closes it.
Spares(k, st, e, a) ==
    /\ k \in DOMAIN e => a \notin DOMAIN e[k]
    /\ a \notin DOMAIN Report(k, st, e).diff
    /\ LET ran == Ran(k, st, e) IN ran.pre[a] # 0 => ran.out.post[a] # 0

LEMMA SparedStays ==
    ASSUME BuiltWell, NEW k \in Steps, k + 1 \in Steps, NEW st \in Snapshots, NEW e, GoodEdits(e),
           NEW a, AsBuilt(st, a, k), Spares(k, st, e, a)
    PROVE  AsBuilt(NextState(k, st, e), a, k + 1)
  <1> DEFINE pre == Ran(k, st, e).pre
             post == Ran(k, st, e).out.post
             before == LoadedState(st.ctx, pre)
             after == LoadedState(st.ctx, post)
             next == NextState(k, st, e)
             rebuilt == bundle.replays[k + 1].ctx
  <1>1. /\ pre \in AccountsDB /\ post \in AccountsDB
        /\ \A b \in Account : (k \notin DOMAIN e \/ b \notin DOMAIN e[k]) => pre[b] = SvmOf(st.ctx)[b]
        /\ \A b \in Account \ Names(k) : post[b] = pre[b]
    BY RanIs DEF RanHolds
  <1>2. /\ st.ctx \in Worlds /\ DOMAIN st.ctx \in SUBSET Account
        /\ a \in DOMAIN st.ctx /\ st.ctx[a] = bundle.world[a]
    BY WorldIs DEF Snapshots, IsWorld, AsBuilt
  <1>3. a \in Account /\ SvmOf(st.ctx)[a] = st.ctx[a] /\ st.ctx[a] # 0
    BY <1>2, SvmIs
  <1>4. pre[a] = bundle.world[a] /\ pre[a] # 0
    BY <1>1, <1>2, <1>3 DEF Spares
  <1>5. post[a] # 0
    BY <1>4 DEF Spares
  <1>6. post[a] = pre[a]
    <2>1. CASE a \notin Names(k)
      BY <1>1, <1>3, <2>1
    <2>2. CASE a \in Names(k)
      <3>1. Report(k, st, e).diff = Restricted(after, Diff(before, after, Names(k)))
        BY DEF Report
      <3> HIDE DEF pre, post
      <3>2. /\ a \in DOMAIN before /\ before[a] = pre[a]
            /\ a \in DOMAIN after /\ after[a] = post[a]
        BY <1>1, <1>2, <1>4, <1>5, LoadedIs DEF LoadedState
      <3> HIDE DEF before, after
      <3>3. a \notin Diff(before, after, Names(k))
        BY <3>1, <3>2 DEF Spares, Restricted
      <3>4. QED
        BY <2>2, <3>2, <3>3 DEF Diff
    <2>3. QED
      BY <2>1, <2>2
  <1>7. NextHolds(k, st, e)
    BY NextIs
  <1>8. a \in DOMAIN next.carried /\ next.carried[a] = bundle.world[a]
    BY <1>2, <1>4, <1>5, <1>6, <1>7 DEF NextHolds
  <1>9. a \in DOMAIN next.ctx /\ next.ctx[a] = bundle.world[a]
    <2>1. CASE bundle.mode = "Consecutive"
      BY <1>2, <1>4, <1>5, <1>6, <1>7, <2>1 DEF NextHolds
    <2>2. CASE bundle.mode = "CrossSlot"
      BY <1>7, <1>8, <2>2 DEF NextHolds
    <2>3. QED
      BY <2>1, <2>2 DEF BuiltWell
  <1>10. a \in next.pending <=> /\ bundle.mode = "CrossSlot" /\ a \in DOMAIN rebuilt
                                /\ bundle.world[a] # rebuilt[a]
    <2>1. CASE bundle.mode = "Consecutive"
      BY <1>7, <2>1 DEF NextHolds
    <2>2. CASE bundle.mode = "CrossSlot"
      <3>1. next.pending = Diverged(next.carried, rebuilt)
        BY <1>7, <2>2 DEF NextHolds
      <3> HIDE DEF next, rebuilt
      <3>2. QED
        BY <1>8, <2>2, <3>1 DEF Diverged
    <2>3. QED
      BY <2>1, <2>2 DEF BuiltWell
  <1> HIDE DEF next
  <1>11. AsBuilt(next, a, k + 1)
    BY <1>8, <1>9, <1>10 DEF AsBuilt
  <1>12. QED
    BY <1>11 DEF next

LEMMA SparedSoFar ==
    ASSUME BuiltWell, NEW e, GoodEdits(e), NEW j \in Steps, NEW a \in DOMAIN bundle.world,
           \A i \in 1..j - 1 : Spares(i, FromScratch(e, i), e, a)
    PROVE  AsBuilt(FromScratch(e, j), a, j)
  <1> DEFINE n == Len(bundle.steps)
             T == {i \in Nat : AsBuilt(FromScratch(e, i), a, i)}
  <1>1. n \in Nat /\ Steps = 1..n /\ j \in 1..n /\ j - 1 \in Nat
    BY DEF BuiltWell, Steps
  <1>2. ScratchIs(e)
    BY <1>1, ScratchExists
  <1>3. 1 \in T
    <2>1. FromScratch(e, 1) = Entry
      BY <1>2 DEF ScratchIs
    <2>2. AsBuilt(Entry, a, 1)
      BY DEF AsBuilt, Entry
    <2>3. QED
      BY <2>1, <2>2
  <1>4. ASSUME NEW i \in 1..j - 1, i \in T PROVE i + 1 \in T
    <2>1. i \in Steps /\ i + 1 \in Steps /\ i \in 1..n + 1 /\ i + 1 \in Nat
      BY <1>1
    <2>2. FromScratch(e, i) \in Snapshots
      BY <2>1, ScratchIsTyped
    <2>3. AsBuilt(FromScratch(e, i), a, i) /\ Spares(i, FromScratch(e, i), e, a)
      BY <1>4
    <2>4. AsBuilt(NextState(i, FromScratch(e, i), e), a, i + 1)
      BY <2>1, <2>2, <2>3, SparedStays
    <2>5. FromScratch(e, i + 1) = NextState(i, FromScratch(e, i), e)
      BY <1>2, <2>1 DEF ScratchIs
    <2>6. QED
      BY <2>1, <2>4, <2>5
  <1>5. 1..j - 1 + 1 \subseteq T
    <2> HIDE DEF T
    <2>1. QED
      BY <1>1, <1>3, <1>4, EveryStep
  <1>6. j \in 1..j - 1 + 1
    BY <1>1
  <1>7. QED
    BY <1>5, <1>6

\* A step that is not edited, and is entered with the same of all it names,
\* reports the same of it.
SameFor(k, st, other) ==
    \A a \in Names(k) :
        /\ a \in DOMAIN st.ctx /\ a \in DOMAIN other.ctx /\ st.ctx[a] = other.ctx[a]
        /\ a \in DOMAIN st.carried <=> a \in DOMAIN other.carried
        /\ a \in st.pending <=> a \in other.pending

LEMMA SameReport ==
    ASSUME BuiltWell, NEW k \in Steps, NEW st \in Snapshots, NEW other \in Snapshots,
           NEW e, GoodEdits(e), k \notin DOMAIN e, SameFor(k, st, other)
    PROVE  OfNamed(k, Report(k, st, e)) = OfNamed(k, Report(k, other, NoEdits))
  <1> DEFINE tx == bundle.steps[k].tx
             pre == Ran(k, st, e).pre
             out == Ran(k, st, e).out
             pre2 == Ran(k, other, NoEdits).pre
             out2 == Ran(k, other, NoEdits).out
             before == LoadedState(st.ctx, pre)
             after == LoadedState(st.ctx, out.post)
             before2 == LoadedState(other.ctx, pre2)
             after2 == LoadedState(other.ctx, out2.post)
             diff == Restricted(after, Diff(before, after, Names(k)))
             diff2 == Restricted(after2, Diff(before2, after2, Names(k)))
             matches(ok) == (~bundle.steps[k].custom \/ bundle.steps[k].compared)
                              => ok = bundle.steps[k].chain_ok
  <1>1. /\ pre \in AccountsDB /\ out.post \in AccountsDB
        /\ \A a \in Account : pre[a] = SvmOf(st.ctx)[a]
    BY RanIs DEF RanHolds
  <1>2. /\ pre2 \in AccountsDB /\ out2.post \in AccountsDB
        /\ \A a \in Account : pre2[a] = SvmOf(other.ctx)[a]
    <2>1. k \notin DOMAIN NoEdits
      BY DEF NoEdits
    <2>2. QED
      BY <2>1, RanIs, EditsAreGood DEF RanHolds
  <1>3. out = Exec(tx, pre) /\ out2 = Exec(tx, pre2)
    BY DEF Ran
  <1>4. tx \in Tx /\ tx.names = Names(k) /\ Names(k) \subseteq Account
    BY DEF BuiltWell, Names
  <1>5. st.ctx \in Worlds /\ other.ctx \in Worlds /\ DOMAIN st.ctx \in SUBSET Account
        /\ DOMAIN other.ctx \in SUBSET Account
    BY WorldIs DEF Snapshots, IsWorld
  <1>6. Report(k, st, e) = [ok |-> out.ok, diff |-> diff, matches |-> matches(out.ok),
                            carried |-> Names(k) \cap DOMAIN st.carried, diverged |-> st.pending]
    BY DEF Report
  <1>7. Report(k, other, NoEdits) = [ok |-> out2.ok, diff |-> diff2, matches |-> matches(out2.ok),
                            carried |-> Names(k) \cap DOMAIN other.carried, diverged |-> other.pending]
    BY DEF Report
  <1> HIDE DEF tx, pre, pre2, out, out2
  <1>8. ASSUME NEW a \in Names(k) PROVE pre[a] = pre2[a] /\ pre[a] # 0
    <2>1. a \in Account /\ a \in DOMAIN st.ctx /\ a \in DOMAIN other.ctx /\ st.ctx[a] = other.ctx[a]
      BY <1>4 DEF SameFor
    <2>2. SvmOf(st.ctx)[a] = st.ctx[a] /\ st.ctx[a] # 0 /\ SvmOf(other.ctx)[a] = other.ctx[a]
      BY <1>5, <2>1, SvmIs
    <2>3. QED
      BY <1>1, <1>2, <2>1, <2>2
  <1>9. out.ok = out2.ok /\ \A a \in Names(k) : out.post[a] = out2.post[a]
    BY <1>1, <1>2, <1>3, <1>4, <1>8, SvmAssumption
  <1>10. diff = diff2
    <2>1. /\ \A a : a \in DOMAIN before <=> a \in DOMAIN st.ctx /\ pre[a] # 0
          /\ \A a \in DOMAIN before : before[a] = pre[a]
      BY <1>1, <1>5, LoadedIs DEF LoadedState
    <2>2. /\ \A a : a \in DOMAIN after <=> a \in DOMAIN st.ctx /\ out.post[a] # 0
          /\ \A a \in DOMAIN after : after[a] = out.post[a]
      BY <1>1, <1>5, LoadedIs DEF LoadedState
    <2>3. /\ \A a : a \in DOMAIN before2 <=> a \in DOMAIN other.ctx /\ pre2[a] # 0
          /\ \A a \in DOMAIN before2 : before2[a] = pre2[a]
      BY <1>2, <1>5, LoadedIs DEF LoadedState
    <2>4. /\ \A a : a \in DOMAIN after2 <=> a \in DOMAIN other.ctx /\ out2.post[a] # 0
          /\ \A a \in DOMAIN after2 : after2[a] = out2.post[a]
      BY <1>2, <1>5, LoadedIs DEF LoadedState
    <2> HIDE DEF before, after, before2, after2
    <2>5. \A a \in Names(k) :
             /\ a \in DOMAIN before <=> a \in DOMAIN before2
             /\ a \in DOMAIN before => before[a] = before2[a]
             /\ a \in DOMAIN after <=> a \in DOMAIN after2
             /\ a \in DOMAIN after => after[a] = after2[a]
      BY <1>8, <1>9, <2>1, <2>2, <2>3, <2>4 DEF SameFor
    <2> DEFINE D == Diff(before, after, Names(k))
    <2>6. D = Diff(before2, after2, Names(k)) /\ D \subseteq Names(k)
      BY <2>5 DEF Diff
    <2> HIDE DEF D
    <2>7. DOMAIN after \cap D = DOMAIN after2 \cap D
      BY <2>5, <2>6
    <2>8. \A a \in DOMAIN after \cap D : after[a] = after2[a]
      BY <2>5, <2>6
    <2>9. Restricted(after, D) = Restricted(after2, D)
      BY <2>7, <2>8 DEF Restricted
    <2>10. QED
      BY <2>6, <2>9 DEF D
  <1>11. Names(k) \cap DOMAIN st.carried = Names(k) \cap DOMAIN other.carried
    BY DEF SameFor
  <1>12. st.pending \cap Names(k) = other.pending \cap Names(k)
    BY DEF SameFor
  <1> HIDE DEF diff, diff2
  <1>13. matches(out.ok) = matches(out2.ok)
    BY <1>9
  <1> HIDE DEF matches
  <1>14. OfNamed(k, Report(k, st, e)) =
           [ok |-> out.ok, diff |-> diff, matches |-> matches(out.ok),
            carried |-> Names(k) \cap DOMAIN st.carried, diverged |-> st.pending \cap Names(k)]
    BY <1>6 DEF OfNamed
  <1>15. OfNamed(k, Report(k, other, NoEdits)) =
           [ok |-> out2.ok, diff |-> diff2, matches |-> matches(out2.ok),
            carried |-> Names(k) \cap DOMAIN other.carried, diverged |-> other.pending \cap Names(k)]
    BY <1>7 DEF OfNamed
  <1>16. QED
    BY <1>9, <1>10, <1>11, <1>12, <1>13, <1>14, <1>15

\* What the property's wires exclude, of one account and one run.
LEMMA NoWire ==
    ASSUME BuiltWell, NEW e, GoodEdits(e), NEW j \in Steps, NEW a \in Names(j),
           \A i \in DOMAIN e : i < j => a \notin DOMAIN e[i],
           \A w \in Edges(ReportsTo(e, Len(bundle.steps) + 1)) : ~(w.to_step = j /\ w.account = a),
           \A i \in 1..j - 1 : a \notin Closed(i, e)
    PROVE  \A i \in 1..j - 1 : Spares(i, FromScratch(e, i), e, a)
  <1> DEFINE n == Len(bundle.steps)
             reports == ReportsTo(e, n + 1)
  <1>1. n \in Nat /\ Steps = 1..n /\ a \in Account
    <2>1. n \in Nat /\ Steps = 1..n
      BY DEF BuiltWell, Steps
    <2>2. Names(j) \subseteq Account
      BY DEF BuiltWell
    <2>3. QED
      BY <2>1, <2>2
  <1>2. SUFFICES ASSUME NEW i \in 1..j - 1 PROVE Spares(i, FromScratch(e, i), e, a)
    OBVIOUS
  <1>3. i \in Steps /\ i < j /\ i \in 1..(n + 1) - 1
    BY <1>1
  <1>4. i \in DOMAIN e => a \notin DOMAIN e[i]
    BY <1>3
  <1>5. a \notin DOMAIN Report(i, FromScratch(e, i), e).diff
    <2>1. SUFFICES ASSUME a \in DOMAIN Report(i, FromScratch(e, i), e).diff PROVE FALSE
      OBVIOUS
    <2> DEFINE role == IF a \in bundle.steps[j].tx.writable THEN "Writable" ELSE "Readonly"
               w == [from_step |-> i, to_step |-> j, account |-> a, role |-> role]
    <2>2. reports[i] = Report(i, FromScratch(e, i), e)
      BY <1>3, OnLists DEF Reported
    <2> HIDE DEF reports
    <2>3. role \in {"Writable", "Readonly"}
      OBVIOUS
    <2>4. w \in [from_step : Steps, to_step : Steps, account : Account, role : {"Writable", "Readonly"}]
      BY <1>1, <1>3, <2>3
    <2>5. w.from_step = i /\ w.to_step = j /\ w.account = a /\ w.role = role
      OBVIOUS
    <2>6. w.role = IF w.account \in bundle.steps[w.to_step].tx.writable THEN "Writable" ELSE "Readonly"
      BY <2>5
    <2> HIDE DEF w, role
    <2>7. w \in Edges(reports)
      BY <1>3, <2>1, <2>2, <2>4, <2>5, <2>6 DEF Edges
    <2>8. QED
      BY <2>5, <2>7 DEF reports
  <1>6. Ran(i, FromScratch(e, i), e).pre[a] # 0 => Ran(i, FromScratch(e, i), e).out.post[a] # 0
    BY <1>1 DEF Closed
  <1>7. QED
    BY <1>4, <1>5, <1>6 DEF Spares

\* A step that reports something else than in the unedited run, of the accounts
\* it names, names one that is edited before it, that an edge leads to, that no
\* world held, or that a step before it closes (bundle.rs, drive and edges_of).
THEOREM CascadesHaveWires == Spec => []CascadeHasWire
  <1>1. ASSUME ResumeInv PROVE CascadeHasWire
    <2>1. SUFFICES ASSUME NEW t \in Thread, NEW r, r = thread[t], r.pc = "done", r.kind = "run",
                          baseline # Unbuilt, NEW j \in Steps \ DOMAIN r.edits,
                          ~ \E a \in Names(j) :
                              \/ \E i \in DOMAIN r.edits : i < j /\ a \in DOMAIN r.edits[i]
                              \/ \E w \in Edges(r.reports) \cup Edges(baseline.reports) :
                                    w.to_step = j /\ w.account = a
                              \/ a \notin DOMAIN bundle.world
                              \/ \E i \in 1..j - 1 : a \in Closed(i, r.edits) \cup Closed(i, NoEdits)
                   PROVE  OfNamed(j, r.reports[j]) = OfNamed(j, baseline.reports[j])
      BY DEF CascadeHasWire
    <2> DEFINE n == Len(bundle.steps)
               e == r.edits
               st == FromScratch(e, j)
               other == FromScratch(NoEdits, j)
    <2>2. RequestTrue(r) /\ bundle # Unbuilt
      BY <1>1, <2>1 DEF ResumeInv, RequestsTrue, SetupTrue
    <2>3. e \in Edits /\ r.upto = n + 1 /\ r.k = n + 1 /\ r.reports = ReportsTo(e, n + 1)
      BY <2>1, <2>2, RequestParts
    <2>4. baseline.reports = ReportsTo(NoEdits, n + 1)
      BY <1>1, <2>1 DEF ResumeInv, BaselineTrue
    <2>5. BuiltWell
      BY <1>1, <2>2, IsBuiltWell DEF ResumeInv
    <2>6. GoodEdits(e) /\ GoodEdits(NoEdits)
      BY <2>3, EditsAreGood
    <2>7. n \in Nat /\ Steps = 1..n /\ j \in 1..n + 1 /\ j \in 1..(n + 1) - 1 /\ j \in Steps
      BY <2>5 DEF BuiltWell, Steps
    <2>8. r.reports[j] = Report(j, st, e) /\ baseline.reports[j] = Report(j, other, NoEdits)
      BY <2>3, <2>4, <2>7, OnLists DEF Reported
    <2>9. st \in Snapshots /\ other \in Snapshots
      BY <2>5, <2>6, <2>7, ScratchIsTyped
    <2>10. ASSUME NEW a \in Names(j) PROVE AsBuilt(st, a, j) /\ AsBuilt(other, a, j)
      <3>1. /\ \A i \in DOMAIN e : i < j => a \notin DOMAIN e[i]
            /\ \A w \in Edges(ReportsTo(e, n + 1)) : ~(w.to_step = j /\ w.account = a)
            /\ \A w \in Edges(ReportsTo(NoEdits, n + 1)) : ~(w.to_step = j /\ w.account = a)
            /\ a \in DOMAIN bundle.world
            /\ \A i \in 1..j - 1 : a \notin Closed(i, e) /\ a \notin Closed(i, NoEdits)
        BY <2>1, <2>3, <2>4
      <3>2. \A i \in DOMAIN NoEdits : i < j => a \notin DOMAIN NoEdits[i]
        BY DEF NoEdits
      <3> HIDE DEF e
      <3>3. \A i \in 1..j - 1 : Spares(i, FromScratch(e, i), e, a)
        BY <2>5, <2>6, <2>7, <3>1, NoWire
      <3>4. \A i \in 1..j - 1 : Spares(i, FromScratch(NoEdits, i), NoEdits, a)
        BY <2>5, <2>6, <2>7, <3>1, <3>2, NoWire
      <3>5. QED
        BY <2>5, <2>6, <2>7, <3>1, <3>3, <3>4, SparedSoFar
    <2> HIDE DEF st, other
    <2>11. SameFor(j, st, other)
      <3>1. ASSUME NEW a \in Names(j)
            PROVE  /\ a \in DOMAIN st.ctx /\ a \in DOMAIN other.ctx /\ st.ctx[a] = other.ctx[a]
                   /\ a \in DOMAIN st.carried <=> a \in DOMAIN other.carried
                   /\ a \in st.pending <=> a \in other.pending
        <4>1. AsBuilt(st, a, j) /\ AsBuilt(other, a, j)
          BY <2>10
        <4>2. CASE j = 1
          <5>1. st = Entry /\ other = Entry
            <6>1. ScratchIs(e) /\ ScratchIs(NoEdits)
              BY <2>7, ScratchExists
            <6>2. QED
              BY <4>2, <6>1 DEF ScratchIs, st, other
          <5>2. QED
            BY <4>1, <5>1 DEF AsBuilt
        <4>3. CASE j # 1
          BY <4>1, <4>3 DEF AsBuilt
        <4>4. QED
          BY <4>2, <4>3
      <3>2. QED
        BY <3>1 DEF SameFor
    <2>12. OfNamed(j, Report(j, st, e)) = OfNamed(j, Report(j, other, NoEdits))
      BY <2>1, <2>5, <2>6, <2>7, <2>9, <2>11, SameReport
    <2>13. QED
      BY <2>8, <2>12
  <1>2. QED
    BY <1>1, AlwaysTrue, PTL

-----------------------------------------------------------------------------
(* What a step is entered with.                                            *)

LEMMA Typed ==
    ASSUME ResumeInv
    PROVE  TypeOK
  <1> DEFINE n == Len(bundle.steps)
  <1>1. ASSUME bundle # Unbuilt PROVE BuiltWell /\ n \in Nat
    <2>1. BuiltWell
      BY <1>1, IsBuiltWell DEF ResumeInv
    <2>2. n \in Nat
      BY <2>1 DEF BuiltWell
    <2>3. QED
      BY <2>1, <2>2
  <1>2. ASSUME bundle # Unbuilt
        PROVE  /\ bundle.mode \in {"Consecutive", "CrossSlot"}
               /\ bundle.world \in Worlds
               /\ \A k \in Steps : bundle.replays[k].ctx \in Worlds
    BY <1>1, <1>2 DEF BuiltWell
  <1>3. ASSUME baseline # Unbuilt
        PROVE  /\ baseline.states \in Seq(Snapshots)
               /\ Len(baseline.states) = n + 1 /\ Len(baseline.reports) = n
    <2>1. bundle # Unbuilt
      BY <1>3 DEF ResumeInv, SetupTrue
    <2>2. BuiltWell /\ n \in Nat
      BY <1>1, <2>1
    <2>3. baseline.states = StatesTo(NoEdits, n + 2) /\ baseline.reports = ReportsTo(NoEdits, n + 1)
      BY <1>3 DEF ResumeInv, BaselineTrue
    <2>4. \A i \in 1..n + 1 : FromScratch(NoEdits, i) \in Snapshots
      BY <2>2, ScratchIsTyped, EditsAreGood
    <2> HIDE DEF n
    <2>5. n + 1 \in Nat \ {0} /\ n + 2 \in Nat \ {0} /\ (n + 2) - 1 = n + 1 /\ (n + 1) - 1 = n
      BY <2>2
    <2>6. Len(StatesTo(NoEdits, n + 2)) = n + 1 /\ Len(ReportsTo(NoEdits, n + 1)) = n
      <3>1. Len(StatesTo(NoEdits, n + 2)) = (n + 2) - 1 /\ Len(ReportsTo(NoEdits, n + 1)) = (n + 1) - 1
        BY <2>5, ListsOfRuns
      <3>2. QED
        BY <2>5, <3>1
    <2>7. StatesTo(NoEdits, n + 2) \in Seq(Snapshots)
      <3>1. StatesTo(NoEdits, n + 2) = [i \in 1..n + 1 |-> FromScratch(NoEdits, i)]
        BY <2>5 DEF StatesTo
      <3>2. StatesTo(NoEdits, n + 2) \in [1..n + 1 -> Snapshots]
        BY <2>4, <3>1 DEF n
      <3>3. QED
        BY <2>5, <3>2, SeqDef
    <2>8. QED
      BY <2>3, <2>6, <2>7
  <1>4. ASSUME NEW t \in Thread, thread[t].pc = "driving"
        PROVE  /\ thread[t].state \in Snapshots
               /\ Len(thread[t].reports) = thread[t].k - 1
               /\ thread[t].k <= thread[t].upto
    <2>1. PICK r : r = thread[t]
      OBVIOUS
    <2>2. RequestTrue(r) /\ r.pc = "driving" /\ bundle # Unbuilt
      BY <1>4, <2>1 DEF ResumeInv, RequestsTrue, SetupTrue
    <2>3. BuiltWell /\ n \in Nat
      BY <1>1, <2>2
    <2>4. /\ r.edits \in Edits /\ r.upto \in 1..n + 1 /\ r.k \in 1..r.upto
          /\ r.state = FromScratch(r.edits, r.k) /\ r.reports = ReportsTo(r.edits, r.k)
      BY <2>2, RequestParts
    <2>5. GoodEdits(r.edits) /\ r.k \in 1..n + 1 /\ r.k \in Nat \ {0} /\ r.k <= r.upto
      BY <2>3, <2>4, EditsAreGood
    <2>6. r.state \in Snapshots
      BY <2>3, <2>4, <2>5, ScratchIsTyped
    <2>7. Len(r.reports) = r.k - 1
      BY <2>4, <2>5, ListsOfRuns
    <2>8. QED
      BY <2>1, <2>5, <2>6, <2>7
  <1>5. QED
    BY <1>2, <1>3, <1>4 DEF TypeOK

\* The world of a step by itself holds what its place in history held.
LEMMA RebuiltIs ==
    ASSUME BuiltWell, NEW k \in Steps, HasBase(plan[k]), drifted[k] = {},
           NEW a \in Named(chain, plan[k])
    PROVE  /\ a \in Account
           /\ StateAt(chain, plan[k].pos)[a] # 0 =>
                /\ a \in DOMAIN bundle.replays[k].ctx
                /\ bundle.replays[k].ctx[a] = StateAt(chain, plan[k].pos)[a]
  <1> DEFINE base == ReplayAt(chain, plan[k].pos, drifted[k]).ctx
             rebuilt == StepReplay(chain, plan[k], drifted[k]).ctx
  <1>1. GoodPlan(chain, plan, drifted) /\ k \in 1..Len(plan) /\ bundle.replays[k].ctx = rebuilt
    BY DEF BuiltWell
  <1>2. \A b \in DOMAIN base : b \in DOMAIN rebuilt /\ rebuilt[b] = base[b]
    <2>1. StepReplayHolds(chain, plan[k], drifted[k])
      BY <1>1, StepReplayIs
    <2>2. QED
      BY <2>1 DEF StepReplayHolds
  <1>3. PICK p, L : p = plan[k].pos /\ L = drifted[k]
    OBVIOUS
  <1>4. ChainIs(chain) /\ p \in 1..Len(chain.txs) /\ L \in SUBSET Account
    BY <1>1, <1>3, PlanIs
  <1>5. ReplayHolds(chain, p, L)
    BY <1>4, ReplayIs
  <1>6. a \in chain.txs[p].names /\ L = {}
    BY <1>3 DEF Named
  <1>7. a \in Account /\ (StateAt(chain, p)[a] # 0 =>
                            /\ a \in DOMAIN ReplayAt(chain, p, L).ctx
                            /\ ReplayAt(chain, p, L).ctx[a] = StateAt(chain, p)[a])
    BY <1>5, <1>6 DEF ReplayHolds
  <1>8. base = ReplayAt(chain, p, L).ctx
    BY <1>3
  <1> HIDE DEF base, rebuilt
  <1>9. QED
    BY <1>1, <1>2, <1>3, <1>7, <1>8

LEMMA Flagged ==
    ASSUME ResumeInv
    PROVE  DisagreementFlagged
  <1>1. SUFFICES ASSUME NEW t \in Thread, NEW r, r = thread[t], r.pc = "driving", NEW k, k = r.k,
                        k \in Steps, bundle.mode = "CrossSlot", HasBase(plan[k]),
                        \A i \in Steps : drifted[i] = {},
                        NEW a \in chain.txs[Base(k)].names,
                        SvmOf(r.state.ctx)[a] # 0, StateAt(chain, Base(k))[a] # 0,
                        SvmOf(r.state.ctx)[a] # StateAt(chain, Base(k))[a]
                 PROVE  a \in r.state.pending
    BY DEF DisagreementFlagged
  <1> DEFINE n == Len(bundle.steps)
             e == r.edits
             st == FromScratch(e, k)
             then == StateAt(chain, Base(k))[a]
             rebuilt == bundle.replays[k].ctx
  <1>2. RequestTrue(r) /\ bundle # Unbuilt
    BY <1>1 DEF ResumeInv, RequestsTrue, SetupTrue
  <1>3. e \in Edits /\ r.state = st
    BY <1>1, <1>2, RequestParts
  <1>4. BuiltWell /\ GoodEdits(e)
    BY <1>2, <1>3, IsBuiltWell, EditsAreGood DEF ResumeInv
  <1>5. n \in Nat /\ Steps = 1..n /\ k \in 1..n + 1 /\ k \in Nat \ {0}
    <2>1. n \in Nat /\ Steps = 1..n
      BY <1>4 DEF BuiltWell, Steps
    <2>2. QED
      BY <1>1, <2>1
  <1>6. a \in Account /\ a \in DOMAIN rebuilt /\ rebuilt[a] = then
    <2>1. a \in Named(chain, plan[k]) /\ drifted[k] = {} /\ StateAt(chain, plan[k].pos)[a] # 0
      BY <1>1 DEF Named, Base
    <2>2. QED
      BY <1>1, <1>4, <2>1, RebuiltIs DEF Base
  <1>7. ScratchIs(e)
    BY <1>5, ScratchExists
  <1>8. CASE k = 1
    <2>1. st.ctx = bundle.world
      BY <1>7, <1>8 DEF ScratchIs, Entry
    <2>2. FirstNames(chain, plan, drifted, k, a)
      BY <1>1, <1>8 DEF FirstNames, Named, Base
    <2>3. SvmOf(bundle.world)[a] = then
      BY <1>1, <1>4, <1>6, <2>2 DEF BuiltWell, Base
    <2>4. QED
      BY <1>1, <1>3, <2>1, <2>3
  <1>9. CASE k # 1
    <2> DEFINE before == FromScratch(e, k - 1)
    <2>1. k - 1 \in Steps /\ k - 1 \in 1..n + 1 /\ k - 1 + 1 = k
      BY <1>1, <1>5, <1>9
    <2>2. st = NextState(k - 1, before, e)
      BY <1>7, <2>1 DEF ScratchIs
    <2>3. NextHolds(k - 1, before, e)
      <3>1. before \in Snapshots
        BY <1>4, <2>1, ScratchIsTyped
      <3> HIDE DEF before
      <3>2. QED
        BY <1>4, <2>1, <3>1, NextIs
    <2> HIDE DEF before, st
    <2>4. /\ st.ctx \in Worlds
          /\ st.pending = Diverged(st.carried, rebuilt)
          /\ \A b \in DOMAIN st.carried : b \in DOMAIN st.ctx /\ st.ctx[b] = st.carried[b]
          /\ \A b \in DOMAIN rebuilt \ DOMAIN st.carried : b \in DOMAIN st.ctx /\ st.ctx[b] = rebuilt[b]
      BY <1>1, <2>1, <2>2, <2>3 DEF NextHolds, Snapshots
    <2> HIDE DEF rebuilt, then
    <2>5. CASE a \in DOMAIN st.carried
      <3>1. SvmOf(st.ctx)[a] = st.carried[a]
        BY <2>4, <2>5, SvmIs
      <3>2. st.carried[a] # rebuilt[a]
        BY <1>1, <1>3, <1>6, <3>1 DEF then
      <3>3. QED
        BY <1>3, <1>6, <2>4, <2>5, <3>2 DEF Diverged
    <2>6. CASE a \notin DOMAIN st.carried
      <3>1. SvmOf(st.ctx)[a] = rebuilt[a]
        BY <1>6, <2>4, <2>6, SvmIs
      <3>2. QED
        BY <1>1, <1>3, <1>6, <3>1 DEF then
    <2>7. QED
      BY <2>5, <2>6
  <1>10. QED
    BY <1>8, <1>9

\* A run has come to step k in one slot, unedited, through landed steps that
\* follow each other in history and close nothing.
OneSlotRun(e, k) ==
    /\ bundle.mode = "Consecutive" /\ GoodEdits(e)
    /\ \A i \in 1..k - 1 : i \notin DOMAIN e
    /\ Unbroken(k) /\ ClosesNothing(k - 1)

\* Step i is entered with history's state of what steps i to k need.
EnteredExact(e, i, k) ==
    \A l \in i..k : \A a \in Named(chain, plan[l]) \cap Names(l) :
        SvmOf(FromScratch(e, i).ctx)[a] = StateAt(chain, Base(i))[a]

LEMMA PlaceIs ==
    ASSUME BuiltWell, NEW i \in Steps, HasBase(plan[i])
    PROVE  /\ Base(i) \in 1..Len(chain.txs) /\ Len(chain.txs) \in Nat
           /\ chain.txs[Base(i)] \in Tx /\ Named(chain, plan[i]) = chain.txs[Base(i)].names
           /\ Named(chain, plan[i]) \subseteq Account
           /\ StateAt(chain, Base(i)) \in AccountsDB
           /\ StateAt(chain, Base(i) + 1) = Exec(chain.txs[Base(i)], StateAt(chain, Base(i))).post
           /\ \A a \in Account \ Named(chain, plan[i]) :
                StateAt(chain, Base(i) + 1)[a] = StateAt(chain, Base(i))[a]
  <1>1. GoodPlan(chain, plan, drifted) /\ i \in 1..Len(plan)
    BY DEF BuiltWell
  <1>2. PICK p : p = Base(i)
    OBVIOUS
  <1>3. ChainIs(chain) /\ p \in 1..Len(chain.txs)
    BY <1>1, <1>2, PlanIs DEF Base
  <1>4. /\ Len(chain.txs) \in Nat /\ chain.txs[p] \in Tx
        /\ StateAt(chain, p + 1) = Exec(chain.txs[p], StateAt(chain, p)).post
    BY <1>3 DEF ChainIs
  <1>5. StateAt(chain, p) \in AccountsDB
    BY <1>3, <1>4 DEF ChainIs
  <1>6. Named(chain, plan[i]) = chain.txs[p].names
    BY <1>2 DEF Named, Base
  <1>7. /\ chain.txs[p].names \subseteq Account
        /\ \A a \in Account \ chain.txs[p].names : StateAt(chain, p + 1)[a] = StateAt(chain, p)[a]
    BY <1>4, <1>5, SvmAssumption
  <1>8. QED
    BY <1>2, <1>3, <1>4, <1>5, <1>6, <1>7

\* What no step before m names is at m's place what it was at the first's.
LEMMA StillThere ==
    ASSUME BuiltWell, NEW k \in Steps, Unbroken(k), NEW m \in 1..k, NEW a \in Account,
           \A i \in 1..m - 1 : a \notin Named(chain, plan[i])
    PROVE  StateAt(chain, Base(m))[a] = StateAt(chain, Base(1))[a]
  <1> DEFINE T == {i \in Nat : StateAt(chain, Base(i))[a] = StateAt(chain, Base(1))[a]}
  <1>1. k \in Nat /\ m - 1 \in Nat /\ m \in 1..m - 1 + 1 /\ \A i \in 1..k : i \in Steps
    <2>1. Steps = 1..Len(plan) /\ Len(plan) \in Nat
      BY DEF BuiltWell
    <2>2. QED
      BY <2>1
  <1>2. 1 \in T
    OBVIOUS
  <1>3. ASSUME NEW i \in 1..m - 1, i \in T PROVE i + 1 \in T
    <2>1. i \in 1..k /\ i < k /\ i \in Steps /\ i + 1 \in Nat
      BY <1>1
    <2>2. HasBase(plan[i]) /\ Base(i + 1) = Base(i) + 1
      BY <2>1 DEF Unbroken
    <2>3. \A b \in Account \ Named(chain, plan[i]) :
            StateAt(chain, Base(i) + 1)[b] = StateAt(chain, Base(i))[b]
      BY <2>1, <2>2, PlaceIs
    <2>4. StateAt(chain, Base(i + 1))[a] = StateAt(chain, Base(i))[a]
      BY <2>2, <2>3
    <2>5. QED
      BY <1>3, <2>1, <2>4
  <1>4. 1..m - 1 + 1 \subseteq T
    <2> HIDE DEF T
    <2>1. QED
      BY <1>1, <1>2, <1>3, EveryStep
  <1>5. QED
    BY <1>1, <1>4

LEMMA FirstEnteredExact ==
    ASSUME BuiltWell, NEW k \in Steps, NEW e, OneSlotRun(e, k)
    PROVE  EnteredExact(e, 1, k)
  <1>1. Steps = 1..Len(plan) /\ Len(plan) \in Nat /\ Len(bundle.steps) \in Nat
    BY DEF BuiltWell
  <1>2. SUFFICES ASSUME NEW l \in 1..k, NEW a \in Named(chain, plan[l])
                 PROVE  SvmOf(FromScratch(e, 1).ctx)[a] = StateAt(chain, Base(1))[a]
    BY DEF EnteredExact
  <1>3. FromScratch(e, 1).ctx = bundle.world
    <2>1. ScratchIs(e)
      BY <1>1, ScratchExists
    <2>2. QED
      BY <2>1 DEF ScratchIs, Entry
  <1>4. \A i \in 1..k : HasBase(plan[i]) /\ drifted[i] = {} /\ i \in Steps
    BY <1>1 DEF OneSlotRun, Unbroken
  <1>5. a \in Account
    BY <1>2, <1>4, PlaceIs
  <1> DEFINE T == {i \in 1..k : a \in Named(chain, plan[i])}
  <1>6. PICK m \in T : \A i \in T : m <= i
    <2>1. T \in SUBSET Nat /\ T # {}
      OBVIOUS
    <2> HIDE DEF T
    <2>2. QED
      BY <2>1, Smallest
  <1>7. m \in 1..k /\ m \in Steps /\ a \in Named(chain, plan[m])
    BY <1>4, <1>6
  <1>8. \A i \in 1..m - 1 : a \notin Named(chain, plan[i])
    <2>1. ASSUME NEW i \in 1..m - 1 PROVE a \notin Named(chain, plan[i])
      <3>1. i \in 1..k /\ ~(m <= i)
        BY <1>1, <1>7
      <3>2. QED
        BY <1>6, <3>1
    <2>2. QED
      BY <2>1
  <1>9. FirstNames(chain, plan, drifted, m, a)
    BY <1>4, <1>7, <1>8 DEF FirstNames
  <1> HIDE DEF T
  <1>10. SvmOf(bundle.world)[a] = StateAt(chain, Base(m))[a]
    BY <1>5, <1>7, <1>9 DEF BuiltWell, Base
  <1>11. StateAt(chain, Base(m))[a] = StateAt(chain, Base(1))[a]
    BY <1>5, <1>7, <1>8, StillThere DEF OneSlotRun
  <1>12. QED
    BY <1>3, <1>10, <1>11

\* A landed step entered so runs as it ran.
LEMMA RunsExact ==
    ASSUME BuiltWell, NEW k \in Steps, NEW e, OneSlotRun(e, k), NEW i \in 1..k - 1,
           EnteredExact(e, i, k)
    PROVE  LET ran == Ran(i, FromScratch(e, i), e)
           IN  /\ ran.out.ok = Recorded(chain, Base(i))
               /\ \A a \in Account :
                    SvmOf(FromScratch(e, i).ctx)[a] = StateAt(chain, Base(i))[a]
                      => ran.out.post[a] = StateAt(chain, Base(i) + 1)[a]
               /\ \A a \in Account : ran.pre[a] = SvmOf(FromScratch(e, i).ctx)[a]
  <1> DEFINE st == FromScratch(e, i)
             pre == Ran(i, st, e).pre
             out == Ran(i, st, e).out
             s == StateAt(chain, Base(i))
             tx == chain.txs[Base(i)]
  <1>1. Steps = 1..Len(plan) /\ Len(plan) \in Nat /\ Len(bundle.steps) = Len(plan)
    BY DEF BuiltWell
  <1>2. i \in Steps /\ i \in 1..k /\ i < k /\ i \in i..k /\ i \in 1..Len(bundle.steps) + 1
    BY <1>1
  <1>3. HasBase(plan[i]) /\ bundle.steps[i].tx = tx /\ i \notin DOMAIN e /\ GoodEdits(e)
    BY <1>2 DEF OneSlotRun, Unbroken
  <1>4. /\ tx \in Tx /\ Named(chain, plan[i]) = tx.names /\ s \in AccountsDB
        /\ StateAt(chain, Base(i) + 1) = Exec(tx, s).post
        /\ \A a \in Account \ tx.names : Exec(tx, s).post[a] = s[a]
    BY <1>2, <1>3, PlaceIs
  <1>5. Names(i) = tx.names
    BY <1>3 DEF Names
  <1>6. st \in Snapshots
    BY <1>2, <1>3, ScratchIsTyped
  <1> HIDE DEF st
  <1>7. /\ pre \in AccountsDB /\ \A a \in Account : pre[a] = SvmOf(st.ctx)[a]
        /\ \A a \in Account \ Names(i) : out.post[a] = pre[a]
    BY <1>2, <1>3, <1>6, RanIs DEF RanHolds
  <1>8. out = Exec(tx, pre)
    BY <1>3 DEF Ran
  <1> HIDE DEF pre, out, s, tx
  <1>9. tx.names \subseteq Account
    BY <1>4, SvmAssumption
  <1>10. ASSUME NEW a \in tx.names PROVE pre[a] = s[a]
    <2>1. a \in Named(chain, plan[i]) \cap Names(i)
      BY <1>4, <1>5
    <2>2. SvmOf(st.ctx)[a] = s[a]
      BY <1>2, <2>1 DEF EnteredExact, st, s
    <2>3. QED
      BY <1>7, <1>9, <2>2
  <1>11. /\ Exec(tx, pre).ok = Exec(tx, s).ok
         /\ \A a \in tx.names : Exec(tx, pre).post[a] = Exec(tx, s).post[a]
    BY <1>4, <1>7, <1>10, SvmAssumption
  <1>12. out.ok = Recorded(chain, Base(i))
    BY <1>8, <1>11 DEF Recorded, tx, s
  <1>13. ASSUME NEW a \in Account, SvmOf(st.ctx)[a] = s[a]
         PROVE  out.post[a] = StateAt(chain, Base(i) + 1)[a]
    <2>1. CASE a \in tx.names
      BY <1>4, <1>8, <1>11, <2>1
    <2>2. CASE a \notin tx.names
      BY <1>4, <1>5, <1>7, <1>13, <2>2
    <2>3. QED
      BY <2>1, <2>2
  <1>14. QED
    BY <1>7, <1>12, <1>13 DEF pre, out, st, s

LEMMA NextEnteredExact ==
    ASSUME BuiltWell, NEW k \in Steps, NEW e, OneSlotRun(e, k), NEW i \in 1..k - 1,
           EnteredExact(e, i, k)
    PROVE  EnteredExact(e, i + 1, k)
  <1> DEFINE st == FromScratch(e, i)
             next == FromScratch(e, i + 1)
             post == Ran(i, st, e).out.post
  <1>1. Steps = 1..Len(plan) /\ Len(plan) \in Nat /\ Len(bundle.steps) = Len(plan)
    BY DEF BuiltWell
  <1>2. i \in Steps /\ i + 1 \in Steps /\ i \in 1..k /\ i < k /\ i \in 1..Len(bundle.steps) + 1
    BY <1>1
  <1>3. HasBase(plan[i]) /\ Base(i + 1) = Base(i) + 1 /\ GoodEdits(e) /\ bundle.mode = "Consecutive"
    BY <1>2 DEF OneSlotRun, Unbroken
  <1>4. st \in Snapshots
    BY <1>2, <1>3, ScratchIsTyped
  <1>5. next = NextState(i, st, e)
    <2>1. ScratchIs(e)
      BY <1>1, ScratchExists
    <2>2. QED
      BY <1>2, <2>1 DEF ScratchIs
  <1>6. NextHolds(i, st, e)
    <2> HIDE DEF st
    <2>1. QED
      BY <1>2, <1>3, <1>4, NextIs
  <1>7. \A a \in Account : SvmOf(st.ctx)[a] = StateAt(chain, Base(i))[a]
                             => post[a] = StateAt(chain, Base(i) + 1)[a]
    BY RunsExact
  <1> HIDE DEF st, next, post
  <1>8. /\ next \in Snapshots
        /\ \A a \in DOMAIN st.ctx : post[a] # 0 => a \in DOMAIN next.ctx /\ next.ctx[a] = post[a]
        /\ \A a \in LaterNames(i) \ DOMAIN st.ctx : SvmOf(next.ctx)[a] = post[a]
    BY <1>2, <1>3, <1>5, <1>6 DEF NextHolds, post
  <1>9. SUFFICES ASSUME NEW l \in i + 1..k, NEW a \in Named(chain, plan[l]) \cap Names(l)
                 PROVE  SvmOf(next.ctx)[a] = StateAt(chain, Base(i) + 1)[a]
    BY <1>3 DEF EnteredExact, next
  <1>10. l \in i..k /\ l \in Steps /\ l > i
    BY <1>1, <1>2
  <1>11. a \in LaterNames(i) /\ a \in Account
    <2>1. Names(l) \subseteq Account
      BY <1>10 DEF BuiltWell
    <2>2. QED
      BY <1>10, <2>1 DEF LaterNames
  <1>12. SvmOf(st.ctx)[a] = StateAt(chain, Base(i))[a]
    BY <1>10 DEF EnteredExact, st
  <1>13. post[a] = StateAt(chain, Base(i) + 1)[a]
    BY <1>7, <1>11, <1>12
  <1>14. CASE a \in DOMAIN st.ctx
    <2>1. SvmOf(st.ctx)[a] # 0
      <3>1. st.ctx \in Worlds
        BY <1>4 DEF Snapshots, st
      <3>2. QED
        BY <1>14, <3>1, SvmIs
    <2>2. StateAt(chain, Base(i) + 1)[a] # 0
      BY <1>11, <1>12, <2>1 DEF OneSlotRun, ClosesNothing
    <2>3. a \in DOMAIN next.ctx /\ next.ctx[a] = post[a]
      BY <1>8, <1>13, <1>14, <2>2
    <2>4. next.ctx \in Worlds
      BY <1>8 DEF Snapshots
    <2>5. QED
      BY <1>13, <2>3, <2>4, SvmIs
  <1>15. CASE a \notin DOMAIN st.ctx
    BY <1>8, <1>11, <1>13, <1>15
  <1>16. QED
    BY <1>14, <1>15

LEMMA AllEnteredExact ==
    ASSUME BuiltWell, NEW k \in Steps, NEW e, OneSlotRun(e, k)
    PROVE  \A i \in 1..k : EnteredExact(e, i, k)
  <1> DEFINE T == {i \in Nat : EnteredExact(e, i, k)}
  <1>1. k \in Nat /\ k - 1 \in Nat /\ \A i \in 1..k : i \in 1..k - 1 + 1
    <2>1. Steps = 1..Len(plan) /\ Len(plan) \in Nat
      BY DEF BuiltWell
    <2>2. QED
      BY <2>1
  <1>2. 1 \in T
    BY FirstEnteredExact
  <1>3. ASSUME NEW i \in 1..k - 1, i \in T PROVE i + 1 \in T
    <2>1. EnteredExact(e, i, k)
      BY <1>3
    <2>2. EnteredExact(e, i + 1, k) /\ i + 1 \in Nat
      BY <2>1, NextEnteredExact
    <2>3. QED
      BY <2>2
  <1>4. 1..k - 1 + 1 \subseteq T
    <2> HIDE DEF T
    <2>1. QED
      BY <1>1, <1>2, <1>3, EveryStep
  <1>5. QED
    BY <1>1, <1>4

LEMMA ExactlyEntered ==
    ASSUME ResumeInv
    PROVE  ConsecutiveExact
  <1>1. SUFFICES ASSUME NEW t \in Thread, NEW r, r = thread[t], NEW k, k = r.k, r.pc = "driving",
                        k \in Steps, bundle.mode = "Consecutive", FirstEdited(r.edits) >= k,
                        Unbroken(k), ClosesNothing(k - 1)
                 PROVE  /\ \A a \in chain.txs[Base(k)].names \cap Names(k) :
                             SvmOf(r.state.ctx)[a] = StateAt(chain, Base(k))[a]
                        /\ \A i \in 1..k - 1 : r.reports[i].matches
    BY DEF ConsecutiveExact, Exact
  <1> DEFINE e == r.edits
  <1>2. RequestTrue(r) /\ bundle # Unbuilt
    BY <1>1 DEF ResumeInv, RequestsTrue, SetupTrue
  <1>3. e \in Edits /\ r.state = FromScratch(e, k) /\ r.reports = ReportsTo(e, k)
    BY <1>1, <1>2, RequestParts
  <1>4. BuiltWell
    BY <1>2, IsBuiltWell DEF ResumeInv
  <1>5. Steps = 1..Len(plan) /\ Len(plan) \in Nat /\ Len(bundle.steps) = Len(plan) /\ k \in Nat
    <2>1. Steps = 1..Len(plan) /\ Len(plan) \in Nat /\ Len(bundle.steps) = Len(plan)
      BY <1>4 DEF BuiltWell
    <2>2. QED
      BY <1>1, <2>1
  <1>6. OneSlotRun(e, k)
    <2>1. \A i \in DOMAIN e : i \in 1..MaxSteps /\ FirstEdited(e) <= i
      BY <1>3, FirstIs
    <2>2. FirstEdited(e) \in Nat
      BY <1>3, FirstIs, BundleAssumption
    <2>3. \A i \in 1..k - 1 : i \notin DOMAIN e
      BY <1>1, <1>5, <2>1, <2>2
    <2>4. QED
      BY <1>1, <1>3, <2>3, EditsAreGood DEF OneSlotRun
  <1>7. \A i \in 1..k : EnteredExact(e, i, k)
    BY <1>1, <1>4, <1>6, AllEnteredExact
  <1>8. ASSUME NEW a \in chain.txs[Base(k)].names \cap Names(k)
        PROVE  SvmOf(r.state.ctx)[a] = StateAt(chain, Base(k))[a]
    <2>1. EnteredExact(e, k, k) /\ k \in k..k
      BY <1>1, <1>5, <1>7
    <2>2. a \in Named(chain, plan[k]) \cap Names(k)
      BY DEF Named, Base
    <2>3. QED
      BY <1>3, <2>1, <2>2 DEF EnteredExact
  <1>9. ASSUME NEW i \in 1..k - 1 PROVE r.reports[i].matches
    <2> DEFINE st == FromScratch(e, i)
               ok == Ran(i, st, e).out.ok
    <2>1. i \in 1..k /\ i \in Steps
      BY <1>1, <1>5
    <2>2. r.reports[i] = Report(i, st, e)
      BY <1>3, OnLists DEF Reported
    <2>3. ok = Recorded(chain, Base(i))
      BY <1>1, <1>4, <1>6, <1>7, <2>1, RunsExact
    <2>4. HasBase(plan[i])
      BY <1>1, <2>1 DEF Unbroken
    <2>5. Recorded(chain, Base(i)) \in BOOLEAN
      <3>1. chain.txs[Base(i)] \in Tx /\ StateAt(chain, Base(i)) \in AccountsDB
        BY <1>4, <2>1, <2>4, PlaceIs
      <3>2. QED
        BY <3>1, SvmAssumption DEF Recorded
    <2>6. bundle.steps[i] = [tx |-> TxOf(chain, plan[i]), custom |-> ~IsLanded(plan[i]),
                             compared |-> HasBase(plan[i]),
                             chain_ok |-> HasBase(plan[i]) => Recorded(chain, plan[i].pos)]
      BY <1>4, <2>1 DEF BuiltWell
    <2>7. bundle.steps[i].chain_ok = Recorded(chain, Base(i))
      BY <2>4, <2>5, <2>6 DEF Base
    <2>8. ok = bundle.steps[i].chain_ok
      BY <2>3, <2>7
    <2>9. Report(i, st, e).matches = ((~bundle.steps[i].custom \/ bundle.steps[i].compared)
                                        => ok = bundle.steps[i].chain_ok)
      BY DEF Report
    <2> HIDE DEF ok, st
    <2>10. QED
      BY <2>2, <2>8, <2>9
  <1>10. QED
    BY <1>8, <1>9

\* What a step is entered with is what its place in history held, or is named
\* in its report; every state a run goes through is one
\* (bundle.rs, the merge of the worlds, drive and diverged_of).
THEOREM StepsEnteredWell == Spec => []StepsEntered
  <1>1. ResumeInv => StepsEntered
    BY Typed, Flagged, ExactlyEntered DEF StepsEntered
  <1>2. QED
    BY <1>1, AlwaysTrue, PTL
=============================================================================
