--------------------------- MODULE RecordLogProofs ---------------------------
(*****************************************************************************)
(* One account's log, for every history, every number of diffs in a row,     *)
(* every retention and any threads: what was acknowledged reads back, the    *)
(* index and the digest tell what the file says, a lookup is exact whatever  *)
(* is appended beside it, and the log implements the version map.            *)
(*****************************************************************************)
EXTENDS RecordLog, FiniteSetTheorems, SequenceTheorems, WellFoundedInduction, TLAPS

-----------------------------------------------------------------------------
(* Numbers.                                                                  *)

\* The least of a set of numbers.
LEMMA Smallest ==
    ASSUME NEW T \in SUBSET Nat, T # {}
    PROVE  \E i \in T : \A j \in T : i <= j
  <1> DEFINE R == {ss \in Nat \X Nat : ss[1] < ss[2]}
  <1>1. R = OpToRel(<, Nat)
    BY Zenon DEF OpToRel
  <1>2. IsWellFoundedOn(R, Nat)
    BY <1>1, NatLessThanWellFounded, Zenon
  <1>3. PICK i \in T : \A j \in T : <<j, i>> \notin R
    <2> HIDE DEF R
    <2>1. T \subseteq Nat
      OBVIOUS
    <2>2. QED
      BY <1>2, <2>1, WFMin, Zenon
  <1>4. \A j \in T : i <= j
    <2>1. TAKE j \in T
    <2>2. i \in Nat /\ j \in Nat
      OBVIOUS
    <2>3. <<j, i>> \notin R
      BY <1>3
    <2>4. ~(j < i)
      BY <2>2, <2>3
    <2>5. QED
      BY <2>2, <2>4
  <1>5. QED
    BY <1>4

\* Induction, over the set of the numbers for which something holds.
LEMMA EveryNumber ==
    ASSUME NEW T \in SUBSET Nat, 0 \in T, \A n \in T : n + 1 \in T
    PROVE  T = Nat
  <1>1. SUFFICES ASSUME Nat \ T # {} PROVE FALSE
    OBVIOUS
  <1>2. PICK i \in Nat \ T : \A j \in Nat \ T : i <= j
    BY <1>1, Smallest
  <1>3. i # 0 /\ i - 1 \in Nat /\ i - 1 \in T
    BY <1>2
  <1>4. QED
    BY <1>2, <1>3

\* The greatest of a set of numbers that are bounded.
LEMMA Greatest ==
    ASSUME NEW n \in Nat, NEW T \in SUBSET (0 .. n), T # {}
    PROVE  /\ Max(T) \in T /\ \A j \in T : j <= Max(T)
           /\ \A x \in T : (\A j \in T : j <= x) => Max(T) = x
  <1> DEFINE D == {d \in Nat : n - d \in T}
  <1>1. D # {}
    <2>1. PICK x \in T : TRUE
      OBVIOUS
    <2>2. n - x \in Nat /\ n - (n - x) = x
      OBVIOUS
    <2>3. QED
      BY <2>1, <2>2
  <1>2. PICK d \in D : \A e \in D : d <= e
    <2> HIDE DEF D
    <2>1. D \in SUBSET Nat
      BY DEF D
    <2>2. QED
      BY <1>1, <2>1, Smallest
  <1>3. \A j \in T : n - d >= j
    <2>1. TAKE j \in T
    <2>2. n - j \in Nat /\ n - (n - j) = j
      OBVIOUS
    <2>3. d <= n - j
      BY <1>2, <2>2
    <2>4. QED
      BY <2>2, <2>3
  <1>4. \E x \in T : \A y \in T : x >= y
    BY <1>3
  <1>5. Max(T) \in T /\ \A y \in T : Max(T) >= y
    BY <1>4 DEF Max
  <1>6. \A x \in T : (\A j \in T : j <= x) => Max(T) = x
    <2>1. TAKE x \in T
    <2>2. HAVE \A j \in T : j <= x
    <2>3. x \in 0 .. n /\ Max(T) \in 0 .. n
      BY <1>5, Zenon
    <2>4. Max(T) <= x /\ Max(T) >= x
      BY <1>5, <2>2
    <2>5. QED
      BY <2>3, <2>4
  <1>7. \A j \in T : j <= Max(T)
    BY <1>5
  <1>8. QED
    BY <1>5, <1>6, <1>7

-----------------------------------------------------------------------------
(* Numbers in order.                                                         *)

AscendingOf(q, S) ==
    /\ q \in [1 .. Cardinality(S) -> S]
    /\ \A i, j \in 1 .. Cardinality(S) : i < j => q[i] < q[j]

\* Every set of numbers up to n can be put in order: by induction on n.
LEMMA AscendingExists ==
    ASSUME NEW n \in Nat, NEW S \in SUBSET (1 .. n)
    PROVE  IsFiniteSet(S) /\ Cardinality(S) \in Nat /\ \E q : AscendingOf(q, S)
  <1> DEFINE T == {m \in Nat : \A U \in SUBSET (1 .. m) : \E q : AscendingOf(q, U)}
  <1>1. \A m \in Nat : \A U \in SUBSET (1 .. m) : IsFiniteSet(U) /\ Cardinality(U) \in Nat
    <2>1. TAKE m \in Nat
    <2>2. TAKE U \in SUBSET (1 .. m)
    <2>3. IsFiniteSet(1 .. m)
      BY FS_Interval
    <2>4. IsFiniteSet(U)
      BY <2>3, FS_Subset
    <2>5. QED
      BY <2>4, FS_CardinalityType
  <1>2. 0 \in T
    <2>1. SUFFICES ASSUME NEW U \in SUBSET (1 .. 0) PROVE \E q : AscendingOf(q, U)
      OBVIOUS
    <2>2. U = {}
      OBVIOUS
    <2>3. Cardinality(U) = 0
      BY <2>2, FS_EmptySet
    <2>4. AscendingOf([i \in 1 .. 0 |-> 0], U)
      BY <2>3 DEF AscendingOf
    <2>5. QED
      BY <2>4
  <1>3. ASSUME NEW m \in T PROVE m + 1 \in T
    <2>1. SUFFICES ASSUME NEW U \in SUBSET (1 .. m + 1) PROVE \E q : AscendingOf(q, U)
      BY <1>3
    <2>2. CASE m + 1 \notin U
      <3>1. U \in SUBSET (1 .. m)
        BY <1>3, <2>2
      <3>2. QED
        BY <1>3, <3>1
    <2>3. CASE m + 1 \in U
      <3> DEFINE W == U \ {m + 1}
      <3>1. W \in SUBSET (1 .. m) /\ m \in Nat /\ m + 1 \in Nat
        BY <1>3
      <3>2. Cardinality(U) \in Nat /\ Cardinality(W) = Cardinality(U) - 1
            /\ Cardinality(W) \in Nat
        <4>1. IsFiniteSet(U) /\ Cardinality(U) \in Nat
          BY <1>1, <3>1
        <4>2. Cardinality(W) = Cardinality(U) - 1
          BY <2>3, <4>1, FS_RemoveElement
        <4>3. QED
          BY <1>1, <3>1, <4>1, <4>2
      <3>3. PICK q : AscendingOf(q, W)
        BY <1>3, <3>1
      <3> DEFINE r == [i \in 1 .. Cardinality(U) |-> IF i = Cardinality(U) THEN m + 1 ELSE q[i]]
      <3>4. ASSUME NEW i \in 1 .. Cardinality(U), i # Cardinality(U)
            PROVE  q[i] \in W /\ q[i] < m + 1 /\ r[i] = q[i]
        <4> HIDE DEF W
        <4>1. i \in 1 .. Cardinality(W)
          BY <3>2, <3>4
        <4>2. q[i] \in W
          BY <3>3, <4>1 DEF AscendingOf
        <4>3. q[i] \in 1 .. m /\ m \in Nat
          BY <3>1, <4>2
        <4>4. q[i] < m + 1
          BY <4>3
        <4>5. QED
          BY <3>4, <4>2, <4>4
      <3>5. \A i \in 1 .. Cardinality(U) : r[i] \in U
        <4>1. TAKE i \in 1 .. Cardinality(U)
        <4>2. CASE i = Cardinality(U)
          BY <2>3, <4>2
        <4>3. CASE i # Cardinality(U)
          BY <3>4, <4>3
        <4>4. QED
          BY <4>2, <4>3
      <3>6. ASSUME NEW i \in 1 .. Cardinality(U), NEW j \in 1 .. Cardinality(U), i < j
            PROVE  r[i] < r[j]
        <4>1. CASE j = Cardinality(U)
          <5>1. i # Cardinality(U)
            BY <3>2, <3>6, <4>1
          <5>2. r[i] < m + 1
            BY <3>4, <5>1
          <5>3. QED
            BY <4>1, <5>2
        <4>2. CASE j # Cardinality(U)
          <5> HIDE DEF W
          <5>1. i # Cardinality(U) /\ i \in 1 .. Cardinality(W) /\ j \in 1 .. Cardinality(W)
            BY <3>2, <3>6, <4>2
          <5>2. q[i] < q[j]
            BY <3>3, <3>6, <5>1 DEF AscendingOf
          <5>3. r[i] = q[i] /\ r[j] = q[j]
            BY <3>4, <4>2, <5>1
          <5>4. QED
            BY <5>2, <5>3
        <4>3. QED
          BY <4>1, <4>2
      <3>7. AscendingOf(r, U)
        <4> HIDE DEF r
        <4>1. r \in [1 .. Cardinality(U) -> U]
          BY <3>5 DEF r
        <4>2. QED
          BY <3>6, <4>1 DEF AscendingOf
      <3>8. QED
        BY <3>7, Zenon
    <2>4. QED
      BY <2>2, <2>3
  <1>4. T = Nat
    <2> HIDE DEF T
    <2>1. T \in SUBSET Nat
      BY DEF T
    <2>2. QED
      BY <1>2, <1>3, <2>1, EveryNumber
  <1>5. QED
    <2> HIDE DEF T
    <2>1. \E q : AscendingOf(q, S)
      BY <1>4 DEF T
    <2>2. QED
      BY <1>1, <2>1

\* What Ascending gives: all of S, rising.
LEMMA AscendingProperties ==
    ASSUME NEW n \in Nat, NEW S \in SUBSET (1 .. n)
    PROVE  /\ Cardinality(S) \in Nat
           /\ AscendingOf(Ascending(S), S)
           /\ DOMAIN Ascending(S) = 1 .. Cardinality(S)
           /\ \A s \in S : \E i \in 1 .. Cardinality(S) : Ascending(S)[i] = s
  <1> DEFINE q == Ascending(S)
             c == Cardinality(S)
  <1>1. IsFiniteSet(S) /\ c \in Nat /\ \E r : AscendingOf(r, S)
    BY AscendingExists
  <1>2. AscendingOf(q, S)
    BY <1>1 DEF Ascending, AscendingOf
  <1>3. q \in Injection(1 .. c, S)
    <2>1. q \in [1 .. c -> S]
      BY <1>2 DEF AscendingOf
    <2>2. \A i, j \in 1 .. c : i # j => q[i] # q[j]
      <3>1. TAKE i, j \in 1 .. c
      <3>2. i \in Int /\ j \in Int /\ q[i] \in Int /\ q[j] \in Int
        <4>1. c \in Nat /\ i \in 1 .. c /\ j \in 1 .. c
          BY <1>1
        <4>2. q[i] \in 1 .. n /\ q[j] \in 1 .. n
          BY <2>1
        <4> HIDE DEF q, c
        <4>3. QED
          BY <4>1, <4>2
      <3>3. i < j => q[i] < q[j]
        BY <1>2 DEF AscendingOf
      <3>4. j < i => q[j] < q[i]
        BY <1>2 DEF AscendingOf
      <3>5. QED
        BY <3>2, <3>3, <3>4
    <2>3. QED
      BY <2>1, <2>2 DEF Injection, IsInjective
  <1>4. Cardinality(1 .. c) = c
    <2> HIDE DEF c
    <2>1. QED
      BY <1>1, FS_Interval
  <1>5. q \in Surjection(1 .. c, S)
    <2> HIDE DEF q, c
    <2>1. QED
      BY <1>1, <1>3, <1>4, FS_Injection DEF c
  <1>6. q \in [1 .. c -> S] /\ \A s \in S : \E i \in 1 .. c : q[i] = s
    <2> HIDE DEF q, c
    <2>1. QED
      BY <1>5 DEF Surjection
  <1>7. QED
    BY <1>1, <1>2, <1>6

\* What InOrder gives: every version, by slot.
LEMMA InOrderProperties ==
    ASSUME NEW n \in Nat, NEW V, \A v \in V : v.slot \in 1 .. n,
           \A v, w \in V : v.slot = w.slot => v = w
    PROVE  /\ InOrder(V) \in Seq(V)
           /\ \A i, j \in 1 .. Len(InOrder(V)) : i < j => InOrder(V)[i].slot < InOrder(V)[j].slot
           /\ \A v \in V : \E i \in 1 .. Len(InOrder(V)) : InOrder(V)[i] = v
  <1> DEFINE S == {v.slot : v \in V}
             c == Cardinality(S)
             at == Ascending(S)
             pick(p) == CHOOSE v \in V : v.slot = at[p]
             q == [p \in 1 .. c |-> pick(p)]
  <1>1. S \in SUBSET (1 .. n)
    OBVIOUS
  <1>2. /\ c \in Nat
        /\ at \in [1 .. c -> S]
        /\ \A i, j \in 1 .. c : i < j => at[i] < at[j]
        /\ \A s \in S : \E i \in 1 .. c : at[i] = s
    <2> HIDE DEF S
    <2>1. QED
      BY <1>1, AscendingProperties DEF AscendingOf
  <1>3. InOrder(V) = q
    <2>1. DOMAIN at = 1 .. c
      BY <1>2
    <2>2. QED
      BY <2>1 DEF InOrder
  <1>4. \A p \in 1 .. c : pick(p) \in V /\ pick(p).slot = at[p]
    <2>1. TAKE p \in 1 .. c
    <2>2. at[p] \in S
      BY <1>2
    <2>3. \E v \in V : v.slot = at[p]
      BY <2>2
    <2>4. QED
      BY <2>3
  <1>5. q \in Seq(V) /\ Len(q) = c /\ \A p \in 1 .. c : q[p] = pick(p)
    <2> HIDE DEF pick, c
    <2>1. \A p \in 1 .. c : pick(p) \in V
      BY <1>4
    <2>2. QED
      BY <1>2, <2>1
  <1>6. \A i, j \in 1 .. c : i < j => q[i].slot < q[j].slot
    <2>1. TAKE i, j \in 1 .. c
    <2>2. q[i].slot = at[i] /\ q[j].slot = at[j]
      BY <1>4, <1>5
    <2>3. QED
      BY <1>2, <2>2
  <1>7. \A v \in V : \E i \in 1 .. c : q[i] = v
    <2>1. TAKE v \in V
    <2>2. PICK i \in 1 .. c : at[i] = v.slot
      BY <1>2
    <2>3. q[i] \in V /\ q[i].slot = v.slot
      BY <1>4, <1>5, <2>2
    <2>4. QED
      BY <2>3
  <1>8. QED
    BY <1>3, <1>5, <1>6, <1>7

-----------------------------------------------------------------------------
(* What a log is that was written as the code writes it, for one history h.  *)

\* Payloads: bytes by cell.
Pays == UNION {[D -> Nat] : D \in SUBSET Nat}
Recs == [slot : Slot, kind : Kinds, pay : Pays, known : BOOLEAN, torn : BOOLEAN]

\* What an account may have held, slot by slot.
IsHistory(h) ==
    /\ MaxSlot \in Nat
    /\ \A s \in Slot : h[s] # Bad /\ (h[s] = Absent \/ h[s] \in Seq(Nat))

\* Record p holds what the account held at its slot; a diff lies on the record
\* before it.
RecordTrue(h, f, p) ==
    LET s == h[f[p].slot]
        base == h[f[p - 1].slot]
    IN  /\ ~f[p].torn
        /\ f[p].kind = "absent" <=> s = Absent
        /\ f[p].kind = "full" => f[p].pay = s
        /\ f[p].kind = "diff" =>
             /\ p > 1 /\ base # Absent /\ Len(base) = Len(s)
             /\ f[p].pay = [c \in Changed(base, s) |-> s[c]]

\* No more than FullEvery diffs in a row up to p.
ShortRun(f, p) == \E q \in 1 .. p : p - q <= FullEvery /\ f[q].kind # "diff"

Rising(f) == \A p, q \in 1 .. Len(f) : p < q => f[p].slot < f[q].slot

Chain(h, f) ==
    /\ f \in Seq(Recs)
    /\ Rising(f)
    /\ \A p \in 1 .. Len(f) : RecordTrue(h, f, p) /\ ShortRun(f, p)

Index(f, k) == [p \in 1 .. k |-> Entry(f[p], p)]
VersionOf(h, s) == [slot |-> s, val |-> h[s]]
VersionsOf(h, f) == {VersionOf(h, f[p].slot) : p \in 1 .. Len(f)}
SlotsOfLog(f) == {f[p].slot : p \in 1 .. Len(f)}

\* w begins with f.
BeginsWith(w, f) ==
    /\ w \in Seq(Recs) /\ Len(f) <= Len(w)
    /\ \A p \in 1 .. Len(f) : w[p] = f[p]

LEMMA HistoriesAre ==
    ASSUME NEW h \in Histories
    PROVE  IsHistory(h)
  <1>1. Len(h) = MaxSlot /\ h \in Seq(ToSet(h))
        /\ \A s \in DOMAIN h : h[s] # Bad /\ (h[s] = Absent \/ h[s] \in Seq(Nat))
    BY LogAssumption
  <1>2. Len(h) \in Nat /\ DOMAIN h = 1 .. Len(h)
    BY <1>1
  <1>3. MaxSlot \in Nat /\ DOMAIN h = Slot
    BY <1>1, <1>2 DEF Slot
  <1>4. QED
    BY <1>1, <1>3 DEF IsHistory

LEMMA RecordIs ==
    ASSUME NEW f \in Seq(Recs), NEW p \in 1 .. Len(f)
    PROVE  /\ f[p] \in Recs
           /\ f[p].slot \in Slot /\ f[p].kind \in {"full", "diff", "absent"}
           /\ f[p].pay \in Pays /\ f[p].known \in BOOLEAN /\ f[p].torn \in BOOLEAN
  <1>1. f[p] \in Recs
    BY ElementOfSeq
  <1>2. QED
    BY <1>1 DEF Recs, Kinds

\* What record p may be applied to.
BaseOf(h, f, p, base) ==
    base # Bad /\ (f[p].kind = "diff" => base = h[f[p - 1].slot])

DecodesTrue(h, f, w, p, base) == DecodedAt(w, Entry(f[p], p), base) = h[f[p].slot]

\* An entry of the index, read from a file the log begins.
LEMMA EntryDecodes ==
    ASSUME NEW h, IsHistory(h), NEW f, Chain(h, f), NEW w, BeginsWith(w, f),
           NEW p \in 1 .. Len(f), NEW base, BaseOf(h, f, p, base)
    PROVE  DecodesTrue(h, f, w, p, base)
  <1> DEFINE s == h[f[p].slot]
  <1>1. /\ f \in Seq(Recs) /\ Len(f) \in Nat /\ w \in Seq(Recs) /\ Len(w) \in Nat
        /\ RecordTrue(h, f, p) /\ base # Bad
    BY DEF Chain, BeginsWith, BaseOf
  <1>2. f[p].kind \in {"full", "diff", "absent"} /\ f[p].slot \in Slot
    BY <1>1, RecordIs
  <1>3. ASSUME f[p].kind = "absent" PROVE Decoded(f[p].kind, f[p].pay, base) = s
    BY <1>1, <1>3 DEF RecordTrue, Decoded
  <1>4. ASSUME f[p].kind = "full" PROVE Decoded(f[p].kind, f[p].pay, base) = s
    BY <1>1, <1>4 DEF RecordTrue, Decoded
  <1>5. ASSUME f[p].kind = "diff" PROVE Decoded(f[p].kind, f[p].pay, base) = s
    <2>1. base = h[f[p - 1].slot]
      BY <1>5 DEF BaseOf
    <2>2. /\ base # Absent /\ Len(base) = Len(s) /\ s # Absent
          /\ f[p].pay = [c \in Changed(base, s) |-> s[c]]
      BY <1>1, <1>5, <2>1 DEF RecordTrue
    <2>3. f[p - 1].slot \in Slot
      <3>1. Len(f) \in Nat /\ p > 1
        BY <1>1, <1>5 DEF RecordTrue
      <3>2. p - 1 \in 1 .. Len(f)
        BY <3>1
      <3>3. QED
        BY <1>1, <3>2, RecordIs
    <2>4. base \in Seq(Nat) /\ s \in Seq(Nat)
      BY <1>2, <2>2, <2>3, <2>1 DEF IsHistory
    <2>5. DOMAIN base = 1 .. Len(s) /\ DOMAIN s = 1 .. Len(s) /\ s = [c \in 1 .. Len(s) |-> s[c]]
      BY <2>2, <2>4
    <2> DEFINE pay == f[p].pay
    <2>6. DOMAIN pay = Changed(base, s) /\ \A c \in Changed(base, s) : pay[c] = s[c]
      BY <2>2
    <2>7. DOMAIN pay \subseteq DOMAIN base
      BY <2>5, <2>6 DEF Changed
    <2>8. Decoded(f[p].kind, pay, base)
            = [c \in DOMAIN base |-> IF c \in DOMAIN pay THEN pay[c] ELSE base[c]]
      <3> HIDE DEF pay
      <3>1. QED
        BY <1>1, <1>5, <2>2, <2>7 DEF Decoded
    <2>9. \A c \in 1 .. Len(s) : (IF c \in DOMAIN pay THEN pay[c] ELSE base[c]) = s[c]
      <3> HIDE DEF pay, s
      <3>1. QED
        BY <2>5, <2>6 DEF Changed
    <2>10. QED
      <3> HIDE DEF pay, s
      <3>1. QED
        BY <2>5, <2>8, <2>9, Zenon DEF pay, s
  <1>6. DecodedAt(w, Entry(f[p], p), base) = Decoded(f[p].kind, f[p].pay, base)
    <2>1. p \in DOMAIN w /\ w[p] = f[p]
      BY <1>1 DEF BeginsWith
    <2>2. ~f[p].torn
      BY <1>1 DEF RecordTrue
    <2>3. QED
      BY <2>1, <2>2 DEF DecodedAt, HoldsEntry, Entry
  <1>7. Decoded(f[p].kind, f[p].pay, base) = s
    BY <1>2, <1>3, <1>4, <1>5
  <1>8. QED
    BY <1>6, <1>7 DEF DecodesTrue

\* What the entries of a chain decode to is what the account held.
LEMMA StatesTrue ==
    ASSUME NEW h, IsHistory(h), NEW f, Chain(h, f), NEW w, BeginsWith(w, f),
           NEW k \in 0 .. Len(f), NEW start \in Nat \ {0}, NEW pos \in start - 1 .. k,
           start <= pos => f[start].kind # "diff"
    PROVE  StatesFrom(Index(f, k), w, start, pos)
             = [p \in start - 1 .. pos |-> IF p < start THEN Absent ELSE h[f[p].slot]]
  <1> DEFINE i == Index(f, k)
             g == [p \in start - 1 .. pos |-> IF p < start THEN Absent ELSE h[f[p].slot]]
             next(x) == [p \in start - 1 .. pos |->
                            IF p < start THEN Absent ELSE DecodedAt(w, i[p], x[p - 1])]
  <1>1. Len(f) \in Nat /\ f \in Seq(Recs) /\ k \in Nat
    BY DEF Chain
  <1>2. ASSUME NEW x, NEW p \in start .. pos, x[p - 1] = g[p - 1]
        PROVE  DecodedAt(w, i[p], x[p - 1]) = g[p]
    <2>1. p \in 1 .. k /\ p \in 1 .. Len(f)
      BY <1>1
    <2>2. CASE p = start
      <3>1. x[p - 1] = Absent /\ f[p].kind # "diff"
        BY <1>1, <1>2, <2>2
      <3>2. DecodedAt(w, i[p], x[p - 1]) = h[f[p].slot]
        <4> HIDE DEF g, next
        <4> DEFINE b == x[p - 1]
        <4>1. BaseOf(h, f, p, b)
          BY <3>1, ChainAssumption DEF BaseOf
        <4> HIDE DEF b
        <4>2. DecodesTrue(h, f, w, p, b)
          BY <2>1, <4>1, EntryDecodes
        <4>3. i[p] = Entry(f[p], p)
          BY <2>1 DEF Index
        <4>4. QED
          BY <4>2, <4>3 DEF b, DecodesTrue
      <3>3. QED
        BY <1>1, <3>2
    <2>3. CASE p # start
      <3>1. x[p - 1] = h[f[p - 1].slot] /\ p - 1 \in 1 .. Len(f)
        BY <1>1, <1>2, <2>3
      <3>2. h[f[p - 1].slot] # Bad
        BY <1>1, <3>1, RecordIs DEF IsHistory
      <3>3. DecodedAt(w, i[p], x[p - 1]) = h[f[p].slot]
        <4> HIDE DEF g, next
        <4> DEFINE b == x[p - 1]
        <4>1. BaseOf(h, f, p, b)
          BY <3>1, <3>2 DEF BaseOf
        <4> HIDE DEF b
        <4>2. DecodesTrue(h, f, w, p, b)
          BY <2>1, <4>1, EntryDecodes
        <4>3. i[p] = Entry(f[p], p)
          BY <2>1 DEF Index
        <4>4. QED
          BY <4>2, <4>3 DEF b, DecodesTrue
      <3>4. QED
        BY <1>1, <3>3
    <2>4. QED
      BY <2>2, <2>3
  <1>3. g = next(g)
    <2>1. \A p \in start - 1 .. pos :
              g[p] = IF p < start THEN Absent ELSE DecodedAt(w, i[p], g[p - 1])
      <3>1. TAKE p \in start - 1 .. pos
      <3>2. CASE p < start
        BY <3>2
      <3>3. CASE ~(p < start)
        <4>1. p \in start .. pos
          BY <1>1, <3>3
        <4>2. DecodedAt(w, i[p], g[p - 1]) = g[p]
          BY <4>1, <1>2
        <4>3. QED
          BY <3>3, <4>2
      <3>4. QED
        BY <3>2, <3>3
    <2>2. g = [p \in start - 1 .. pos |-> g[p]]
      OBVIOUS
    <2> HIDE DEF g, i
    <2>3. QED
      BY <2>1, <2>2
  <1>4. ASSUME NEW x, x = next(x) PROVE x = g
    <2> DEFINE T == {p \in start .. pos : x[p] # g[p]}
    <2>1. ASSUME T # {} PROVE FALSE
      <3>1. T \in SUBSET Nat
        BY <1>1
      <3>2. PICK p \in T : \A q \in T : p <= q
        <4> HIDE DEF T
        <4>1. QED
          BY <2>1, <3>1, Smallest
      <3>3. p \in start .. pos /\ p - 1 \in start - 1 .. pos /\ p - 1 \notin T
        <4>1. p \in start .. pos
          OBVIOUS
        <4>2. p \in Nat /\ start \in Nat /\ pos \in Nat
          BY <1>1, <4>1
        <4>3. p - 1 \in start - 1 .. pos
          BY <4>1, <4>2
        <4>4. p - 1 \notin T
          <5>1. SUFFICES ASSUME p - 1 \in T PROVE FALSE
            OBVIOUS
          <5>2. p <= p - 1
            BY <3>2, <5>1
          <5>3. QED
            BY <4>2, <5>2
        <4>5. QED
          BY <4>1, <4>3, <4>4
      <3>4. x[p - 1] = g[p - 1]
        <4>1. CASE p = start
          <5>1. next(x)[p - 1] = Absent /\ g[p - 1] = Absent
            BY <1>1, <3>3, <4>1
          <5>2. QED
            BY <1>4, <5>1
        <4>2. CASE p # start
          BY <1>1, <3>3, <4>2
        <4>3. QED
          BY <4>1, <4>2
      <3>5. DecodedAt(w, i[p], x[p - 1]) = g[p]
        BY <1>2, <3>3, <3>4
      <3>6. next(x)[p] = DecodedAt(w, i[p], x[p - 1])
        BY <1>1, <3>3
      <3>7. x[p] = g[p]
        BY <1>4, <3>5, <3>6
      <3>8. QED
        BY <3>2, <3>7
    <2>2. \A p \in start - 1 .. pos : x[p] = g[p]
      <3>1. TAKE p \in start - 1 .. pos
      <3>2. CASE p < start
        <4>1. next(x)[p] = Absent /\ g[p] = Absent
          BY <3>2
        <4>2. QED
          BY <1>4, <4>1
      <3>3. CASE ~(p < start)
        <4>1. p \in start .. pos
          BY <1>1, <3>3
        <4>2. QED
          BY <2>1, <4>1
      <3>4. QED
        BY <3>2, <3>3
    <2>3. x = [p \in start - 1 .. pos |-> x[p]]
      <3>1. next(x) = [p \in start - 1 .. pos |-> next(x)[p]]
        OBVIOUS
      <3> HIDE DEF next
      <3>2. QED
        BY <1>4, <3>1
    <2>4. g = [p \in start - 1 .. pos |-> g[p]]
      OBVIOUS
    <2> HIDE DEF g, next
    <2>5. QED
      BY <2>2, <2>3, <2>4
  <1> DEFINE state[p \in start - 1 .. pos] ==
                IF p < start THEN Absent ELSE DecodedAt(w, i[p], state[p - 1])
  <1>5. StatesFrom(i, w, start, pos) = state
    BY DEF StatesFrom
  <1>6. state = CHOOSE x : x = next(x)
    BY Zenon DEF state
  <1>7. state = next(state)
    <2> HIDE DEF state, next, g
    <2>1. QED
      BY <1>3, <1>6
  <1>8. QED
    <2> HIDE DEF state, next, g
    <2>1. state = g
      BY <1>4, <1>7
    <2>2. QED
      BY <1>5, <2>1 DEF g

LEMMA ChainIs ==
    ASSUME NEW h, NEW f, Chain(h, f)
    PROVE  /\ f \in Seq(Recs) /\ Len(f) \in Nat /\ DOMAIN f = 1 .. Len(f)
           /\ \A p \in 1 .. Len(f) : ~f[p].torn
           /\ Len(f) # 0 => f[1].kind # "diff"
  <1>1. f \in Seq(Recs) /\ Len(f) \in Nat /\ DOMAIN f = 1 .. Len(f)
    BY DEF Chain
  <1>2. \A p \in 1 .. Len(f) : RecordTrue(h, f, p)
    BY DEF Chain
  <1>3. Len(f) # 0 => RecordTrue(h, f, 1)
    BY <1>1, <1>2
  <1>4. ASSUME NEW p \in 1 .. Len(f) PROVE ~f[p].torn
    <2>1. RecordTrue(h, f, p)
      BY <1>2
    <2>2. QED
      BY <2>1 DEF RecordTrue
  <1>5. ASSUME Len(f) # 0 PROVE f[1].kind # "diff"
    BY <1>3, <1>5 DEF RecordTrue
  <1>6. QED
    BY <1>1, <1>4, <1>5

\* A file that holds chain f, perhaps with a torn record after it.
HoldsLog(w, f) ==
    /\ w \in Seq(Recs)
    /\ \/ w = f
       \/ /\ Len(w) = Len(f) + 1
          /\ w[Len(w)].torn
          /\ \A p \in 1 .. Len(f) : w[p] = f[p]

LEMMA HoldsBegins ==
    ASSUME NEW h, NEW f, Chain(h, f), NEW w, HoldsLog(w, f)
    PROVE  BeginsWith(w, f)
  <1>1. Len(f) \in Nat /\ Len(w) \in Nat
    BY DEF Chain, HoldsLog
  <1>2. QED
    BY <1>1 DEF HoldsLog, BeginsWith

IndexFound(w, f) == IndexOf(w) = Index(f, Len(f))

\* The index of a file is that of its chain.
LEMMA IndexOfChain ==
    ASSUME NEW h, NEW f, Chain(h, f), NEW w, HoldsLog(w, f)
    PROVE  IndexFound(w, f)
  <1> DEFINE torn == {p \in DOMAIN w : w[p].torn}
             readable == {p \in DOMAIN w : (\A q \in torn : p <= q) /\ (p \in torn => p < Len(w))}
             n == Len(f)
  <1>1. n \in Nat /\ Len(w) \in Nat /\ DOMAIN w = 1 .. Len(w) /\ \A p \in 1 .. n : ~f[p].torn
    <2>1. w \in Seq(Recs)
      BY DEF HoldsLog
    <2>2. QED
      BY <2>1, ChainIs
  <1>2. \A p \in 1 .. n : w[p] = f[p]
    BY <1>1 DEF HoldsLog
  <1>3. readable = 1 .. n
    <2>1. CASE w = f
      <3>1. torn = {}
        BY <1>1, <2>1
      <3>2. QED
        BY <1>1, <2>1, <3>1
    <2>2. CASE w # f
      <3>1. Len(w) = n + 1 /\ w[n + 1].torn
        BY <2>2 DEF HoldsLog
      <3>2. torn = {n + 1}
        BY <1>1, <1>2, <3>1
      <3>3. readable = {p \in 1 .. n + 1 : p <= n + 1 /\ (p = n + 1 => p < n + 1)}
        BY <1>1, <3>1, <3>2
      <3>4. QED
        BY <1>1, <3>3
    <2>3. QED
      BY <2>1, <2>2
  <1>4. IndexOf(w) = [p \in readable |-> Entry(w[p], p)]
    BY DEF IndexOf
  <1>5. IndexOf(w) = [p \in 1 .. n |-> Entry(w[p], p)]
    <2> HIDE DEF readable
    <2>1. QED
      BY <1>3, <1>4
  <1>6. \A p \in 1 .. n : Entry(w[p], p) = Entry(f[p], p)
    BY <1>2
  <1>7. QED
    BY <1>5, <1>6 DEF IndexFound, Index

LEMMA IndexIs ==
    ASSUME NEW f, NEW k \in Nat
    PROVE  /\ Len(Index(f, k)) = k
           /\ DOMAIN Index(f, k) = 1 .. k
           /\ \A p \in 1 .. k :
                /\ Index(f, k)[p] = Entry(f[p], p)
                /\ Index(f, k)[p].slot = f[p].slot /\ Index(f, k)[p].kind = f[p].kind
                /\ Index(f, k)[p].known = f[p].known /\ Index(f, k)[p].pos = p
  BY DEF Index, Entry

TrueVersions(h, f) == [p \in 1 .. Len(f) |-> VersionOf(h, f[p].slot)]
VersionsTrue(h, f, w) == Versions(w) = TrueVersions(h, f)

\* The versions of a file are what the account held.
LEMMA VersionsOfChain ==
    ASSUME NEW h, IsHistory(h), NEW f, Chain(h, f), NEW w, HoldsLog(w, f)
    PROVE  VersionsTrue(h, f, w)
  <1> DEFINE n == Len(f)
             i == Index(f, n)
  <1>1. n \in Nat /\ f \in Seq(Recs)
    BY DEF Chain
  <1>2. IndexOf(w) = i
    BY IndexOfChain DEF IndexFound
  <1>3. BeginsWith(w, f)
    BY HoldsBegins
  <1>4. Len(i) = n /\ \A p \in 1 .. n : i[p].slot = f[p].slot
    BY <1>1, IndexIs
  <1>5. 1 <= n => f[1].kind # "diff"
    BY <1>1, ChainIs
  <1>6. StatesFrom(i, w, 1, n) = [p \in 0 .. n |-> IF p < 1 THEN Absent ELSE h[f[p].slot]]
    <2> DEFINE one == 1
    <2>1. one \in Nat \ {0} /\ n \in one - 1 .. n /\ n \in 0 .. Len(f)
      BY <1>1
    <2>2. one <= n => f[one].kind # "diff"
      BY <1>5
    <2> HIDE DEF one
    <2>3. StatesFrom(Index(f, n), w, one, n)
            = [p \in one - 1 .. n |-> IF p < one THEN Absent ELSE h[f[p].slot]]
      BY <1>3, <2>1, <2>2, StatesTrue
    <2>4. one - 1 = 0 /\ one = 1
      BY DEF one
    <2>5. QED
      BY <2>3, <2>4
  <1>7. Versions(w) = [p \in 1 .. n |-> [slot |-> i[p].slot, val |-> StatesFrom(i, w, 1, n)[p]]]
    <2> HIDE DEF i
    <2>1. QED
      BY <1>2, <1>4 DEF Versions
  <1>8. \A p \in 1 .. n : [slot |-> i[p].slot, val |-> StatesFrom(i, w, 1, n)[p]]
                            = VersionOf(h, f[p].slot)
    <2>1. TAKE p \in 1 .. n
    <2>2. StatesFrom(i, w, 1, n)[p] = h[f[p].slot]
      <3> HIDE DEF i
      <3>1. QED
        BY <1>1, <1>6
    <2>3. QED
      BY <1>4, <2>2 DEF VersionOf
  <1>9. QED
    <2> HIDE DEF i
    <2>1. QED
      BY <1>7, <1>8 DEF VersionsTrue, TrueVersions

-----------------------------------------------------------------------------
(* Lookups.                                                                  *)

\* The diffs up to p rest on a record that is none, FullEvery before at most.
StartsWell(f, k, p) ==
    /\ StartOf(Index(f, k), p) \in 1 .. p
    /\ f[StartOf(Index(f, k), p)].kind # "diff"
    /\ p - StartOf(Index(f, k), p) <= FullEvery

LEMMA StartOfChain ==
    ASSUME NEW h, NEW f, Chain(h, f), NEW k \in 0 .. Len(f), NEW p \in 1 .. k
    PROVE  StartsWell(f, k, p)
  <1> DEFINE i == Index(f, k)
             T == {q \in 1 .. p : q = 1 \/ i[q].kind # "diff"}
             m == Max(T)
  <1>1. Len(f) \in Nat /\ k \in Nat /\ p \in Nat /\ p \in 1 .. Len(f) /\ Len(f) # 0
    BY ChainIs
  <1>2. \A q \in 1 .. p : i[q].kind = f[q].kind
    BY <1>1, IndexIs
  <1>3. f[1].kind # "diff"
    BY <1>1, ChainIs
  <1>4. T = {q \in 1 .. p : f[q].kind # "diff"}
    <2> HIDE DEF i
    <2>1. QED
      BY <1>2, <1>3
  <1>5. 1 \in T /\ T \in SUBSET (0 .. p)
    BY <1>1
  <1>6. m \in T /\ \A q \in T : q <= m
    <2> HIDE DEF T
    <2>1. QED
      BY <1>1, <1>5, Greatest
  <1>7. PICK q \in 1 .. p : p - q <= FullEvery /\ f[q].kind # "diff"
    BY <1>1 DEF Chain, ShortRun
  <1>8. q \in T /\ q <= m
    <2> HIDE DEF m
    <2>1. QED
      BY <1>4, <1>6, <1>7
  <1>9. m \in 1 .. p /\ f[m].kind # "diff"
    <2> HIDE DEF m
    <2>1. QED
      BY <1>4, <1>6
  <1>10. p - m <= FullEvery
    <2> HIDE DEF m
    <2>1. QED
      BY <1>1, <1>7, <1>8, <1>9, ChainAssumption
  <1>11. StartOf(i, p) = m
    BY DEF StartOf
  <1>12. QED
    <2> HIDE DEF m, i
    <2>1. QED
      BY <1>9, <1>10, <1>11 DEF StartsWell, i

\* Record p is the newest of the first k at or before s.
NewestAt(f, k, s, p) ==
    /\ p \in 1 .. k /\ f[p].slot <= s
    /\ \A q \in 1 .. k : f[q].slot <= s => q <= p

\* What a lookup of s must give, of the first k records.
Found(h, f, k, s, v) ==
    \/ /\ \A p \in 1 .. k : ~(f[p].slot <= s)
       /\ v.slot = 0 /\ v.val = Absent
    \/ \E p \in 1 .. k : /\ NewestAt(f, k, s, p)
                         /\ v.slot = f[p].slot /\ v.val = h[f[p].slot]

LookedUp(h, f, w, k, s) == Found(h, f, k, s, VersionAt(Index(f, k), w, s))

\* A lookup through an index of the first records gives the newest of them at
\* or before the slot, as the account held it.
LEMMA LookupFinds ==
    ASSUME NEW h, IsHistory(h), NEW f, Chain(h, f), NEW w, BeginsWith(w, f),
           NEW k \in 0 .. Len(f), NEW s \in Nat
    PROVE  LookedUp(h, f, w, k, s)
  <1> DEFINE i == Index(f, k)
             B == Before(i, s)
             pos == Max(B)
             start == StartOf(i, pos)
             v == VersionAt(i, w, s)
  <1>1. Len(f) \in Nat /\ k \in Nat /\ f \in Seq(Recs)
    BY ChainIs
  <1>2. DOMAIN i = 1 .. k /\ \A p \in 1 .. k : i[p].slot = f[p].slot /\ i[p].kind = f[p].kind
    BY <1>1, IndexIs
  <1>3. B = {p \in 1 .. k : f[p].slot <= s}
    <2> HIDE DEF i
    <2>1. QED
      BY <1>2 DEF Before
  <1>4. CASE B = {}
    <2>1. \A p \in 1 .. k : ~(f[p].slot <= s)
      BY <1>3, <1>4
    <2>2. v = [slot |-> 0, val |-> Absent, known |-> TRUE]
      <3> HIDE DEF i
      <3>1. QED
        BY <1>4 DEF VersionAt
    <2>3. QED
      BY <2>1, <2>2 DEF LookedUp, Found
  <1>5. CASE B # {}
    <2>1. B \in SUBSET (0 .. k)
      BY <1>3
    <2>2. pos \in B /\ \A q \in B : q <= pos
      <3> HIDE DEF B
      <3>1. QED
        BY <1>1, <1>5, <2>1, Greatest
    <2>3. NewestAt(f, k, s, pos) /\ pos \in 1 .. k
      <3> HIDE DEF pos
      <3>1. QED
        BY <1>3, <2>2 DEF NewestAt
    <2>4. pos \in 1 .. Len(f) /\ h[f[pos].slot] # Bad /\ f[pos].slot \in Slot
      <3> HIDE DEF pos
      <3>1. pos \in 1 .. Len(f)
        BY <1>1, <2>3
      <3>2. QED
        BY <1>1, <3>1, RecordIs DEF IsHistory
    <2>5. start \in 1 .. pos /\ f[start].kind # "diff"
      <3> HIDE DEF pos
      <3>1. StartsWell(f, k, pos)
        BY <2>3, StartOfChain
      <3>2. QED
        BY <3>1 DEF StartsWell
    <2>6. i[pos].slot = f[pos].slot /\ i[pos].kind = f[pos].kind
      <3> HIDE DEF pos, i
      <3>1. QED
        BY <1>2, <2>3
    <2>7. v.slot = f[pos].slot
      <3>1. v.slot = i[pos].slot
        <4> HIDE DEF i
        <4>1. QED
          BY <1>5 DEF VersionAt
      <3>2. QED
        BY <2>6, <3>1
    <2>8. v.val = h[f[pos].slot]
      <3>1. CASE f[pos].kind = "absent"
        <4>1. v.val = Absent
          <5>1. i[pos].kind = "absent"
            BY <2>6, <3>1
          <5> HIDE DEF i
          <5>2. QED
            BY <1>5, <5>1 DEF VersionAt
        <4>2. RecordTrue(h, f, pos)
          <5> HIDE DEF pos
          <5>1. QED
            BY <2>4 DEF Chain
        <4> HIDE DEF pos, v
        <4>3. QED
          BY <3>1, <4>1, <4>2 DEF RecordTrue
      <3>2. CASE f[pos].kind # "absent"
        <4>1. v.val = StatesFrom(i, w, start, pos)[pos]
          <5>1. i[pos].kind # "absent"
            BY <2>6, <3>2
          <5> HIDE DEF i
          <5>2. QED
            BY <1>5, <5>1 DEF VersionAt
        <4>2. StatesFrom(i, w, start, pos)
                = [p \in start - 1 .. pos |-> IF p < start THEN Absent ELSE h[f[p].slot]]
          <5> HIDE DEF pos, start
          <5>1. start \in Nat \ {0} /\ pos \in start - 1 .. k
            BY <1>1, <2>3, <2>5
          <5>2. start <= pos => f[start].kind # "diff"
            BY <2>5
          <5>3. QED
            BY <5>1, <5>2, StatesTrue
        <4>3. pos \in start - 1 .. pos /\ ~(pos < start)
          <5> HIDE DEF pos, start
          <5>1. QED
            BY <1>1, <2>3, <2>5
        <4>4. StatesFrom(i, w, start, pos)[pos] = h[f[pos].slot]
          <5> HIDE DEF pos, start, i
          <5>1. QED
            BY <4>2, <4>3
        <4>5. QED
          <5> HIDE DEF pos, start, i, v
          <5>1. QED
            BY <4>1, <4>4
      <3>3. QED
        BY <3>1, <3>2
    <2>9. QED
      <3> HIDE DEF pos, v
      <3>1. Found(h, f, k, s, v)
        BY <2>3, <2>7, <2>8 DEF Found
      <3>2. QED
        BY <3>1 DEF LookedUp, v
  <1>6. QED
    BY <1>4, <1>5

-----------------------------------------------------------------------------
(* Records written.                                                          *)

\* What Encoded gives of what the account held.
WrittenAs(r, slot, s, base, since, known) ==
    /\ r \in Recs /\ r.slot = slot /\ ~r.torn
    /\ r.kind = "absent" <=> s = Absent
    /\ r.kind = "full" => r.pay = s
    /\ r.kind = "diff" =>
         /\ base # Absent /\ since < FullEvery /\ Len(base) = Len(s)
         /\ r.pay = [c \in Changed(base, s) |-> s[c]]
    /\ r.kind = KindOf(s, base, since)
    /\ r.known = (known \/ r.kind = "absent")

EncodesTrue(h, slot, base, since, known) ==
    WrittenAs(Encoded(slot, h[slot], base, since, known), slot, h[slot], base, since, known)

LEMMA EncodedIs ==
    ASSUME NEW h, IsHistory(h), NEW slot \in Slot, NEW base, NEW since \in Nat, NEW known \in BOOLEAN
    PROVE  EncodesTrue(h, slot, base, since, known)
  <1> DEFINE s == h[slot]
             kind == KindOf(s, base, since)
             pay == Payload(kind, base, s)
             r == Encoded(slot, s, base, since, known)
  <1>1. s = Absent \/ s \in Seq(Nat)
    BY DEF IsHistory
  <1>2. r = [slot |-> slot, kind |-> kind, pay |-> pay,
             known |-> known \/ kind = "absent", torn |-> FALSE]
    BY DEF Encoded
  <1>3. /\ kind \in {"absent", "full", "diff"}
        /\ kind = "absent" <=> s = Absent
        /\ kind = "diff" => base # Absent /\ since < FullEvery /\ Len(base) = Len(s)
    BY DEF KindOf, WorthDiff
  <1>4. /\ kind = "absent" => pay = <<>>
        /\ kind = "full" => pay = s
        /\ kind = "diff" => pay = [c \in Changed(base, s) |-> s[c]]
    <2> HIDE DEF kind
    <2>1. QED
      BY <1>3 DEF Payload
  <1>5. pay \in Pays
    <2> HIDE DEF kind, pay
    <2>1. CASE kind = "absent"
      <3>1. pay \in [{} -> Nat]
        BY <1>4, <2>1
      <3>2. QED
        BY <3>1 DEF Pays
    <2>2. CASE kind # "absent"
      <3>1. s \in [1 .. Len(s) -> Nat] /\ DOMAIN s = 1 .. Len(s) /\ Len(s) \in Nat
        <4>1. s \in Seq(Nat)
          BY <1>1, <1>3, <2>2
        <4> HIDE DEF s
        <4>2. QED
          BY <4>1
      <3> HIDE DEF s
      <3>2. CASE kind = "full"
        <4>1. pay \in [1 .. Len(s) -> Nat] /\ (1 .. Len(s)) \in SUBSET Nat
          BY <1>4, <3>1, <3>2
        <4>2. QED
          BY <4>1 DEF Pays
      <3>3. CASE kind = "diff"
        <4> DEFINE D == Changed(base, s)
        <4>1. D \in SUBSET Nat /\ \A c \in D : s[c] \in Nat
          BY <3>1 DEF Changed
        <4>2. [c \in D |-> s[c]] \in [D -> Nat]
          <5> HIDE DEF D
          <5>1. QED
            BY <4>1
        <4>3. pay \in [D -> Nat]
          BY <1>4, <3>3, <4>2
        <4>4. QED
          <5> HIDE DEF D
          <5>1. QED
            BY <4>1, <4>3 DEF Pays
      <3>4. QED
        BY <1>3, <2>2, <3>2, <3>3
    <2>3. QED
      BY <2>1, <2>2
  <1>6. r \in Recs
    <2> HIDE DEF kind, pay, s
    <2>1. QED
      BY <1>2, <1>3, <1>5 DEF Recs, Kinds
  <1>7. r.slot = slot /\ ~r.torn /\ r.kind = kind /\ r.pay = pay /\ r.known = (known \/ kind = "absent")
    <2> HIDE DEF kind, pay, s, r
    <2>1. QED
      BY <1>2
  <1>8. QED
    <2>1. WrittenAs(r, slot, s, base, since, known)
      <3> HIDE DEF r, pay, s
      <3>1. r.kind = KindOf(s, base, since)
        BY <1>7
      <3> HIDE DEF kind
      <3>2. QED
        BY <1>3, <1>4, <1>6, <1>7, <3>1 DEF WrittenAs
    <2> HIDE DEF r, s
    <2>2. QED
      BY <2>1 DEF EncodesTrue, r, s

\* What a record appended to f may be diffed against: the state f ends with, a
\* record that is no diff since records before it.
MayExtend(h, f, slot, base, since) ==
    /\ slot \in Slot /\ \A p \in 1 .. Len(f) : f[p].slot < slot
    /\ base # Absent =>
         /\ Len(f) # 0 /\ base = h[f[Len(f)].slot]
         /\ \E q \in 1 .. Len(f) : f[q].kind # "diff" /\ Len(f) - q <= since

Extends(h, f, slot, base, since, known) ==
    Chain(h, Append(f, Encoded(slot, h[slot], base, since, known)))

\* A record encoded against the end of a chain extends it.
LEMMA EncodedExtends ==
    ASSUME NEW h, IsHistory(h), NEW f, Chain(h, f), NEW slot, NEW base, NEW since \in Nat,
           NEW known \in BOOLEAN, MayExtend(h, f, slot, base, since)
    PROVE  Extends(h, f, slot, base, since, known)
  <1> DEFINE r == Encoded(slot, h[slot], base, since, known)
             n == Len(f)
             g == Append(f, r)
  <1>1. slot \in Slot
    BY DEF MayExtend
  <1>2. WrittenAs(r, slot, h[slot], base, since, known)
    BY <1>1, EncodedIs DEF EncodesTrue
  <1> HIDE DEF r
  <1>3. f \in Seq(Recs) /\ n \in Nat /\ r \in Recs
    BY <1>2, ChainIs DEF WrittenAs
  <1>4. g \in Seq(Recs) /\ Len(g) = n + 1 /\ g[n + 1] = r /\ \A p \in 1 .. n : g[p] = f[p]
    BY <1>3, AppendProperties
  <1> HIDE DEF g
  <1>5. Rising(g)
    <2>1. SUFFICES ASSUME NEW p \in 1 .. n + 1, NEW q \in 1 .. n + 1, p < q
                   PROVE  g[p].slot < g[q].slot
      BY <1>4 DEF Rising
    <2>2. p \in 1 .. n
      BY <1>3, <2>1
    <2>3. CASE q = n + 1
      BY <1>2, <1>4, <2>2, <2>3 DEF WrittenAs, MayExtend
    <2>4. CASE q # n + 1
      <3>1. q \in 1 .. n
        BY <1>3, <2>4
      <3>2. f[p].slot < f[q].slot
        BY <2>1, <2>2, <3>1 DEF Chain, Rising
      <3>3. QED
        BY <1>4, <2>2, <3>1, <3>2
    <2>5. QED
      BY <2>3, <2>4
  <1>6. ASSUME NEW p \in 1 .. n PROVE RecordTrue(h, g, p) /\ ShortRun(g, p)
    <2>1. RecordTrue(h, f, p) /\ ShortRun(f, p)
      BY DEF Chain
    <2>2. g[p] = f[p] /\ (p > 1 => g[p - 1] = f[p - 1])
      BY <1>3, <1>4
    <2>3. RecordTrue(h, g, p)
      BY <2>1, <2>2 DEF RecordTrue
    <2>4. \A q \in 1 .. p : g[q] = f[q]
      BY <1>3, <1>4
    <2>5. ShortRun(g, p)
      BY <2>1, <2>4 DEF ShortRun
    <2>6. QED
      BY <2>3, <2>5
  <1>7. RecordTrue(h, g, n + 1)
    <2>1. CASE r.kind = "diff"
      <3>1. base # Absent /\ n # 0 /\ base = h[f[n].slot] /\ r.kind = "diff"
        BY <1>2, <2>1 DEF WrittenAs, MayExtend
      <3>2. n + 1 > 1 /\ g[n + 1 - 1] = f[n]
        BY <1>3, <1>4, <3>1
      <3>3. QED
        BY <1>2, <1>4, <3>1, <3>2 DEF WrittenAs, RecordTrue
    <2>2. CASE r.kind # "diff"
      BY <1>2, <1>4, <2>2 DEF WrittenAs, RecordTrue
    <2>3. QED
      BY <2>1, <2>2
  <1>8. ShortRun(g, n + 1)
    <2>1. CASE r.kind = "diff"
      <3>1. base # Absent /\ since < FullEvery
        BY <1>2, <2>1 DEF WrittenAs
      <3>2. PICK q \in 1 .. n : f[q].kind # "diff" /\ n - q <= since
        BY <3>1 DEF MayExtend
      <3>3. q \in 1 .. n + 1 /\ g[q].kind # "diff" /\ n + 1 - q <= FullEvery
        BY <1>3, <1>4, <3>1, <3>2, ChainAssumption
      <3>4. QED
        BY <3>3 DEF ShortRun
    <2>2. CASE r.kind # "diff"
      <3>1. n + 1 \in 1 .. n + 1 /\ n + 1 - (n + 1) <= FullEvery
        BY <1>3, ChainAssumption
      <3>2. QED
        BY <1>4, <2>2, <3>1 DEF ShortRun
    <2>3. QED
      BY <2>1, <2>2
  <1>9. \A p \in 1 .. Len(g) : RecordTrue(h, g, p) /\ ShortRun(g, p)
    <2>1. \A p \in 1 .. n + 1 : p \in 1 .. n \/ p = n + 1
      BY <1>3
    <2>2. QED
      BY <1>4, <1>6, <1>7, <1>8, <2>1
  <1>10. Chain(h, g)
    BY <1>4, <1>5, <1>9 DEF Chain
  <1>11. QED
    BY <1>10 DEF Extends, g, r

TrailingFits(f) ==
    LET d == TrailingDiffs(Index(f, Len(f)))
    IN  /\ d \in Nat
        /\ Len(f) # 0 => \E q \in 1 .. Len(f) : f[q].kind # "diff" /\ Len(f) - q <= d

\* The diffs at the end of a chain are those since its last other record.
LEMMA TrailingOfChain ==
    ASSUME NEW h, NEW f, Chain(h, f)
    PROVE  TrailingFits(f)
  <1> DEFINE n == Len(f)
             i == Index(f, n)
             D == {p \in DOMAIN i : \A q \in p .. Len(i) : i[q].kind = "diff"}
             T == {q \in 1 .. n : f[q].kind # "diff"}
             m == Max(T)
  <1>1. n \in Nat
    BY ChainIs
  <1>2. DOMAIN i = 1 .. n /\ Len(i) = n /\ \A p \in 1 .. n : i[p].kind = f[p].kind
    BY <1>1, IndexIs
  <1>3. D = {p \in 1 .. n : \A q \in p .. n : f[q].kind = "diff"}
    <2>1. \A p \in 1 .. n : \A q \in p .. n : q \in 1 .. n
      BY <1>1
    <2> HIDE DEF i
    <2>2. QED
      BY <1>2, <2>1
  <1>4. TrailingDiffs(i) = Cardinality(D)
    BY DEF TrailingDiffs
  <1>5. CASE n = 0
    <2>1. D = {}
      BY <1>3, <1>5
    <2>2. Cardinality(D) = 0
      <3> HIDE DEF D
      <3>1. QED
        BY <2>1, FS_EmptySet
    <2> HIDE DEF D, i
    <2>3. QED
      BY <1>4, <1>5, <2>2 DEF TrailingFits, i
  <1>6. CASE n # 0
    <2>1. T \in SUBSET (0 .. n) /\ 1 \in T
      BY <1>1, <1>6, ChainIs
    <2>2. m \in T /\ \A q \in T : q <= m
      <3> HIDE DEF T
      <3>1. QED
        BY <1>1, <2>1, Greatest
    <2>3. m \in 1 .. n /\ f[m].kind # "diff" /\ \A q \in 1 .. n : q > m => f[q].kind = "diff"
      <3> HIDE DEF m
      <3>1. m \in 1 .. n /\ f[m].kind # "diff"
        BY <2>2
      <3>2. ASSUME NEW q \in 1 .. n, q > m PROVE f[q].kind = "diff"
        <4>1. q \notin T
          BY <1>1, <2>2, <3>1, <3>2
        <4>2. QED
          BY <4>1
      <3>3. QED
        BY <3>1, <3>2
    <2>4. D = m + 1 .. n
      <3> HIDE DEF m
      <3>1. ASSUME NEW p \in D PROVE p \in m + 1 .. n
        <4>1. p \in 1 .. n /\ \A q \in p .. n : f[q].kind = "diff"
          BY <1>3
        <4>2. ~(p <= m)
          <5>1. p <= m => m \in p .. n
            BY <1>1, <2>3, <4>1
          <5>2. QED
            BY <2>3, <4>1, <5>1
        <4>3. QED
          BY <1>1, <2>3, <4>1, <4>2
      <3>2. ASSUME NEW p \in m + 1 .. n PROVE p \in D
        <4>1. p \in 1 .. n /\ \A q \in p .. n : q \in 1 .. n /\ q > m
          BY <1>1, <2>3
        <4>2. QED
          BY <1>3, <2>3, <4>1
      <3>3. QED
        BY <3>1, <3>2
    <2>5. Cardinality(D) = n - m /\ n - m \in Nat
      <3> HIDE DEF D, m
      <3>1. m + 1 \in Int /\ n \in Int /\ n - m \in Nat /\ n - (m + 1) + 1 = n - m
            /\ (m + 1 > n => n - m = 0)
        BY <1>1, <2>3
      <3>2. Cardinality(m + 1 .. n) = IF m + 1 > n THEN 0 ELSE n - (m + 1) + 1
        BY <3>1, FS_Interval
      <3>3. QED
        BY <2>4, <3>1, <3>2
    <2> HIDE DEF D, i, m
    <2>6. n - m <= n - m
      BY <2>5
    <2>7. QED
      BY <1>4, <2>3, <2>5, <2>6 DEF TrailingFits, i
  <1>7. QED
    BY <1>5, <1>6

-----------------------------------------------------------------------------
(* Chains made of versions.                                                  *)

\* A step function runs from 0 to any n.
LEMMA StepsExist ==
    ASSUME NEW n \in Nat, NEW G \in [(1 .. n) \X Nat -> Nat]
    PROVE  \E x \in [0 .. n -> Nat] : x[0] = 0 /\ \A p \in 1 .. n : x[p] = G[<<p, x[p - 1]>>]
  <1> DEFINE Run(m, x) == /\ x \in [0 .. m -> Nat] /\ x[0] = 0
                          /\ \A p \in 1 .. m : x[p] = G[<<p, x[p - 1]>>]
             T == {m \in Nat : m <= n => \E x : Run(m, x)}
  <1>1. 0 \in T
    <2>1. Run(0, [p \in 0 .. 0 |-> 0])
      OBVIOUS
    <2> HIDE DEF Run
    <2>2. QED
      BY <2>1
  <1>2. ASSUME NEW m \in T PROVE m + 1 \in T
    <2>1. m \in Nat
      OBVIOUS
    <2> HIDE DEF Run
    <2>2. SUFFICES ASSUME m + 1 <= n PROVE \E x : Run(m + 1, x)
      BY <2>1
    <2> USE DEF Run
    <2>3. PICK x : Run(m, x)
      <3>1. m <= n
        BY <2>1, <2>2
      <3> HIDE DEF Run
      <3>2. QED
        BY <3>1
    <2> DEFINE y == [p \in 0 .. m + 1 |-> IF p = m + 1 THEN G[<<p, x[m]>>] ELSE x[p]]
    <2>4. x[m] \in Nat /\ m + 1 \in 1 .. n
      BY <2>1, <2>2, <2>3
    <2>5. G[<<m + 1, x[m]>>] \in Nat
      BY <2>4
    <2>6. \A p \in 0 .. m : y[p] = x[p] /\ x[p] \in Nat
      BY <2>1, <2>3
    <2>7. y[m + 1] = G[<<m + 1, x[m]>>]
      BY <2>1
    <2>8. y \in [0 .. m + 1 -> Nat]
      <3>1. \A p \in 0 .. m + 1 : p \in 0 .. m \/ p = m + 1
        BY <2>1
      <3>2. \A p \in 0 .. m + 1 : y[p] \in Nat
        <4> HIDE DEF y
        <4>1. QED
          BY <2>5, <2>6, <2>7, <3>1
      <3>3. y = [p \in 0 .. m + 1 |-> y[p]]
        OBVIOUS
      <3> HIDE DEF y
      <3>4. QED
        BY <3>2, <3>3
    <2> HIDE DEF y
    <2>9. ASSUME NEW p \in 1 .. m + 1 PROVE y[p] = G[<<p, y[p - 1]>>]
      <3>1. CASE p = m + 1
        <4>1. y[p - 1] = x[m]
          BY <2>1, <2>6, <3>1
        <4>2. QED
          BY <2>7, <3>1, <4>1
      <3>2. CASE p # m + 1
        <4>1. p \in 1 .. m /\ p \in 0 .. m /\ p - 1 \in 0 .. m
          BY <2>1, <3>2
        <4>2. x[p] = G[<<p, x[p - 1]>>]
          BY <2>3, <4>1
        <4>3. QED
          BY <2>6, <4>1, <4>2
      <3>3. QED
        BY <3>1, <3>2
    <2>10. y[0] = 0
      BY <2>1, <2>3, <2>6
    <2>11. Run(m + 1, y)
      BY <2>8, <2>9, <2>10
    <2> HIDE DEF Run
    <2>12. QED
      BY <2>11
  <1>3. T = Nat
    <2> HIDE DEF T
    <2>1. T \in SUBSET Nat
      BY DEF T
    <2>2. QED
      BY <1>1, <1>2, <2>1, EveryNumber
  <1>4. PICK x : Run(n, x)
    <2>1. n \in T
      BY <1>3
    <2> HIDE DEF Run
    <2>2. QED
      BY <2>1
  <1>5. QED
    BY <1>4

\* Versions as a log has them, as the account held them.
AllVersions(h) == {VersionOf(h, s) : s \in Slot}
RisingTo(h, v) ==
    /\ v \in Seq(AllVersions(h))
    /\ \A i, j \in 1 .. Len(v) : i < j => v[i].slot < v[j].slot

LEMMA RisingIs ==
    ASSUME NEW h, NEW v, RisingTo(h, v)
    PROVE  /\ Len(v) \in Nat /\ DOMAIN v = 1 .. Len(v)
           /\ \A p \in 1 .. Len(v) : /\ v[p].slot \in Slot /\ v[p].val = h[v[p].slot]
                                     /\ v[p] = VersionOf(h, v[p].slot)
  <1>1. Len(v) \in Nat /\ DOMAIN v = 1 .. Len(v) /\ \A p \in 1 .. Len(v) : v[p] \in AllVersions(h)
    BY DEF RisingTo
  <1>2. ASSUME NEW p \in 1 .. Len(v)
        PROVE  v[p].slot \in Slot /\ v[p].val = h[v[p].slot] /\ v[p] = VersionOf(h, v[p].slot)
    <2>1. PICK s \in Slot : v[p] = VersionOf(h, s)
      BY <1>1 DEF AllVersions
    <2>2. v[p].slot = s /\ v[p].val = h[s]
      BY <2>1 DEF VersionOf
    <2>3. QED
      BY <2>1, <2>2
  <1>3. QED
    BY <1>1, <1>2

SinceStep(v, p, since) == IF KindOf(v[p].val, Prev(v, p), since) = "full" THEN 0 ELSE since + 1

CountsSince(v) ==
    /\ SinceFull(v)[0] = 0
    /\ \A p \in 1 .. Len(v) : /\ SinceFull(v)[p] = SinceStep(v, p, SinceFull(v)[p - 1])
                              /\ SinceFull(v)[p - 1] \in Nat

\* The count ChainOf keeps exists.
LEMMA SinceExists ==
    ASSUME NEW v, Len(v) \in Nat
    PROVE  CountsSince(v)
  <1> DEFINE n == Len(v)
             G == [u \in (1 .. n) \X Nat |-> SinceStep(v, u[1], u[2])]
             next(x) == [p \in 0 .. n |-> IF p = 0 THEN 0
                            ELSE IF KindOf(v[p].val, Prev(v, p), x[p - 1]) = "full"
                                 THEN 0 ELSE x[p - 1] + 1]
  <1>1. G \in [(1 .. n) \X Nat -> Nat]
    <2>1. \A u \in (1 .. n) \X Nat : SinceStep(v, u[1], u[2]) \in Nat
      BY DEF SinceStep
    <2> HIDE DEF n
    <2>2. QED
      BY <2>1
  <1>2. PICK x \in [0 .. n -> Nat] : x[0] = 0 /\ \A p \in 1 .. n : x[p] = G[<<p, x[p - 1]>>]
    <2> HIDE DEF G
    <2>1. QED
      BY <1>1, StepsExist
  <1>3. x = next(x)
    <2>1. ASSUME NEW p \in 0 .. n PROVE x[p] = next(x)[p]
      <3>1. CASE p = 0
        BY <1>2, <3>1
      <3>2. CASE p # 0
        <4>1. p \in 1 .. n /\ p - 1 \in 0 .. n
          BY <3>2
        <4>2. x[p - 1] \in Nat
          BY <1>2, <4>1
        <4>3. G[<<p, x[p - 1]>>] = SinceStep(v, p, x[p - 1])
          BY <4>1, <4>2
        <4>4. x[p] = SinceStep(v, p, x[p - 1])
          BY <1>2, <4>1, <4>3
        <4>5. next(x)[p] = SinceStep(v, p, x[p - 1])
          BY <3>2 DEF SinceStep
        <4>6. QED
          BY <4>4, <4>5
      <3>3. QED
        BY <3>1, <3>2
    <2>2. x = [p \in 0 .. n |-> x[p]] /\ next(x) = [p \in 0 .. n |-> next(x)[p]]
      BY <1>2
    <2> HIDE DEF next
    <2>3. QED
      BY <2>1, <2>2
  <1> DEFINE since[p \in 0 .. n] ==
                IF p = 0 THEN 0
                ELSE IF KindOf(v[p].val, Prev(v, p), since[p - 1]) = "full"
                     THEN 0 ELSE since[p - 1] + 1
  <1>4. SinceFull(v) = since
    BY DEF SinceFull
  <1>5. since = CHOOSE y : y = next(y)
    BY Zenon DEF since
  <1>6. since = next(since)
    <2> HIDE DEF since, next
    <2>1. QED
      BY <1>3, <1>5
  <1> HIDE DEF since
  <1>7. since[0] = 0
    <2>1. next(since)[0] = 0
      OBVIOUS
    <2> HIDE DEF next
    <2>2. QED
      BY <1>6, <2>1
  <1>8. ASSUME NEW p \in 1 .. n PROVE since[p] = SinceStep(v, p, since[p - 1])
    <2>1. next(since)[p] = SinceStep(v, p, since[p - 1])
      BY DEF SinceStep
    <2> HIDE DEF next
    <2>2. QED
      BY <1>6, <2>1
  <1>9. \A p \in 0 .. n : since[p] \in Nat
    <2> DEFINE T == {m \in Nat : m <= n => since[m] \in Nat}
    <2>1. 0 \in T
      BY <1>7
    <2>2. ASSUME NEW m \in T PROVE m + 1 \in T
      <3>1. m \in Nat /\ m + 1 \in Nat
        OBVIOUS
      <3>2. ASSUME m + 1 <= n PROVE since[m + 1] \in Nat
        <4>1. m + 1 \in 1 .. n /\ m + 1 - 1 = m /\ since[m] \in Nat
          BY <3>1, <3>2
        <4>2. since[m + 1] = SinceStep(v, m + 1, since[m])
          BY <1>8, <4>1
        <4>3. QED
          BY <4>1, <4>2 DEF SinceStep
      <3>3. QED
        BY <3>1, <3>2
    <2>3. T = Nat
      <3> HIDE DEF T
      <3>1. T \in SUBSET Nat
        BY DEF T
      <3>2. QED
        BY <2>1, <2>2, <3>1, EveryNumber
    <2>4. QED
      BY <2>3
  <1>10. \A p \in 1 .. n : p - 1 \in 0 .. n
    OBVIOUS
  <1>11. QED
    BY <1>4, <1>7, <1>8, <1>9, <1>10 DEF CountsSince

Rewritten(h, v) ==
    /\ Chain(h, ChainOf(v))
    /\ Len(ChainOf(v)) = Len(v)
    /\ \A p \in 1 .. Len(v) : ChainOf(v)[p].slot = v[p].slot

\* Versions in order, written by ChainOf, are a chain.
LEMMA ChainOfTrue ==
    ASSUME NEW h, IsHistory(h), NEW v, RisingTo(h, v)
    PROVE  Rewritten(h, v)
  <1> DEFINE n == Len(v)
             S == SinceFull(v)
             c == ChainOf(v)
  <1>1. n \in Nat /\ \A p \in 1 .. n : v[p].slot \in Slot /\ v[p].val = h[v[p].slot]
    BY RisingIs
  <1>2. CountsSince(v)
    BY <1>1, SinceExists
  <1>3. \A p \in 1 .. n : S[p] = SinceStep(v, p, S[p - 1]) /\ S[p - 1] \in Nat
    BY <1>2 DEF CountsSince
  <1> HIDE DEF S
  <1>4. c = [p \in 1 .. n |-> Encoded(v[p].slot, v[p].val, Prev(v, p), S[p - 1], TRUE)]
    BY DEF ChainOf, S
  <1> HIDE DEF c
  <1>5. ASSUME NEW p \in 1 .. n
        PROVE  WrittenAs(c[p], v[p].slot, h[v[p].slot], Prev(v, p), S[p - 1], TRUE)
    <2>1. c[p] = Encoded(v[p].slot, h[v[p].slot], Prev(v, p), S[p - 1], TRUE)
      BY <1>1, <1>4
    <2> DEFINE slot == v[p].slot
               base == Prev(v, p)
               since == S[p - 1]
    <2>2. slot \in Slot /\ since \in Nat
      BY <1>1, <1>3
    <2> HIDE DEF slot, base, since
    <2>3. EncodesTrue(h, slot, base, since, TRUE)
      BY <2>2, EncodedIs
    <2>4. QED
      BY <2>1, <2>3 DEF EncodesTrue, slot, base, since
  <1>6. c \in Seq(Recs) /\ Len(c) = n
    <2>1. \A p \in 1 .. n : c[p] \in Recs
      BY <1>5 DEF WrittenAs
    <2>2. DOMAIN c = 1 .. n /\ c = [p \in 1 .. n |-> c[p]]
      BY <1>4
    <2>3. QED
      BY <1>1, <2>1, <2>2
  <1>7. \A p \in 1 .. n : c[p].slot = v[p].slot /\ ~c[p].torn
    BY <1>5 DEF WrittenAs
  <1>8. Rising(c)
    BY <1>6, <1>7 DEF Rising, RisingTo
  <1>9. \A p \in 1 .. n : c[p].kind = KindOf(v[p].val, Prev(v, p), S[p - 1])
    BY <1>1, <1>5 DEF WrittenAs
  <1>10. ASSUME NEW p \in 1 .. n, c[p].kind = "diff"
         PROVE  /\ p > 1 /\ p - 1 \in 1 .. n /\ Prev(v, p) = h[c[p - 1].slot]
                /\ Prev(v, p) # Absent /\ S[p - 1] < FullEvery
    <2>1. Prev(v, p) # Absent /\ S[p - 1] < FullEvery
      BY <1>5, <1>10 DEF WrittenAs
    <2>2. p # 1
      BY <2>1 DEF Prev
    <2>3. p > 1 /\ p - 1 \in 1 .. n
      BY <1>1, <2>2
    <2>4. Prev(v, p) = v[p - 1].val
      BY <2>2 DEF Prev
    <2>5. QED
      BY <1>1, <1>7, <2>1, <2>3, <2>4
  <1>11. ASSUME NEW p \in 1 .. n PROVE RecordTrue(h, c, p)
    <2>1. CASE c[p].kind = "diff"
      BY <1>5, <1>7, <1>10, <2>1 DEF WrittenAs, RecordTrue
    <2>2. CASE c[p].kind # "diff"
      BY <1>5, <1>7, <2>2 DEF WrittenAs, RecordTrue
    <2>3. QED
      BY <2>1, <2>2
  <1>12. \A p \in 1 .. n : \E q \in 1 .. p : c[q].kind # "diff" /\ p - q <= S[p]
    <2> DEFINE Near(p) == \E q \in 1 .. p : c[q].kind # "diff" /\ p - q <= S[p]
               T == {m \in Nat : m \in 1 .. n => Near(m)}
    <2>1. 0 \in T
      OBVIOUS
    <2>2. ASSUME NEW m \in T PROVE m + 1 \in T
      <3> DEFINE p == m + 1
      <3>1. m \in Nat /\ p \in Nat /\ p - 1 = m
        OBVIOUS
      <3>2. ASSUME p \in 1 .. n PROVE Near(p)
        <4>1. S[p] = SinceStep(v, p, S[m]) /\ S[m] \in Nat
          BY <1>3, <3>1, <3>2
        <4>2. S[p] \in Nat
          BY <4>1 DEF SinceStep
        <4>3. CASE c[p].kind # "diff"
          <5>1. p \in 1 .. p /\ p - p <= S[p]
            BY <3>1, <3>2, <4>2
          <5>2. QED
            BY <4>3, <5>1
        <4>4. CASE c[p].kind = "diff"
          <5>1. m \in 1 .. n
            BY <1>10, <3>1, <3>2, <4>4
          <5>2. Near(m)
            BY <5>1
          <5>3. PICK q \in 1 .. m : c[q].kind # "diff" /\ m - q <= S[m]
            BY <5>2
          <5>4. S[p] = S[m] + 1
            <6>1. KindOf(v[p].val, Prev(v, p), S[m]) # "full"
              BY <1>9, <3>1, <3>2, <4>4
            <6>2. QED
              BY <4>1, <6>1 DEF SinceStep
          <5>5. q \in 1 .. p /\ p - q <= S[p]
            BY <3>1, <4>1, <5>3, <5>4
          <5>6. QED
            BY <5>3, <5>5
        <4>5. QED
          BY <4>3, <4>4
      <3> HIDE DEF Near
      <3>3. QED
        BY <3>1, <3>2
    <2>3. T = Nat
      <3> HIDE DEF T
      <3>1. T \in SUBSET Nat
        BY DEF T
      <3>2. QED
        BY <2>1, <2>2, <3>1, EveryNumber
    <2>4. \A p \in 1 .. n : Near(p)
      <3> HIDE DEF Near
      <3>1. QED
        BY <1>1, <2>3
    <2>5. QED
      BY <2>4
  <1>13. ASSUME NEW p \in 1 .. n PROVE ShortRun(c, p)
    <2>1. CASE c[p].kind = "diff"
      <3>1. p - 1 \in 1 .. n /\ S[p - 1] < FullEvery /\ S[p - 1] \in Nat
        BY <1>3, <1>10, <2>1
      <3>2. PICK q \in 1 .. p - 1 : c[q].kind # "diff" /\ p - 1 - q <= S[p - 1]
        BY <1>12, <3>1
      <3>3. q \in 1 .. p /\ p - q <= FullEvery
        BY <1>1, <3>1, <3>2, ChainAssumption
      <3>4. QED
        BY <3>2, <3>3 DEF ShortRun
    <2>2. CASE c[p].kind # "diff"
      <3>1. p \in 1 .. p /\ p - p <= FullEvery
        BY <1>1, ChainAssumption
      <3>2. QED
        BY <2>2, <3>1 DEF ShortRun
    <2>3. QED
      BY <2>1, <2>2
  <1>14. Chain(h, c)
    BY <1>6, <1>8, <1>11, <1>13 DEF Chain
  <1>15. QED
    BY <1>6, <1>7, <1>14 DEF Rewritten, c

Joined(h, f, g) ==
    /\ Chain(h, f \o g)
    /\ Len(f \o g) = Len(f) + Len(g)
    /\ \A p \in 1 .. Len(f) : (f \o g)[p] = f[p]
    /\ \A p \in 1 .. Len(g) : (f \o g)[Len(f) + p] = g[p]

\* A chain of newer versions behind a chain is one chain.
LEMMA ChainsJoin ==
    ASSUME NEW h, NEW f, Chain(h, f), NEW g, Chain(h, g),
           \A s \in SlotsOfLog(f), t \in SlotsOfLog(g) : s < t
    PROVE  Joined(h, f, g)
  <1> DEFINE n == Len(f)
             m == Len(g)
             c == f \o g
  <1>1. f \in Seq(Recs) /\ g \in Seq(Recs) /\ n \in Nat /\ m \in Nat
    BY ChainIs
  <1>2. /\ c \in Seq(Recs) /\ Len(c) = n + m
        /\ \A p \in 1 .. n + m : c[p] = IF p <= n THEN f[p] ELSE g[p - n]
    BY <1>1, ConcatProperties
  <1> HIDE DEF c
  <1>3. \A p \in 1 .. n : p \in 1 .. n + m /\ c[p] = f[p]
    BY <1>1, <1>2
  <1>4. \A p \in 1 .. m : n + p \in 1 .. n + m /\ c[n + p] = g[p]
    <2>1. TAKE p \in 1 .. m
    <2>2. n + p \in 1 .. n + m /\ ~(n + p <= n) /\ n + p - n = p
      BY <1>1
    <2>3. QED
      BY <1>2, <2>2
  <1>5. \A p \in 1 .. n + m : p \in 1 .. n \/ (p - n \in 1 .. m /\ p = n + (p - n))
    BY <1>1
  <1>6. Rising(c)
    <2>1. SUFFICES ASSUME NEW p \in 1 .. n + m, NEW q \in 1 .. n + m, p < q
                   PROVE  c[p].slot < c[q].slot
      BY <1>2 DEF Rising
    <2>2. CASE q \in 1 .. n
      <3>1. p \in 1 .. n
        BY <1>1, <2>1, <2>2
      <3>2. f[p].slot < f[q].slot
        BY <2>1, <2>2, <3>1 DEF Chain, Rising
      <3>3. QED
        BY <1>3, <2>2, <3>1, <3>2
    <2>3. CASE q \notin 1 .. n /\ p \in 1 .. n
      <3>1. q - n \in 1 .. m /\ c[q] = g[q - n]
        BY <1>4, <1>5, <2>3
      <3>2. f[p].slot \in SlotsOfLog(f) /\ g[q - n].slot \in SlotsOfLog(g)
        BY <2>3, <3>1 DEF SlotsOfLog
      <3>3. QED
        BY <1>3, <2>3, <3>1, <3>2
    <2>4. CASE q \notin 1 .. n /\ p \notin 1 .. n
      <3>1. q - n \in 1 .. m /\ p - n \in 1 .. m /\ c[q] = g[q - n] /\ c[p] = g[p - n]
        BY <1>4, <1>5, <2>4
      <3>2. p - n < q - n
        BY <1>1, <2>1
      <3>3. g[p - n].slot < g[q - n].slot
        BY <3>1, <3>2 DEF Chain, Rising
      <3>4. QED
        BY <3>1, <3>3
    <2>5. QED
      BY <2>2, <2>3, <2>4
  <1>7. ASSUME NEW p \in 1 .. n PROVE RecordTrue(h, c, p) /\ ShortRun(c, p)
    <2>1. RecordTrue(h, f, p) /\ ShortRun(f, p)
      BY DEF Chain
    <2>2. c[p] = f[p] /\ (p > 1 => c[p - 1] = f[p - 1])
      BY <1>1, <1>3
    <2>3. RecordTrue(h, c, p)
      BY <2>1, <2>2 DEF RecordTrue
    <2>4. \A q \in 1 .. p : c[q] = f[q]
      BY <1>1, <1>3
    <2>5. ShortRun(c, p)
      BY <2>1, <2>4 DEF ShortRun
    <2>6. QED
      BY <2>3, <2>5
  <1>8. ASSUME NEW p \in 1 .. m PROVE RecordTrue(h, c, n + p) /\ ShortRun(c, n + p)
    <2>1. RecordTrue(h, g, p) /\ ShortRun(g, p)
      BY DEF Chain
    <2>2. c[n + p] = g[p] /\ n + p > n
      BY <1>1, <1>4
    <2>3. p > 1 => c[n + p - 1] = g[p - 1] /\ n + p > 1
      <3>1. HAVE p > 1
      <3>2. p - 1 \in 1 .. m /\ n + (p - 1) = n + p - 1 /\ n + p > 1
        BY <1>1, <3>1
      <3>3. QED
        BY <1>4, <3>2
    <2>4. RecordTrue(h, c, n + p)
      BY <2>1, <2>2, <2>3 DEF RecordTrue
    <2>5. PICK q \in 1 .. p : p - q <= FullEvery /\ g[q].kind # "diff"
      BY <2>1 DEF ShortRun
    <2>6. n + q \in 1 .. n + p /\ n + p - (n + q) <= FullEvery /\ q \in 1 .. m
      BY <1>1, <2>5, ChainAssumption
    <2>7. c[n + q].kind # "diff"
      BY <1>4, <2>5, <2>6
    <2>8. ShortRun(c, n + p)
      BY <2>6, <2>7 DEF ShortRun
    <2>9. QED
      BY <2>4, <2>8
  <1>9. \A p \in 1 .. Len(c) : RecordTrue(h, c, p) /\ ShortRun(c, p)
    <2>1. TAKE p \in 1 .. Len(c)
    <2>2. p \in 1 .. n + m
      BY <1>2
    <2>3. CASE p \in 1 .. n
      BY <1>7, <2>3
    <2>4. CASE p \notin 1 .. n
      <3>1. p - n \in 1 .. m /\ p = n + (p - n)
        BY <1>5, <2>2, <2>4
      <3> DEFINE r == p - n
      <3> HIDE DEF r
      <3>2. RecordTrue(h, c, n + r) /\ ShortRun(c, n + r)
        BY <1>8, <3>1 DEF r
      <3>3. QED
        BY <3>1, <3>2 DEF r
    <2>5. QED
      BY <2>3, <2>4
  <1>10. Chain(h, c)
    BY <1>2, <1>6, <1>9 DEF Chain
  <1>11. QED
    BY <1>2, <1>3, <1>4, <1>10 DEF Joined, c

\* The slots of a set of versions.
SlotsOf(V) == {v.slot : v \in V}

OrderedTrue(h, V) ==
    /\ RisingTo(h, InOrder(V))
    /\ {InOrder(V)[p] : p \in 1 .. Len(InOrder(V))} = V

\* Versions put in order are as a log has them.
LEMMA InOrderRises ==
    ASSUME NEW h, IsHistory(h), NEW V \in SUBSET AllVersions(h)
    PROVE  OrderedTrue(h, V)
  <1> DEFINE q == InOrder(V)
  <1>1. MaxSlot \in Nat
    BY DEF IsHistory
  <1>2. \A v \in V : v.slot \in 1 .. MaxSlot /\ v = VersionOf(h, v.slot)
    BY DEF AllVersions, VersionOf, Slot
  <1>3. \A v, w \in V : v.slot = w.slot => v = w
    BY <1>2
  <1>4. /\ q \in Seq(V)
        /\ \A i, j \in 1 .. Len(q) : i < j => q[i].slot < q[j].slot
        /\ \A v \in V : \E i \in 1 .. Len(q) : q[i] = v
    <2>1. \A v \in V : v.slot \in 1 .. MaxSlot
      BY <1>2
    <2>2. QED
      BY <1>1, <1>3, <2>1, InOrderProperties
  <1> HIDE DEF q
  <1>5. \A i \in 1 .. Len(q) : q[i] \in V
    BY <1>4, ElementOfSeq
  <1>6. q \in Seq(AllVersions(h))
    BY <1>4, SeqMonotonic
  <1>7. RisingTo(h, q)
    BY <1>4, <1>6 DEF RisingTo
  <1>8. {q[p] : p \in 1 .. Len(q)} = V
    BY <1>4, <1>5
  <1>9. QED
    BY <1>7, <1>8 DEF OrderedTrue, q

SaysWritten(h, v) ==
    /\ VersionsOf(h, ChainOf(v)) = {v[p] : p \in 1 .. Len(v)}
    /\ SlotsOfLog(ChainOf(v)) = {v[p].slot : p \in 1 .. Len(v)}

\* What ChainOf writes reads back as the versions it was given.
LEMMA ChainOfSays ==
    ASSUME NEW h, IsHistory(h), NEW v, RisingTo(h, v)
    PROVE  SaysWritten(h, v)
  <1> DEFINE c == ChainOf(v)
             n == Len(v)
  <1>1. Len(c) = n /\ \A p \in 1 .. n : c[p].slot = v[p].slot
    BY ChainOfTrue DEF Rewritten
  <1>2. \A p \in 1 .. n : v[p] = VersionOf(h, v[p].slot)
    BY RisingIs
  <1> HIDE DEF c, n
  <1>3. VersionsOf(h, c) = {v[p] : p \in 1 .. n}
    BY <1>1, <1>2 DEF VersionsOf
  <1>4. SlotsOfLog(c) = {v[p].slot : p \in 1 .. n}
    BY <1>1 DEF SlotsOfLog
  <1>5. QED
    BY <1>3, <1>4 DEF SaysWritten, c, n

LEMMA SlotsOfVersions ==
    ASSUME NEW h, NEW f
    PROVE  SlotsOf(VersionsOf(h, f)) = SlotsOfLog(f)
  <1> DEFINE V == VersionsOf(h, f)
  <1>1. \A p \in 1 .. Len(f) : VersionOf(h, f[p].slot) \in V
    BY DEF VersionsOf
  <1>2. \A v \in V : \E p \in 1 .. Len(f) : v = VersionOf(h, f[p].slot)
    BY DEF VersionsOf
  <1> HIDE DEF V
  <1>3. \A v \in V : v.slot \in SlotsOfLog(f)
    <2>1. TAKE v \in V
    <2>2. PICK p \in 1 .. Len(f) : v = VersionOf(h, f[p].slot)
      BY <1>2
    <2>3. v.slot = f[p].slot
      BY <2>2 DEF VersionOf
    <2>4. QED
      BY <2>3 DEF SlotsOfLog
  <1>4. \A p \in 1 .. Len(f) : \E v \in V : v.slot = f[p].slot
    <2>1. TAKE p \in 1 .. Len(f)
    <2>2. VersionOf(h, f[p].slot).slot = f[p].slot
      BY DEF VersionOf
    <2>3. QED
      BY <1>1, <2>2
  <1>5. SlotsOf(V) = SlotsOfLog(f)
    BY <1>3, <1>4 DEF SlotsOf, SlotsOfLog
  <1>6. QED
    BY <1>5 DEF V

LEMMA VersionsAreAll ==
    ASSUME NEW h, NEW f, Chain(h, f)
    PROVE  VersionsOf(h, f) \subseteq AllVersions(h) /\ SlotsOfLog(f) \subseteq Slot
  <1>1. \A p \in 1 .. Len(f) : f[p].slot \in Slot
    BY RecordIs DEF Chain
  <1>2. QED
    BY <1>1 DEF VersionsOf, AllVersions, SlotsOfLog

SaysHeld(h, f, w) ==
    /\ Len(Versions(w)) = Len(f)
    /\ RisingTo(h, Versions(w))
    /\ ToSet(Versions(w)) = VersionsOf(h, f)
    /\ SlotsIn(Versions(w)) = SlotsOfLog(f)

\* What a file reads as.
LEMMA VersionsSay ==
    ASSUME NEW h, IsHistory(h), NEW f, Chain(h, f), NEW w, HoldsLog(w, f)
    PROVE  SaysHeld(h, f, w)
  <1> DEFINE n == Len(f)
             v == Versions(w)
  <1>1. v = [p \in 1 .. n |-> VersionOf(h, f[p].slot)]
    BY VersionsOfChain DEF VersionsTrue, TrueVersions
  <1>2. n \in Nat /\ f \in Seq(Recs)
    BY ChainIs
  <1> HIDE DEF v
  <1>3. DOMAIN v = 1 .. n /\ Len(v) = n /\ \A p \in 1 .. n : v[p] = VersionOf(h, f[p].slot)
    BY <1>1, <1>2
  <1>4. \A p \in 1 .. n : v[p] \in AllVersions(h) /\ v[p].slot = f[p].slot
    <2>1. \A p \in 1 .. n : f[p].slot \in Slot
      BY <1>2, RecordIs
    <2>2. QED
      BY <1>3, <2>1 DEF AllVersions, VersionOf
  <1>5. v \in Seq(AllVersions(h))
    BY <1>1, <1>2, <1>3, <1>4
  <1>6. \A i, j \in 1 .. n : i < j => v[i].slot < v[j].slot
    BY <1>4 DEF Chain, Rising
  <1>7. RisingTo(h, v)
    BY <1>3, <1>5, <1>6 DEF RisingTo
  <1>8. ToSet(v) = VersionsOf(h, f)
    BY <1>3 DEF ToSet, VersionsOf
  <1>9. SlotsIn(v) = SlotsOfLog(f)
    BY <1>3, <1>4 DEF SlotsIn, SlotsOfLog
  <1>10. QED
    BY <1>3, <1>7, <1>8, <1>9 DEF SaysHeld, v

-----------------------------------------------------------------------------
(* The inductive invariant, over what the variables hold: h is the history,  *)
(* f the file, i the index, w the versions held, j what a thread does.       *)

SaneOf(f) == IF f # <<>> /\ f[Len(f)].torn THEN SubSeq(f, 1, Len(f) - 1) ELSE f

\* The log is a chain, torn at its end only where crashes are looked at.
FileTrue(h, f, w, pt) ==
    /\ h \in Histories
    /\ HoldsLog(f, SaneOf(f))
    /\ Chain(h, SaneOf(f))
    /\ pt = "one_writer" => Chain(h, f)
    /\ w = VersionsOf(h, SaneOf(f))

Recordings == {"base", "stat", "append", "push", "digest"}
Unsettled == {"push", "reindex", "mergeindex", "chainindex"}

IsJob(j) ==
    /\ j = [pc |-> j.pc, slot |-> j.slot, known |-> j.known, sinceFull |-> j.sinceFull,
            rec |-> j.rec, off |-> j.off, buf |-> j.buf, gone |-> j.gone]
    /\ j.known \in BOOLEAN

\* A record on its way is the next of the chain, then its last.
RecordingTrue(j, h, f, i) ==
    /\ j.pc \in Recordings => j.slot \in Slot /\ Chain(h, f)
    /\ j.pc \in {"base", "stat", "append"} => \A s \in SlotsOfLog(f) : s < j.slot
    /\ j.pc = "base" =>
         /\ Len(f) # 0 /\ i = Index(f, Len(f))
         /\ j.sinceFull = TrailingDiffs(i)
    /\ j.pc \in {"stat", "append"} =>
         /\ j.rec \in Recs /\ Chain(h, Append(f, j.rec))
         /\ j.rec.slot = j.slot /\ j.rec.known = (j.known \/ j.rec.kind = "absent")
    /\ j.pc = "append" => j.off = Len(f)
    /\ j.pc = "push" =>
         /\ j.off \in Nat /\ Len(f) = j.off + 1 /\ i = Index(f, j.off)
         /\ j.rec = f[Len(f)] /\ j.slot = j.rec.slot
    /\ j.pc = "digest" => Len(f) # 0 /\ j.slot = f[Len(f)].slot

\* The newest state read is the newest there is.
AskingTrue(j, h, f) ==
    /\ j.pc \in {"ask", "fill"} => j.slot \in Slot /\ Chain(h, f) /\ Len(f) # 0
    /\ j.pc = "fill" => j.rec = h[f[Len(f)].slot]

\* A rewrite keeps what the tiers keep.
ThinningTrue(j, h, f, w) ==
    /\ j.pc = "rename" =>
         /\ Chain(h, j.buf)
         /\ j.gone = SlotsOf(w) \ SlotsOfLog(j.buf)
         /\ \E n \in Slot : VersionsOf(h, j.buf) = {v \in w : IsKept(SlotsOf(w), v.slot, n)}
    /\ j.pc \in {"reindex", "mergeindex"} => f = j.buf /\ Chain(h, f)

\* An import keeps every version.
RestoringTrue(j, h, f, i, w) ==
    /\ j.pc = "merge" => RisingTo(h, j.buf)
    /\ j.pc = "mergerename" => Chain(h, j.buf) /\ w \subseteq VersionsOf(h, j.buf)
    /\ j.pc \in {"chainstat", "chainappend"} =>
         /\ Chain(h, f) /\ Chain(h, j.buf)
         /\ \A s \in SlotsOfLog(f), t \in SlotsOfLog(j.buf) : s < t
    /\ j.pc = "chainappend" => j.off = Len(f)
    /\ j.pc = "chainindex" =>
         /\ Chain(h, f) /\ j.off \in Nat /\ i = Index(f, j.off)
         /\ j.buf \in Seq(Recs) /\ Len(f) = j.off + Len(j.buf)
         /\ \A p \in 1 .. Len(j.buf) : j.buf[p] = f[j.off + p]

JobTrue(j, h, f, i, w) ==
    /\ IsJob(j)
    /\ RecordingTrue(j, h, f, i) /\ AskingTrue(j, h, f)
    /\ ThinningTrue(j, h, f, w) /\ RestoringTrue(j, h, f, i, w)

\* Only one thread has the log in hand.
ThreadsTrue ==
    /\ DOMAIN th = Thread
    /\ part \in {"recorder", "one_writer"}
    /\ \A t, u \in Thread : t # u => th[t].pc = "idle" \/ th[u].pc = "idle"
    /\ \A t \in Thread : JobTrue(th[t], truth, file, idx, held)
    /\ th[Recorder].known
    /\ part = "recorder" => \A t \in Requests : th[t].pc = "idle"
    /\ part = "one_writer" =>
         \A t \in Thread : th[t].pc \in Recordings \cup {"idle", "restore", "ask", "fill"}

\* The index is the log's, but for a thread about to set it.
Settled == \A t \in Thread : th[t].pc \notin Unsettled
IdxTyped(i) == \A p \in DOMAIN i : i[p].slot \in Slot /\ i[p].pos \in Nat \ {0}
IdxTrue ==
    /\ IdxTyped(idx)
    /\ Settled => idx = Index(SaneOf(file), Len(SaneOf(file)))

\* The digest is that of the index's newest version.
DigestOf(d, h, i) == d = Nobody \/ (Len(i) # 0 /\ d = h[i[Len(i)].slot])
LatestTrue ==
    /\ latest \in {truth[s] : s \in Slot} \cup {Nobody}
    /\ (\A t \in Thread : th[t].pc # "digest") => DigestOf(latest, truth, idx)

AckedTrue(a, f, i, pt) ==
    /\ a \subseteq SlotsOfLog(SaneOf(f))
    /\ pt = "one_writer" => a \subseteq SlotsOfLog(i)

InferredTrue(s, f, pt) ==
    /\ pt = "recorder" => s = {}
    /\ pt = "one_writer" =>
         /\ s \subseteq SlotsOfLog(f)
         /\ \A p \in 1 .. Len(f) : f[p].slot \in s => ~f[p].known

\* A lookup has the index of the first records of the file.
ReaderTrue(r, h, f, pt) ==
    /\ pt = "recorder" => r.pc = "idle"
    /\ r.pc = "read" =>
         /\ r.slot \in Slot /\ r.floor \in 0 .. r.slot
         /\ \E k \in 0 .. Len(f) : r.ents = Index(f, k)
         /\ r.floor # 0 => r.floor \in SlotsOfLog(r.ents)
    /\ r.pc = "read done" =>
         /\ r.ans.slot >= r.floor /\ r.ans.slot <= r.slot
         /\ r.ans.slot # 0 => r.ans.val = h[r.ans.slot]

LogInv ==
    /\ FileTrue(truth, file, held, part) /\ ThreadsTrue /\ IdxTrue /\ LatestTrue
    /\ AckedTrue(acked, file, idx, part)
    /\ InferredTrue(inferred, file, part)
    /\ ReaderTrue(rd, truth, file, part)

LEMMA SaneChain ==
    ASSUME NEW h, NEW f, Chain(h, f)
    PROVE  SaneOf(f) = f /\ HoldsLog(f, f)
  <1>1. f \in Seq(Recs) /\ Len(f) \in Nat /\ \A p \in 1 .. Len(f) : ~f[p].torn
    BY ChainIs
  <1>2. f # <<>> => Len(f) \in 1 .. Len(f)
    BY <1>1
  <1>3. QED
    BY <1>1, <1>2 DEF SaneOf, HoldsLog

\* A torn record behind a chain leaves the chain.
LEMMA SaneTorn ==
    ASSUME NEW h, NEW f, Chain(h, f), NEW r \in Recs, r.torn
    PROVE  SaneOf(Append(f, r)) = f /\ HoldsLog(Append(f, r), f)
  <1> DEFINE g == Append(f, r)
             n == Len(f)
  <1>1. f \in Seq(Recs) /\ n \in Nat
    BY ChainIs
  <1>2. /\ g \in Seq(Recs) /\ g # <<>> /\ Len(g) = n + 1 /\ g[n + 1] = r
        /\ \A p \in 1 .. n : g[p] = f[p]
    BY <1>1, AppendProperties
  <1> HIDE DEF g
  <1>3. SaneOf(g) = SubSeq(g, 1, n)
    BY <1>1, <1>2 DEF SaneOf
  <1>4. /\ SubSeq(g, 1, n) \in Seq(Recs) /\ Len(SubSeq(g, 1, n)) = n
        /\ \A p \in 1 .. n : SubSeq(g, 1, n)[p] = f[p]
    <2>1. \A p \in 1 .. n : g[p] \in Recs
      BY <1>1, <1>2, ElementOfSeq
    <2>2. 1 \in Int /\ n \in Int
      BY <1>1
    <2>3. /\ SubSeq(g, 1, n) \in Seq(Recs)
          /\ Len(SubSeq(g, 1, n)) = IF 1 <= n THEN n - 1 + 1 ELSE 0
          /\ \A p \in 1 .. n - 1 + 1 : SubSeq(g, 1, n)[p] = g[1 + p - 1]
      BY <2>1, <2>2, SubSeqProperties
    <2>4. \A p \in 1 .. n : p \in 1 .. n - 1 + 1 /\ 1 + p - 1 = p
      BY <1>1
    <2>5. QED
      BY <1>1, <1>2, <2>3, <2>4
  <1>5. SubSeq(g, 1, n) = f
    <2> DEFINE s == SubSeq(g, 1, n)
    <2> HIDE DEF s
    <2>1. s \in Seq(Recs) /\ Len(s) = Len(f) /\ \A p \in 1 .. Len(s) : s[p] = f[p]
      BY <1>4 DEF s
    <2>2. s = f
      BY <1>1, <2>1, SeqEqual
    <2>3. QED
      BY <2>2 DEF s
  <1>6. HoldsLog(g, f)
    BY <1>2 DEF HoldsLog
  <1>7. QED
    BY <1>3, <1>5, <1>6 DEF g

-----------------------------------------------------------------------------
(* Steps.                                                                    *)

LEMMA IdleJobTrue ==
    ASSUME NEW j, IsJob(j), j.pc \in {"idle", "restore"}, NEW h, NEW f, NEW i, NEW w
    PROVE  JobTrue(j, h, f, i, w)
  BY DEF JobTrue, RecordingTrue, AskingTrue, ThinningTrue, RestoringTrue, Recordings

\* Thread t alone has moved.
Moved(t) ==
    /\ DOMAIN th' = Thread
    /\ \A u \in Thread \ {t} : th'[u] = th[u]
    /\ part' = part
    /\ part = "recorder" => t = Recorder
    /\ part = "one_writer" => th'[t].pc \in Recordings \cup {"idle", "restore", "ask", "fill"}
    /\ t = Recorder => th'[t].known

\* Where one thread moves, what is said of the threads is said of that one.
LEMMA ThreadStep ==
    ASSUME LogInv, NEW t \in Thread, Alone(t), Moved(t),
           FileTrue(truth', file', held', part'),
           JobTrue(th'[t], truth', file', idx', held'),
           IdxTyped(idx'),
           th'[t].pc \notin Unsettled => idx' = Index(SaneOf(file'), Len(SaneOf(file'))),
           latest' \in {truth'[s] : s \in Slot} \cup {Nobody},
           th'[t].pc # "digest" => DigestOf(latest', truth', idx'),
           AckedTrue(acked', file', idx', part'),
           InferredTrue(inferred', file', part'),
           ReaderTrue(rd', truth', file', part')
    PROVE  LogInv'
  <1>1. /\ ThreadsTrue /\ Recorder \in Thread
        /\ \A u \in Thread : u # t => th'[u] = th[u] /\ th[u].pc = "idle"
    BY DEF LogInv, Moved, Alone, Thread
  <1>2. \A u \in Thread : JobTrue(th'[u], truth', file', idx', held')
    <2>1. TAKE u \in Thread
    <2>2. CASE u = t
      BY <2>2
    <2>3. CASE u # t
      <3>1. th'[u].pc = "idle" /\ IsJob(th'[u])
        BY <1>1, <2>3 DEF ThreadsTrue, JobTrue
      <3>2. QED
        BY <3>1, IdleJobTrue
    <2>4. QED
      BY <2>2, <2>3
  <1>3. ThreadsTrue'
    <2>1. \A u, v \in Thread : u # v => th'[u].pc = "idle" \/ th'[v].pc = "idle"
      BY <1>1
    <2>2. th'[Recorder].known
      BY <1>1 DEF ThreadsTrue, Moved
    <2>3. part = "recorder" => \A u \in Requests : th'[u].pc = "idle"
      BY <1>1, LogAssumption DEF Moved, Thread
    <2>4. part = "one_writer" =>
            \A u \in Thread : th'[u].pc \in Recordings \cup {"idle", "restore", "ask", "fill"}
      BY <1>1 DEF Moved
    <2>5. DOMAIN th' = Thread /\ part' = part /\ part \in {"recorder", "one_writer"}
      BY <1>1 DEF Moved, ThreadsTrue
    <2>6. QED
      BY <1>2, <2>1, <2>2, <2>3, <2>4, <2>5 DEF ThreadsTrue
  <1>4. IdxTrue'
    BY DEF IdxTrue, Settled
  <1>5. LatestTrue'
    BY DEF LatestTrue
  <1>6. QED
    BY <1>3, <1>4, <1>5 DEF LogInv

LEMMA QuietStep ==
    ASSUME LogInv, NEW t \in Thread, Alone(t), Moved(t),
           UNCHANGED <<truth, logVars, rd, acked, inferred>>,
           th[t].pc \notin Unsettled \cup {"digest"},
           th'[t].pc \notin Unsettled \cup {"digest"},
           JobTrue(th'[t], truth, file, idx, held)
    PROVE  LogInv'
  <1>1. /\ truth' = truth /\ file' = file /\ held' = held /\ idx' = idx /\ latest' = latest
        /\ rd' = rd /\ acked' = acked /\ inferred' = inferred /\ part' = part
    BY DEF logVars, Moved
  <1>2. \A u \in Thread : th[u].pc \notin Unsettled \cup {"digest"}
    <2>1. \A u \in Thread : u # t => th[u].pc = "idle"
      BY DEF Alone
    <2>2. QED
      BY <2>1 DEF Unsettled
  <1>3. idx = Index(SaneOf(file), Len(SaneOf(file))) /\ IdxTyped(idx)
    BY <1>2 DEF LogInv, IdxTrue, Settled
  <1>4. latest \in {truth[s] : s \in Slot} \cup {Nobody} /\ DigestOf(latest, truth, idx)
    BY <1>2 DEF LogInv, LatestTrue
  <1>5. FileTrue(truth', file', held', part')
    BY <1>1 DEF LogInv
  <1>6. JobTrue(th'[t], truth', file', idx', held')
    BY <1>1
  <1>7. AckedTrue(acked', file', idx', part')
    BY <1>1 DEF LogInv
  <1>8. InferredTrue(inferred', file', part')
    BY <1>1 DEF LogInv
  <1>9. ReaderTrue(rd', truth', file', part')
    BY <1>1 DEF LogInv
  <1>10. latest' \in {truth'[s] : s \in Slot} \cup {Nobody} /\ DigestOf(latest', truth', idx')
    BY <1>1, <1>4
  <1>11. IdxTyped(idx') /\ idx' = Index(SaneOf(file'), Len(SaneOf(file')))
    BY <1>1, <1>3
  <1>12. QED
    BY <1>5, <1>6, <1>7, <1>8, <1>9, <1>10, <1>11, ThreadStep

\* What a lookup of the newest slot gives.
NewestIs(h, f, w) == VersionAt(Index(f, Len(f)), w, NewestSlot).val = h[f[Len(f)].slot]

LEMMA NewestRead ==
    ASSUME NEW h, IsHistory(h), NEW f, Chain(h, f), NEW w, BeginsWith(w, f), Len(f) # 0
    PROVE  NewestIs(h, f, w)
  <1> DEFINE n == Len(f)
             s == NewestSlot
             v == VersionAt(Index(f, n), w, s)
  <1>1. n \in Nat /\ n # 0 /\ f \in Seq(Recs) /\ n \in 1 .. n
    BY ChainIs
  <1>2. s \in Nat /\ n \in 0 .. Len(f) /\ \A q \in Slot : q <= s
    BY <1>1 DEF IsHistory, NewestSlot, Slot
  <1>3. \A p \in 1 .. n : f[p].slot \in Slot
    BY <1>1, RecordIs
  <1> HIDE DEF s
  <1>4. LookedUp(h, f, w, n, s)
    BY <1>2, LookupFinds
  <1>5. Found(h, f, n, s, v)
    BY <1>4 DEF LookedUp
  <1>6. ~(\A p \in 1 .. n : ~(f[p].slot <= s))
    BY <1>1, <1>2, <1>3
  <1> HIDE DEF v, n
  <1>7. PICK p \in 1 .. n : NewestAt(f, n, s, p) /\ v.val = h[f[p].slot]
    BY <1>5, <1>6 DEF Found
  <1>8. p = n
    <2>1. n <= p
      BY <1>1, <1>2, <1>3, <1>7 DEF NewestAt
    <2>2. QED
      BY <1>1, <2>1
  <1>9. QED
    BY <1>7, <1>8 DEF NewestIs, v, s, n

\* All of a chain is older than what is newer than its last record.
LEMMA LastIsNewest ==
    ASSUME NEW h, NEW f, Chain(h, f), NEW s \in Slot, MaxSlot \in Nat,
           Len(f) = 0 \/ f[Len(f)].slot < s
    PROVE  \A q \in SlotsOfLog(f) : q < s
  <1>1. f \in Seq(Recs) /\ Len(f) \in Nat
    BY ChainIs
  <1>2. ASSUME NEW p \in 1 .. Len(f) PROVE f[p].slot < s
    <2>1. Len(f) \in 1 .. Len(f) /\ f[Len(f)].slot < s
      BY <1>1
    <2>2. CASE p = Len(f)
      BY <2>1, <2>2
    <2>3. CASE p # Len(f)
      <3>1. p < Len(f)
        BY <1>1, <2>3
      <3>2. f[p].slot < f[Len(f)].slot
        BY <2>1, <3>1 DEF Chain, Rising
      <3>3. f[p].slot \in Slot /\ f[Len(f)].slot \in Slot
        BY <1>1, <2>1, RecordIs
      <3>4. f[p].slot \in Nat /\ f[Len(f)].slot \in Nat /\ s \in Nat
        BY <3>3 DEF Slot
      <3>5. QED
        BY <2>1, <3>2, <3>4
    <2>4. QED
      BY <2>2, <2>3
  <1>3. QED
    BY <1>2 DEF SlotsOfLog

\* A call that begins to record.
LEMMA RecordingJob ==
    ASSUME IsHistory(truth), Chain(truth, file), idx = Index(file, Len(file)),
           NEW s \in Slot, NEW known \in BOOLEAN
    PROVE  /\ JobTrue(Recording(s, known), truth, file, idx, held)
           /\ Recording(s, known).pc \in {"idle", "base", "stat"}
           /\ known => Recording(s, known).known
  <1> DEFINE n == Len(file)
             d == TrailingDiffs(idx)
             r == Encoded(s, truth[s], Absent, d, known)
             step == IF idx # <<>> /\ Last(idx).kind # "absent" THEN "base" ELSE "stat"
             j == [pc |-> step, slot |-> s, known |-> known, sinceFull |-> d,
                   rec |-> r, off |-> 0, buf |-> <<>>, gone |-> {}]
  <1>1. file \in Seq(Recs) /\ n \in Nat /\ MaxSlot \in Nat
    BY ChainIs DEF IsHistory
  <1>2. Len(idx) = n /\ idx \in Seq({Entry(file[p], p) : p \in 1 .. n})
        /\ \A p \in 1 .. n : idx[p].slot = file[p].slot /\ idx[p].kind = file[p].kind
    <2>1. Len(idx) = n /\ \A p \in 1 .. n : idx[p].slot = file[p].slot /\ idx[p].kind = file[p].kind
      BY <1>1, IndexIs
    <2>2. idx \in Seq({Entry(file[p], p) : p \in 1 .. n})
      BY <1>1 DEF Index
    <2>3. QED
      BY <2>1, <2>2
  <1>3. (idx # <<>>) <=> (n # 0)
    BY <1>2
  <1>4. Last(idx) = idx[n]
    BY <1>2 DEF Last
  <1>5. CASE NotNewer(s)
    <2>1. Recording(s, known) = Idle
      BY <1>5 DEF Recording
    <2>2. IsJob(Idle) /\ Idle.pc = "idle" /\ Idle.known
      BY DEF IsJob, Idle, Job
    <2>3. JobTrue(Idle, truth, file, idx, held)
      BY <2>2, IdleJobTrue
    <2>4. QED
      BY <2>1, <2>2, <2>3
  <1>6. CASE ~NotNewer(s)
    <2>1. Recording(s, known) = j
      BY <1>6 DEF Recording, Job
    <2>2. n # 0 => file[n].slot < s
      <3>1. HAVE n # 0
      <3>2. ~(file[n].slot >= s)
        BY <1>1, <1>2, <1>3, <1>4, <1>6, <3>1 DEF NotNewer
      <3>3. file[n].slot \in Slot
        BY <1>1, <3>1, RecordIs
      <3>4. file[n].slot \in Nat /\ s \in Nat
        BY <3>3 DEF Slot
      <3>5. QED
        BY <3>2, <3>4
    <2>3. \A q \in SlotsOfLog(file) : q < s
      BY <1>1, <2>2, LastIsNewest
    <2>4. d \in Nat
      BY TrailingOfChain DEF TrailingFits
    <2>5. Chain(truth, Append(file, r))
      <3>1. MayExtend(truth, file, s, Absent, d)
        BY <2>3 DEF MayExtend, SlotsOfLog
      <3>2. Extends(truth, file, s, Absent, d, known)
        BY <2>4, <3>1, EncodedExtends
      <3>3. QED
        BY <3>2 DEF Extends
    <2>6. r \in Recs /\ r.slot = s /\ r.known = (known \/ r.kind = "absent")
      <3>1. EncodesTrue(truth, s, Absent, d, known)
        BY <2>4, EncodedIs
      <3>2. QED
        BY <3>1 DEF EncodesTrue, WrittenAs
    <2> HIDE DEF r, d
    <2>7. IsJob(j) /\ j.pc \in {"base", "stat"} /\ j.known = known
      BY DEF IsJob
    <2>8. j.pc = "base" => n # 0
      BY <1>3
    <2>9. RecordingTrue(j, truth, file, idx)
      BY <2>3, <2>5, <2>6, <2>7, <2>8 DEF RecordingTrue, d
    <2>10. AskingTrue(j, truth, file) /\ ThinningTrue(j, truth, file, held)
           /\ RestoringTrue(j, truth, file, idx, held)
      BY <2>7 DEF AskingTrue, ThinningTrue, RestoringTrue
    <2> HIDE DEF j
    <2>11. QED
      BY <2>1, <2>7, <2>9, <2>10 DEF JobTrue
  <1>7. QED
    BY <1>5, <1>6

\* What the invariant says at any time, ...
LEMMA Here ==
    ASSUME LogInv
    PROVE  /\ truth \in Histories /\ IsHistory(truth) /\ MaxSlot \in Nat
           /\ HoldsLog(file, SaneOf(file)) /\ Chain(truth, SaneOf(file))
           /\ BeginsWith(file, SaneOf(file))
           /\ held = VersionsOf(truth, SaneOf(file))
           /\ Chain(truth, file) => SaneOf(file) = file
           /\ DOMAIN th = Thread /\ th[Recorder].known
           /\ \A t \in Thread : /\ JobTrue(th[t], truth, file, idx, held) /\ IsJob(th[t])
                                /\ th[t].known \in BOOLEAN
           /\ IdxTyped(idx)
  <1>1. truth \in Histories /\ IsHistory(truth)
    BY HistoriesAre DEF LogInv, FileTrue
  <1>2. /\ HoldsLog(file, SaneOf(file)) /\ Chain(truth, SaneOf(file))
        /\ held = VersionsOf(truth, SaneOf(file))
    BY DEF LogInv, FileTrue
  <1>3. BeginsWith(file, SaneOf(file))
    BY <1>2, HoldsBegins
  <1>4. Chain(truth, file) => SaneOf(file) = file
    BY SaneChain
  <1>5. /\ DOMAIN th = Thread /\ th[Recorder].known /\ IdxTyped(idx)
        /\ \A t \in Thread : JobTrue(th[t], truth, file, idx, held)
    BY DEF LogInv, ThreadsTrue, IdxTrue
  <1>6. \A t \in Thread : IsJob(th[t]) /\ th[t].known \in BOOLEAN
    BY <1>5 DEF JobTrue, IsJob
  <1>7. QED
    BY <1>1, <1>2, <1>3, <1>4, <1>5, <1>6 DEF IsHistory

\* ... and where the one thread at work is not about to set the index.
LEMMA HereSettled ==
    ASSUME LogInv, NEW t \in Thread, Alone(t), th[t].pc \notin Unsettled
    PROVE  /\ idx = Index(SaneOf(file), Len(SaneOf(file)))
           /\ Chain(truth, file) => idx = Index(file, Len(file))
           /\ th[t].pc # "digest" => DigestOf(latest, truth, idx)
  <1>1. \A u \in Thread : th[u].pc \notin Unsettled /\ (u # t => th[u].pc # "digest")
    BY DEF Alone, Unsettled
  <1>2. idx = Index(SaneOf(file), Len(SaneOf(file)))
    BY <1>1 DEF LogInv, IdxTrue, Settled
  <1>3. Chain(truth, file) => idx = Index(file, Len(file))
    BY <1>2, Here
  <1>4. th[t].pc # "digest" => DigestOf(latest, truth, idx)
    BY <1>1 DEF LogInv, LatestTrue
  <1>5. QED
    BY <1>2, <1>3, <1>4

LEMMA GotoIs ==
    ASSUME DOMAIN th = Thread, NEW t \in Thread, NEW job, Goto(t, job)
    PROVE  /\ DOMAIN th' = Thread /\ th'[t] = job
           /\ \A u \in Thread \ {t} : th'[u] = th[u]
  BY DEF Goto

\* Job k is j but for what is set.
SetIn(j, k, pc, rec, off) ==
    /\ IsJob(k)
    /\ k.pc = pc /\ k.rec = rec /\ k.off = off
    /\ k.slot = j.slot /\ k.known = j.known /\ k.sinceFull = j.sinceFull
    /\ k.buf = j.buf /\ k.gone = j.gone

JobWith(j, pc, rec, off) ==
    [pc |-> pc, slot |-> j.slot, known |-> j.known, sinceFull |-> j.sinceFull,
     rec |-> rec, off |-> off, buf |-> j.buf, gone |-> j.gone]

LEMMA JobSet ==
    ASSUME NEW j, IsJob(j), NEW k, NEW pc, NEW rec, NEW off, k = JobWith(j, pc, rec, off)
    PROVE  SetIn(j, k, pc, rec, off)
  BY DEF IsJob, JobWith, SetIn

LEMMA SetPc ==
    ASSUME NEW j, IsJob(j), NEW k, NEW x, k = [j EXCEPT !.pc = x]
    PROVE  SetIn(j, k, x, j.rec, j.off)
  <1>1. k = JobWith(j, x, j.rec, j.off)
    BY DEF IsJob, JobWith
  <1>2. QED
    BY <1>1, JobSet

LEMMA SetOff ==
    ASSUME NEW j, IsJob(j), NEW k, NEW x, NEW y, k = [j EXCEPT !.pc = x, !.off = y]
    PROVE  SetIn(j, k, x, j.rec, y)
  <1> DEFINE m == [j EXCEPT !.pc = x]
  <1>1. m = JobWith(j, x, j.rec, j.off)
    BY DEF IsJob, JobWith
  <1> HIDE DEF m
  <1>2. [m EXCEPT !.off = y] = JobWith(j, x, j.rec, y)
    BY <1>1 DEF JobWith
  <1>3. k = JobWith(j, x, j.rec, y)
    BY <1>2 DEF m
  <1>4. QED
    BY <1>3, JobSet

LEMMA SetRec ==
    ASSUME NEW j, IsJob(j), NEW k, NEW x, NEW y, k = [j EXCEPT !.pc = x, !.rec = y]
    PROVE  SetIn(j, k, x, y, j.off)
  <1> DEFINE m == [j EXCEPT !.pc = x]
  <1>1. m = JobWith(j, x, j.rec, j.off)
    BY DEF IsJob, JobWith
  <1> HIDE DEF m
  <1>2. [m EXCEPT !.rec = y] = JobWith(j, x, y, j.off)
    BY <1>1 DEF JobWith
  <1>3. k = JobWith(j, x, y, j.off)
    BY <1>2 DEF m
  <1>4. QED
    BY <1>3, JobSet

\* A thread whose turn it is.
Turn(t) == Alone(t) /\ part' = part /\ (part = "recorder" => t = Recorder)

WriterPcs == Recordings \cup {"idle", "restore", "ask", "fill"}

LEMMA TurnMoves ==
    ASSUME LogInv, NEW t \in Thread, Turn(t), NEW job, Goto(t, job),
           part = "one_writer" => job.pc \in WriterPcs,
           t = Recorder => job.known
    PROVE  Moved(t) /\ th'[t] = job
  <1>1. /\ DOMAIN th' = Thread /\ th'[t] = job
        /\ \A u \in Thread \ {t} : th'[u] = th[u]
    BY Here, GotoIs
  <1>2. QED
    BY <1>1 DEF Moved, Turn, WriterPcs

-----------------------------------------------------------------------------
(* record_with_balance.                                                      *)

LEMMA StepStartRecord ==
    ASSUME LogInv, NEW t \in Thread, Turn(t), part = "one_writer",
           NEW s \in Slot, NEW known \in BOOLEAN, StartRecord(t, s, known)
    PROVE  LogInv'
  <1> DEFINE job == Recording(s, known)
  <1>1. /\ th[t].pc = "idle" /\ t # Recorder /\ Goto(t, job)
        /\ UNCHANGED <<truth, logVars, rd, acked, inferred>>
    BY LogAssumption DEF StartRecord
  <1>2. Chain(truth, file) /\ IsHistory(truth)
    BY Here DEF LogInv, FileTrue
  <1>3. idx = Index(file, Len(file))
    BY <1>1, <1>2, HereSettled DEF Turn, Unsettled
  <1>4. JobTrue(job, truth, file, idx, held) /\ job.pc \in {"idle", "base", "stat"}
    BY <1>2, <1>3, RecordingJob
  <1> HIDE DEF job
  <1>5. Moved(t) /\ th'[t] = job
    BY <1>1, <1>4, TurnMoves DEF WriterPcs, Recordings
  <1>6. QED
    BY <1>1, <1>4, <1>5, QuietStep DEF Turn, Unsettled

LEMMA StepReadBase ==
    ASSUME LogInv, NEW t \in Thread, Turn(t), ReadBase(t)
    PROVE  LogInv'
  <1> DEFINE j == th[t]
             base == VersionAt(idx, file, NewestSlot).val
             r == Encoded(j.slot, truth[j.slot], base, j.sinceFull, j.known)
             job == [j EXCEPT !.pc = "stat", !.rec = r]
  <1>1. j.pc = "base" /\ UNCHANGED <<truth, logVars, rd, acked, inferred>>
    BY DEF ReadBase
  <1>2. /\ JobTrue(j, truth, file, idx, held) /\ IsJob(j) /\ IsHistory(truth)
        /\ j.known \in BOOLEAN /\ (t = Recorder => j.known)
    BY Here
  <1>3. /\ j.slot \in Slot /\ Chain(truth, file) /\ \A s \in SlotsOfLog(file) : s < j.slot
        /\ Len(file) # 0 /\ idx = Index(file, Len(file)) /\ j.sinceFull = TrailingDiffs(idx)
    BY <1>1, <1>2 DEF JobTrue, RecordingTrue, Recordings
  <1>4. base = truth[file[Len(file)].slot]
    <2>1. BeginsWith(file, file)
      BY <1>3, SaneChain, HoldsBegins
    <2>2. NewestIs(truth, file, file)
      BY <1>2, <1>3, <2>1, NewestRead
    <2>3. QED
      BY <1>3, <2>2 DEF NewestIs
  <1>5. base # Bad
    <2>1. Len(file) \in 1 .. Len(file) /\ file \in Seq(Recs)
      BY <1>3, ChainIs
    <2>2. file[Len(file)].slot \in Slot
      BY <2>1, RecordIs
    <2>3. QED
      BY <1>2, <1>4, <2>2 DEF IsHistory
  <1>6. Goto(t, job)
    BY <1>5 DEF ReadBase
  <1> HIDE DEF base
  <1>7. j.sinceFull \in Nat
        /\ \E q \in 1 .. Len(file) : file[q].kind # "diff" /\ Len(file) - q <= j.sinceFull
    BY <1>3, TrailingOfChain DEF TrailingFits
  <1>8. Chain(truth, Append(file, r))
    <2>1. MayExtend(truth, file, j.slot, base, j.sinceFull)
      BY <1>3, <1>4, <1>7 DEF MayExtend, SlotsOfLog
    <2>2. Extends(truth, file, j.slot, base, j.sinceFull, j.known)
      BY <1>2, <1>3, <1>7, <2>1, EncodedExtends
    <2>3. QED
      BY <2>2 DEF Extends
  <1>9. r \in Recs /\ r.slot = j.slot /\ r.known = (j.known \/ r.kind = "absent")
    <2>1. EncodesTrue(truth, j.slot, base, j.sinceFull, j.known)
      BY <1>2, <1>3, <1>7, EncodedIs
    <2>2. QED
      BY <2>1 DEF EncodesTrue, WrittenAs
  <1> HIDE DEF r, j
  <1>10. SetIn(j, job, "stat", r, j.off)
    BY <1>2, SetRec
  <1> HIDE DEF job
  <1>11. IsJob(job) /\ job.pc = "stat" /\ job.rec = r /\ job.slot = j.slot /\ job.known = j.known
    BY <1>10 DEF SetIn
  <1>12. JobTrue(job, truth, file, idx, held)
    <2>1. RecordingTrue(job, truth, file, idx)
      BY <1>3, <1>8, <1>9, <1>11 DEF RecordingTrue
    <2>2. AskingTrue(job, truth, file) /\ ThinningTrue(job, truth, file, held)
          /\ RestoringTrue(job, truth, file, idx, held)
      BY <1>11 DEF AskingTrue, ThinningTrue, RestoringTrue
    <2>3. QED
      BY <1>11, <2>1, <2>2 DEF JobTrue
  <1>13. Moved(t) /\ th'[t] = job
    BY <1>2, <1>6, <1>11, TurnMoves DEF WriterPcs, Recordings
  <1>14. QED
    BY <1>1, <1>11, <1>12, <1>13, QuietStep DEF Turn, Unsettled, j

LEMMA StepStatLog ==
    ASSUME LogInv, NEW t \in Thread, Turn(t), StatLog(t)
    PROVE  LogInv'
  <1> DEFINE j == th[t]
             job == [j EXCEPT !.pc = "append", !.off = Len(file)]
  <1>1. j.pc = "stat" /\ UNCHANGED <<truth, logVars, rd, acked, inferred>> /\ Goto(t, job)
    BY DEF StatLog
  <1>2. JobTrue(j, truth, file, idx, held) /\ IsJob(j) /\ (t = Recorder => j.known)
    BY Here
  <1> HIDE DEF j
  <1>3. SetIn(j, job, "append", j.rec, Len(file))
    BY <1>2, SetOff
  <1> HIDE DEF job
  <1>4. /\ IsJob(job) /\ job.pc = "append" /\ job.rec = j.rec /\ job.off = Len(file)
        /\ job.slot = j.slot /\ job.known = j.known
    BY <1>3 DEF SetIn
  <1>5. JobTrue(job, truth, file, idx, held)
    <2>1. RecordingTrue(job, truth, file, idx)
      BY <1>1, <1>2, <1>4 DEF JobTrue, RecordingTrue, Recordings
    <2>2. AskingTrue(job, truth, file) /\ ThinningTrue(job, truth, file, held)
          /\ RestoringTrue(job, truth, file, idx, held)
      BY <1>4 DEF AskingTrue, ThinningTrue, RestoringTrue
    <2>3. QED
      BY <1>4, <2>1, <2>2 DEF JobTrue
  <1>6. Moved(t) /\ th'[t] = job
    BY <1>1, <1>2, <1>4, TurnMoves DEF WriterPcs, Recordings
  <1>7. QED
    BY <1>1, <1>4, <1>5, <1>6, QuietStep DEF Turn, Unsettled, j

-----------------------------------------------------------------------------
(* Steps that write.                                                         *)

LEMMA IndexOfPrefix ==
    ASSUME NEW g, NEW f, BeginsWith(g, f), Len(f) \in Nat, NEW k \in 0 .. Len(f)
    PROVE  Index(g, k) = Index(f, k)
  BY DEF BeginsWith, Index

LEMMA IndexNext ==
    ASSUME NEW f, NEW n \in Nat, NEW r, r = f[n + 1]
    PROVE  Append(Index(f, n), Entry(r, n + 1)) = Index(f, n + 1)
  <1> DEFINE S == {Entry(f[p], p) : p \in 1 .. n + 1}
             a == Index(f, n)
             e == Entry(r, n + 1)
             b == Index(f, n + 1)
  <1>1. a \in Seq(S) /\ Len(a) = n /\ \A p \in 1 .. n : a[p] = Entry(f[p], p)
    BY DEF Index
  <1>2. e \in S
    OBVIOUS
  <1>3. b \in Seq(S) /\ Len(b) = n + 1 /\ \A p \in 1 .. n + 1 : b[p] = Entry(f[p], p)
    BY DEF Index
  <1> HIDE DEF S, a, b, e
  <1>4. /\ Append(a, e) \in Seq(S) /\ Len(Append(a, e)) = n + 1
        /\ \A p \in 1 .. n : Append(a, e)[p] = a[p]
        /\ Append(a, e)[n + 1] = e
    BY <1>1, <1>2, AppendProperties
  <1>5. \A p \in 1 .. n + 1 : Append(a, e)[p] = b[p]
    <2>1. TAKE p \in 1 .. n + 1
    <2>2. CASE p = n + 1
      BY <1>3, <1>4, <2>2 DEF e
    <2>3. CASE p # n + 1
      <3>1. p \in 1 .. n
        BY <2>3
      <3>2. QED
        BY <1>1, <1>3, <1>4, <3>1
    <2>4. QED
      BY <2>2, <2>3
  <1>6. Append(a, e) = b
    BY <1>3, <1>4, <1>5, SeqEqual
  <1>7. QED
    BY <1>6 DEF a, b, e

LEMMA IndexTyped ==
    ASSUME NEW h, NEW f, Chain(h, f), NEW k \in 0 .. Len(f)
    PROVE  IdxTyped(Index(f, k))
  <1>1. f \in Seq(Recs) /\ Len(f) \in Nat /\ k \in Nat
    BY ChainIs
  <1>2. \A p \in 1 .. k : f[p].slot \in Slot
    BY <1>1, RecordIs
  <1>3. DOMAIN Index(f, k) = 1 .. k
        /\ \A p \in 1 .. k : Index(f, k)[p].slot = f[p].slot /\ Index(f, k)[p].pos = p
    BY <1>1, IndexIs
  <1>4. QED
    BY <1>1, <1>2, <1>3 DEF IdxTyped

LEMMA IndexSlots ==
    ASSUME NEW f, NEW k \in Nat
    PROVE  SlotsOfLog(Index(f, k)) = {f[p].slot : p \in 1 .. k}
  <1>1. Len(Index(f, k)) = k /\ \A p \in 1 .. k : Index(f, k)[p].slot = f[p].slot
    BY IndexIs
  <1>2. QED
    BY <1>1 DEF SlotsOfLog

LEMMA AckedSettled ==
    ASSUME NEW h, NEW f, Chain(h, f), NEW a, a \subseteq SlotsOfLog(f), NEW pt
    PROVE  AckedTrue(a, f, Index(f, Len(f)), pt)
  <1>1. Len(f) \in Nat /\ SaneOf(f) = f
    BY ChainIs, SaneChain
  <1>2. SlotsOfLog(Index(f, Len(f))) = SlotsOfLog(f)
    BY <1>1, IndexSlots DEF SlotsOfLog
  <1>3. QED
    BY <1>1, <1>2 DEF AckedTrue

\* A whole chain written.
LEMMA WriteChain ==
    ASSUME LogInv, NEW f, Chain(truth, f), Write(f), truth' = truth, part' = part
    PROVE  /\ file' = f /\ held' = VersionsOf(truth, f) /\ SaneOf(f) = f
           /\ FileTrue(truth', file', held', part')
  <1>1. file' = f /\ held' = ToSet(Versions(f))
    BY DEF Write
  <1>2. SaneOf(f) = f /\ HoldsLog(f, f)
    BY SaneChain
  <1>3. IsHistory(truth) /\ truth \in Histories
    BY Here
  <1>4. ToSet(Versions(f)) = VersionsOf(truth, f)
    BY <1>2, <1>3, VersionsSay DEF SaysHeld
  <1>5. QED
    BY <1>1, <1>2, <1>3, <1>4 DEF FileTrue

LEMMA StepAppendRecord ==
    ASSUME LogInv, NEW t \in Thread, Turn(t), AppendRecord(t)
    PROVE  LogInv'
  <1> DEFINE j == th[t]
             job == [j EXCEPT !.pc = "push"]
             r == j.rec
             g == Append(file, r)
             n == Len(file)
  <1>1. /\ j.pc = "append" /\ Write(g) /\ Goto(t, job)
        /\ inferred' = IF j.known \/ r.kind = "absent" THEN inferred ELSE inferred \cup {j.slot}
        /\ truth' = truth /\ idx' = idx /\ latest' = latest /\ rd' = rd /\ acked' = acked
        /\ part' = part
    BY DEF AppendRecord, Turn
  <1>2. /\ JobTrue(j, truth, file, idx, held) /\ IsJob(j) /\ (t = Recorder => j.known)
        /\ IsHistory(truth) /\ IdxTyped(idx)
    BY Here
  <1>3. /\ j.slot \in Slot /\ Chain(truth, file) /\ \A s \in SlotsOfLog(file) : s < j.slot
        /\ r \in Recs /\ Chain(truth, g) /\ r.slot = j.slot
        /\ r.known = (j.known \/ r.kind = "absent") /\ j.off = n
    BY <1>1, <1>2 DEF JobTrue, RecordingTrue, Recordings
  <1>4. idx = Index(file, n) /\ DigestOf(latest, truth, idx)
    BY <1>1, <1>3, HereSettled DEF Turn, Unsettled
  <1>5. /\ file \in Seq(Recs) /\ n \in Nat /\ g \in Seq(Recs) /\ Len(g) = n + 1 /\ g[n + 1] = r
        /\ \A p \in 1 .. n : g[p] = file[p]
    BY <1>3, ChainIs, AppendProperties
  <1> HIDE DEF j
  <1>6. SetIn(j, job, "push", r, j.off)
    BY <1>2, SetPc
  <1> HIDE DEF job, r, g
  <1>7. IsJob(job) /\ job.pc = "push" /\ job.rec = r /\ job.off = n
        /\ job.slot = j.slot /\ job.known = j.known
    BY <1>3, <1>6 DEF SetIn
  <1>8. file' = g /\ SaneOf(g) = g /\ FileTrue(truth', file', held', part')
    BY <1>1, <1>3, WriteChain
  <1>9. BeginsWith(g, file)
    BY <1>5 DEF BeginsWith
  <1>10. \A k \in 0 .. n : Index(g, k) = Index(file, k)
    BY <1>5, <1>9, IndexOfPrefix
  <1>11. Index(g, n) = idx
    BY <1>4, <1>5, <1>10
  <1>12. JobTrue(job, truth', file', idx', held')
    <2>1. RecordingTrue(job, truth, g, idx)
      BY <1>3, <1>5, <1>7, <1>11 DEF RecordingTrue
    <2>2. AskingTrue(job, truth, g) /\ ThinningTrue(job, truth, g, held')
          /\ RestoringTrue(job, truth, g, idx, held')
      BY <1>7 DEF AskingTrue, ThinningTrue, RestoringTrue
    <2>3. QED
      BY <1>1, <1>7, <1>8, <2>1, <2>2 DEF JobTrue
  <1>13. Moved(t) /\ th'[t] = job
    BY <1>1, <1>2, <1>7, TurnMoves DEF WriterPcs, Recordings
  <1>14. SlotsOfLog(g) = SlotsOfLog(file) \cup {j.slot}
    <2>1. \A p \in 1 .. n + 1 : p \in 1 .. n \/ p = n + 1
      BY <1>5
    <2>2. \A p \in 1 .. n : p \in 1 .. n + 1
      BY <1>5
    <2>3. n + 1 \in 1 .. n + 1
      BY <1>5
    <2>4. QED
      BY <1>3, <1>5, <2>1, <2>2, <2>3 DEF SlotsOfLog
  <1>15. AckedTrue(acked', file', idx', part')
    <2>1. AckedTrue(acked, file, idx, part) /\ SaneOf(file) = file
      BY <1>3, SaneChain DEF LogInv
    <2>2. QED
      BY <1>1, <1>8, <1>14, <2>1 DEF AckedTrue
  <1>16. InferredTrue(inferred', file', part')
    <2>1. InferredTrue(inferred, file, part)
      BY DEF LogInv
    <2>2. part = "recorder" => inferred' = {}
      BY <1>1, <1>2, <2>1 DEF InferredTrue, Turn
    <2>3. ASSUME part = "one_writer"
          PROVE  /\ inferred' \subseteq SlotsOfLog(g)
                 /\ \A p \in 1 .. Len(g) : g[p].slot \in inferred' => ~g[p].known
      <3>1. inferred \subseteq SlotsOfLog(file)
            /\ \A p \in 1 .. n : file[p].slot \in inferred => ~file[p].known
        BY <2>1, <2>3 DEF InferredTrue
      <3>2. j.slot \notin inferred
        <4>1. j.slot \in Int
          BY <1>3 DEF Slot
        <4>2. QED
          BY <1>3, <3>1, <4>1
      <3>3. inferred' \subseteq inferred \cup {j.slot}
            /\ (j.slot \in inferred' => ~r.known)
        BY <1>1, <1>3, <3>2
      <3>4. ASSUME NEW p \in 1 .. n, g[p].slot \in inferred' PROVE ~g[p].known
        <4>1. g[p] = file[p] /\ file[p].slot \in SlotsOfLog(file)
          BY <1>5 DEF SlotsOfLog
        <4>2. file[p].slot # j.slot
          <5>1. j.slot \in Int
            BY <1>3 DEF Slot
          <5>2. QED
            BY <1>3, <4>1, <5>1
        <4>3. file[p].slot \in inferred
          BY <3>3, <3>4, <4>1, <4>2
        <4>4. QED
          BY <3>1, <4>1, <4>3
      <3>5. \A p \in 1 .. Len(g) : p \in 1 .. n \/ p = n + 1
        BY <1>5
      <3>6. QED
        BY <1>3, <1>5, <1>14, <3>1, <3>3, <3>4, <3>5
    <2>4. QED
      BY <1>1, <1>8, <2>2, <2>3 DEF InferredTrue
  <1>17. ReaderTrue(rd', truth', file', part')
    <2>1. ReaderTrue(rd, truth, file, part)
      BY DEF LogInv
    <2>2. \A k \in 0 .. n : k \in 0 .. Len(g) /\ Index(file, k) = Index(g, k)
      BY <1>5, <1>10
    <2>3. ReaderTrue(rd, truth, g, part)
      BY <2>1, <2>2 DEF ReaderTrue
    <2>4. QED
      BY <1>1, <1>8, <2>3
  <1>18. latest' \in {truth'[s] : s \in Slot} \cup {Nobody} /\ DigestOf(latest', truth', idx')
    BY <1>1, <1>4 DEF LogInv, LatestTrue
  <1>19. QED
    BY <1>1, <1>2, <1>7, <1>8, <1>12, <1>13, <1>15, <1>16, <1>17, <1>18, ThreadStep DEF Turn, Unsettled

\* Where the file stays and the index is set to what the file says.
LEMMA SettleStep ==
    ASSUME LogInv, NEW t \in Thread, Turn(t), Moved(t), Chain(truth, file),
           UNCHANGED <<truth, file, held, rd, inferred>>,
           idx' = Index(file, Len(file)),
           th'[t].pc \notin Unsettled, JobTrue(th'[t], truth, file, idx', held),
           latest' \in {truth[s] : s \in Slot} \cup {Nobody},
           th'[t].pc # "digest" => DigestOf(latest', truth, idx'),
           acked' \subseteq SlotsOfLog(file)
    PROVE  LogInv'
  <1>1. /\ truth' = truth /\ file' = file /\ held' = held /\ rd' = rd /\ inferred' = inferred
        /\ part' = part
    BY DEF Moved
  <1>2. SaneOf(file) = file /\ Len(file) \in Nat /\ Len(file) \in 0 .. Len(file)
    BY SaneChain, ChainIs
  <1>3. FileTrue(truth', file', held', part')
    BY <1>1 DEF LogInv
  <1>4. IdxTyped(idx')
    BY <1>2, IndexTyped
  <1>5. AckedTrue(acked', file', idx', part')
    BY <1>1, AckedSettled
  <1>6. InferredTrue(inferred', file', part')
    BY <1>1 DEF LogInv
  <1>7. ReaderTrue(rd', truth', file', part')
    BY <1>1 DEF LogInv
  <1>8. JobTrue(th'[t], truth', file', idx', held')
    BY <1>1
  <1>9. th'[t].pc \notin Unsettled => idx' = Index(SaneOf(file'), Len(SaneOf(file')))
    BY <1>1, <1>2
  <1>10. latest' \in {truth'[s] : s \in Slot} \cup {Nobody}
         /\ (th'[t].pc # "digest" => DigestOf(latest', truth', idx'))
    BY <1>1
  <1>11. QED
    BY <1>3, <1>4, <1>5, <1>6, <1>7, <1>8, <1>9, <1>10, ThreadStep DEF Turn

LEMMA StepPushEntry ==
    ASSUME LogInv, NEW t \in Thread, Turn(t), PushEntry(t)
    PROVE  LogInv'
  <1> DEFINE j == th[t]
             job == [j EXCEPT !.pc = "digest"]
  <1>1. /\ j.pc = "push" /\ idx' = Append(idx, Entry(j.rec, j.off + 1)) /\ Goto(t, job)
        /\ UNCHANGED <<truth, file, held, latest, rd, acked, inferred>>
    BY DEF PushEntry
  <1>2. JobTrue(j, truth, file, idx, held) /\ IsJob(j) /\ (t = Recorder => j.known)
    BY Here
  <1>3. /\ j.slot \in Slot /\ Chain(truth, file) /\ j.off \in Nat /\ Len(file) = j.off + 1
        /\ idx = Index(file, j.off) /\ j.rec = file[j.off + 1] /\ j.slot = file[Len(file)].slot
    BY <1>1, <1>2 DEF JobTrue, RecordingTrue, Recordings
  <1>4. idx' = Index(file, Len(file))
    BY <1>1, <1>3, IndexNext
  <1> HIDE DEF j
  <1>5. SetIn(j, job, "digest", j.rec, j.off)
    BY <1>2, SetPc
  <1> HIDE DEF job
  <1>6. IsJob(job) /\ job.pc = "digest" /\ job.slot = j.slot /\ job.known = j.known
    BY <1>5 DEF SetIn
  <1>7. JobTrue(job, truth, file, idx', held)
    <2>1. RecordingTrue(job, truth, file, idx')
      BY <1>3, <1>6 DEF RecordingTrue
    <2>2. AskingTrue(job, truth, file) /\ ThinningTrue(job, truth, file, held)
          /\ RestoringTrue(job, truth, file, idx', held)
      BY <1>6 DEF AskingTrue, ThinningTrue, RestoringTrue
    <2>3. QED
      BY <1>6, <2>1, <2>2 DEF JobTrue
  <1>8. Moved(t) /\ th'[t] = job
    BY <1>1, <1>2, <1>6, TurnMoves DEF WriterPcs, Recordings
  <1>9. acked' \subseteq SlotsOfLog(file)
    BY <1>1, <1>3, SaneChain DEF LogInv, AckedTrue
  <1>10. latest' \in {truth[s] : s \in Slot} \cup {Nobody}
    BY <1>1 DEF LogInv, LatestTrue
  <1>11. QED
    BY <1>1, <1>3, <1>4, <1>6, <1>7, <1>8, <1>9, <1>10, SettleStep DEF Unsettled

\* The digest of the last record is that of the index.
LEMMA DigestSet ==
    ASSUME NEW h, NEW f, Chain(h, f), Len(f) # 0
    PROVE  /\ DigestOf(h[f[Len(f)].slot], h, Index(f, Len(f)))
           /\ f[Len(f)].slot \in Slot /\ f[Len(f)].slot \in SlotsOfLog(f)
  <1>1. f \in Seq(Recs) /\ Len(f) \in Nat /\ Len(f) \in 1 .. Len(f)
    BY ChainIs
  <1>2. Len(Index(f, Len(f))) = Len(f) /\ Index(f, Len(f))[Len(f)].slot = f[Len(f)].slot
    BY <1>1, IndexIs
  <1>3. f[Len(f)].slot \in Slot
    BY <1>1, RecordIs
  <1>4. QED
    BY <1>1, <1>2, <1>3 DEF DigestOf, SlotsOfLog

LEMMA IdleIs ==
    /\ IsJob(Idle) /\ Idle.pc = "idle" /\ Idle.known
    /\ IsJob(Job("restore")) /\ Job("restore").pc = "restore" /\ Job("restore").known
  BY DEF IsJob, Idle, Job

LEMMA StepCacheDigest ==
    ASSUME LogInv, NEW t \in Thread, Turn(t), CacheDigest(t)
    PROVE  LogInv'
  <1> DEFINE j == th[t]
  <1>1. /\ j.pc = "digest" /\ latest' = truth[j.slot] /\ acked' = acked \cup {j.slot}
        /\ Goto(t, Idle) /\ UNCHANGED <<truth, file, held, idx, rd, inferred>>
    BY DEF CacheDigest
  <1>2. JobTrue(j, truth, file, idx, held) /\ IsJob(j)
    BY Here
  <1>3. j.slot \in Slot /\ Chain(truth, file) /\ Len(file) # 0 /\ j.slot = file[Len(file)].slot
    BY <1>1, <1>2 DEF JobTrue, RecordingTrue, Recordings
  <1>4. idx' = Index(file, Len(file))
    BY <1>1, <1>3, HereSettled DEF Turn, Unsettled
  <1>5. Moved(t) /\ th'[t] = Idle
    BY <1>1, IdleIs, TurnMoves DEF WriterPcs
  <1>6. acked' \subseteq SlotsOfLog(file)
    BY <1>1, <1>3, SaneChain, DigestSet DEF LogInv, AckedTrue
  <1>7. latest' \in {truth[s] : s \in Slot} /\ DigestOf(latest', truth, idx')
    BY <1>1, <1>3, <1>4, DigestSet
  <1>8. JobTrue(Idle, truth, file, idx', held)
    BY IdleIs, IdleJobTrue
  <1>9. QED
    BY <1>1, <1>3, <1>4, <1>5, <1>6, <1>7, <1>8, IdleIs, SettleStep DEF Unsettled

-----------------------------------------------------------------------------
(* The recorder polls.                                                       *)

LEMMA StepPoll ==
    ASSUME LogInv, Turn(Recorder), Chain(truth, file), NEW s \in Slot, Poll(s)
    PROVE  LogInv'
  <1> DEFINE ask == [pc |-> "ask", slot |-> s, known |-> TRUE, sinceFull |-> 0,
                     rec |-> <<>>, off |-> 0, buf |-> <<>>, gone |-> {}]
             job == IF latest = Nobody /\ idx # <<>> THEN ask
                    ELSE IF latest # Nobody /\ latest = truth[s] THEN Idle
                    ELSE Recording(s, TRUE)
  <1>1. th[Recorder].pc = "idle" /\ UNCHANGED <<truth, logVars, rd, acked, inferred>>
        /\ Goto(Recorder, job)
    BY DEF Poll, Job
  <1>2. IsHistory(truth) /\ Recorder \in Thread
    BY Here DEF Thread
  <1>3. idx = Index(file, Len(file))
    BY <1>1, <1>2, HereSettled DEF Turn, Unsettled
  <1>4. JobTrue(Recording(s, TRUE), truth, file, idx, held)
        /\ Recording(s, TRUE).pc \in {"idle", "base", "stat"} /\ Recording(s, TRUE).known
    BY <1>2, <1>3, RecordingJob
  <1>5. JobTrue(Idle, truth, file, idx, held) /\ Idle.pc = "idle" /\ Idle.known
    BY IdleIs, IdleJobTrue
  <1>6. ask.pc = "ask" /\ ask.known /\ (idx # <<>> => JobTrue(ask, truth, file, idx, held))
    <2>1. IsJob(ask) /\ ask.pc = "ask" /\ ask.slot = s /\ ask.known
      BY DEF IsJob
    <2> HIDE DEF ask
    <2>2. idx # <<>> => Len(file) # 0
      BY <1>3, ChainIs, IndexIs
    <2>3. RecordingTrue(ask, truth, file, idx) /\ ThinningTrue(ask, truth, file, held)
          /\ RestoringTrue(ask, truth, file, idx, held)
      BY <2>1 DEF RecordingTrue, ThinningTrue, RestoringTrue, Recordings
    <2>4. idx # <<>> => AskingTrue(ask, truth, file)
      BY <2>1, <2>2 DEF AskingTrue
    <2>5. QED
      BY <2>1, <2>3, <2>4 DEF JobTrue
  <1>7. JobTrue(job, truth, file, idx, held) /\ job.pc \in {"idle", "base", "stat", "ask"}
        /\ job.known
    <2> HIDE DEF ask
    <2>1. QED
      BY <1>4, <1>5, <1>6
  <1> HIDE DEF job
  <1>8. Moved(Recorder) /\ th'[Recorder] = job
    BY <1>1, <1>2, <1>7, TurnMoves DEF WriterPcs, Recordings
  <1>9. QED
    BY <1>1, <1>2, <1>7, <1>8, QuietStep DEF Turn, Unsettled

LEMMA StepReadNewest ==
    ASSUME LogInv, Turn(Recorder), ReadNewest
    PROVE  LogInv'
  <1> DEFINE j == th[Recorder]
             newest == VersionAt(idx, file, NewestSlot).val
             fill == [j EXCEPT !.pc = "fill", !.rec = newest]
             job == IF newest = Bad THEN Idle ELSE fill
  <1>1. j.pc = "ask" /\ UNCHANGED <<truth, logVars, rd, acked, inferred>> /\ Goto(Recorder, job)
    BY DEF ReadNewest
  <1>2. /\ IsHistory(truth) /\ Recorder \in Thread
        /\ JobTrue(j, truth, file, idx, held) /\ IsJob(j) /\ j.known
    BY Here DEF Thread
  <1>3. j.slot \in Slot /\ Chain(truth, file) /\ Len(file) # 0
    BY <1>1, <1>2 DEF JobTrue, AskingTrue
  <1>4. idx = Index(file, Len(file))
    BY <1>1, <1>2, <1>3, HereSettled DEF Turn, Unsettled
  <1>5. newest = truth[file[Len(file)].slot]
    <2>1. BeginsWith(file, file)
      BY <1>3, SaneChain, HoldsBegins
    <2>2. NewestIs(truth, file, file)
      BY <1>2, <1>3, <2>1, NewestRead
    <2>3. QED
      BY <1>4, <2>2 DEF NewestIs
  <1> HIDE DEF j, newest
  <1>6. SetIn(j, fill, "fill", newest, j.off)
    BY <1>2, SetRec
  <1> HIDE DEF fill
  <1>7. IsJob(fill) /\ fill.pc = "fill" /\ fill.slot = j.slot /\ fill.rec = newest /\ fill.known
    BY <1>2, <1>6 DEF SetIn
  <1>8. JobTrue(fill, truth, file, idx, held)
    <2>1. RecordingTrue(fill, truth, file, idx) /\ ThinningTrue(fill, truth, file, held)
          /\ RestoringTrue(fill, truth, file, idx, held)
      BY <1>7 DEF RecordingTrue, ThinningTrue, RestoringTrue, Recordings
    <2>2. AskingTrue(fill, truth, file)
      BY <1>3, <1>5, <1>7 DEF AskingTrue
    <2>3. QED
      BY <1>7, <2>1, <2>2 DEF JobTrue
  <1>9. JobTrue(Idle, truth, file, idx, held)
    BY IdleIs, IdleJobTrue
  <1>10. JobTrue(job, truth, file, idx, held) /\ job.pc \in {"idle", "fill"} /\ job.known
    BY <1>7, <1>8, <1>9, IdleIs
  <1> HIDE DEF job
  <1>11. Moved(Recorder) /\ th'[Recorder] = job
    BY <1>1, <1>2, <1>10, TurnMoves DEF WriterPcs, Recordings
  <1>12. QED
    BY <1>1, <1>2, <1>10, <1>11, QuietStep DEF Turn, Unsettled, j

LEMMA StepFillDigest ==
    ASSUME LogInv, Turn(Recorder), FillDigest
    PROVE  LogInv'
  <1> DEFINE j == th[Recorder]
             job == IF j.rec = truth[j.slot] THEN Idle ELSE Recording(j.slot, TRUE)
  <1>1. j.pc = "fill" /\ latest' = j.rec /\ Goto(Recorder, job)
        /\ UNCHANGED <<truth, file, held, idx, rd, acked, inferred>>
    BY DEF FillDigest
  <1>2. /\ IsHistory(truth) /\ Recorder \in Thread
        /\ JobTrue(j, truth, file, idx, held) /\ IsJob(j)
    BY Here DEF Thread
  <1>3. j.slot \in Slot /\ Chain(truth, file) /\ Len(file) # 0 /\ j.rec = truth[file[Len(file)].slot]
    BY <1>1, <1>2 DEF JobTrue, AskingTrue
  <1>4. idx = Index(file, Len(file))
    BY <1>1, <1>2, <1>3, HereSettled DEF Turn, Unsettled
  <1> HIDE DEF j
  <1>5. JobTrue(job, truth, file, idx, held) /\ job.pc \in {"idle", "base", "stat"} /\ job.known
    <2>1. JobTrue(Recording(j.slot, TRUE), truth, file, idx, held)
          /\ Recording(j.slot, TRUE).pc \in {"idle", "base", "stat"} /\ Recording(j.slot, TRUE).known
      BY <1>2, <1>3, <1>4, RecordingJob
    <2>2. JobTrue(Idle, truth, file, idx, held)
      BY IdleIs, IdleJobTrue
    <2>3. QED
      BY <2>1, <2>2, IdleIs
  <1> HIDE DEF job
  <1>6. Moved(Recorder) /\ th'[Recorder] = job
    BY <1>1, <1>2, <1>5, TurnMoves DEF WriterPcs, Recordings
  <1>7. acked' \subseteq SlotsOfLog(file)
    BY <1>1, <1>3, SaneChain DEF LogInv, AckedTrue
  <1>8. latest' \in {truth[s] : s \in Slot} /\ DigestOf(latest', truth, idx')
    BY <1>1, <1>3, <1>4, DigestSet
  <1>9. QED
    BY <1>1, <1>2, <1>3, <1>4, <1>5, <1>6, <1>7, <1>8, SettleStep DEF Unsettled

-----------------------------------------------------------------------------
(* The log is rewritten or joined with another chain.                        *)

\* Where the recorder puts chain f in the file's place; the index comes after.
LEMMA RewriteStep ==
    ASSUME LogInv, Turn(Recorder), part = "recorder", Moved(Recorder),
           th[Recorder].pc \notin Unsettled \cup {"digest"},
           NEW f, Chain(truth, f), Write(f),
           UNCHANGED <<truth, idx, latest, rd, inferred>>,
           th'[Recorder].pc \in Unsettled, JobTrue(th'[Recorder], truth, f, idx, held'),
           acked' \subseteq SlotsOfLog(f)
    PROVE  LogInv'
  <1>1. /\ truth' = truth /\ idx' = idx /\ latest' = latest /\ rd' = rd
        /\ inferred' = inferred /\ part' = part /\ Recorder \in Thread
    BY DEF Moved, Thread
  <1>2. file' = f /\ SaneOf(f) = f /\ FileTrue(truth', file', held', part')
    BY <1>1, WriteChain
  <1>3. IdxTyped(idx')
    BY <1>1, Here
  <1>4. AckedTrue(acked', file', idx', part')
    BY <1>1, <1>2 DEF AckedTrue
  <1>5. InferredTrue(inferred', file', part')
    BY <1>1 DEF LogInv, InferredTrue
  <1>6. ReaderTrue(rd', truth', file', part')
    BY <1>1 DEF LogInv, ReaderTrue
  <1>7. JobTrue(th'[Recorder], truth', file', idx', held')
    BY <1>1, <1>2
  <1>8. latest' \in {truth'[s] : s \in Slot} \cup {Nobody} /\ DigestOf(latest', truth', idx')
    <2>1. DigestOf(latest, truth, idx)
      BY <1>1, HereSettled DEF Turn
    <2>2. QED
      BY <1>1, <2>1 DEF LogInv, LatestTrue
  <1>9. QED
    BY <1>1, <1>3, <1>2, <1>4, <1>5, <1>6, <1>7, <1>8, ThreadStep DEF Turn

\* What is acknowledged is among the versions held.
LEMMA AckedHere ==
    ASSUME LogInv
    PROVE  acked \subseteq SlotsOf(held) /\ SlotsOf(held) = SlotsOfLog(SaneOf(file))
  <1>1. held = VersionsOf(truth, SaneOf(file))
    BY Here
  <1>2. SlotsOf(held) = SlotsOfLog(SaneOf(file))
    BY <1>1, SlotsOfVersions
  <1>3. QED
    BY <1>2 DEF LogInv, AckedTrue

\* A job that begins with what is to be written.
PutIn(k, pc, buf, gone) ==
    IsJob(k) /\ k.pc = pc /\ k.known /\ k.buf = buf /\ k.gone = gone

PutWith(j, buf, gone) ==
    [pc |-> j.pc, slot |-> j.slot, known |-> j.known, sinceFull |-> j.sinceFull,
     rec |-> j.rec, off |-> j.off, buf |-> buf, gone |-> gone]

LEMMA PutWithIs ==
    ASSUME NEW j, IsJob(j), j.known, NEW k, NEW buf, NEW gone, k = PutWith(j, buf, gone)
    PROVE  PutIn(k, j.pc, buf, gone)
  BY DEF IsJob, PutWith, PutIn

LEMMA JobIs ==
    ASSUME NEW pc
    PROVE  IsJob(Job(pc)) /\ Job(pc).pc = pc /\ Job(pc).known /\ Job(pc).gone = {}
  BY DEF IsJob, Job

LEMMA PutBuf ==
    ASSUME NEW j, IsJob(j), NEW k, NEW buf, k = [j EXCEPT !.buf = buf]
    PROVE  k = PutWith(j, buf, j.gone)
  BY DEF IsJob, PutWith

LEMMA PutGone ==
    ASSUME NEW j, NEW m, NEW buf, NEW gone, m = PutWith(j, buf, j.gone)
    PROVE  [m EXCEPT !.gone = gone] = PutWith(j, buf, gone)
  BY DEF PutWith

LEMMA JobPut ==
    ASSUME NEW pc, NEW k, NEW buf, k = [Job(pc) EXCEPT !.buf = buf]
    PROVE  PutIn(k, pc, buf, {})
  <1>1. IsJob(Job(pc)) /\ Job(pc).pc = pc /\ Job(pc).known /\ Job(pc).gone = {}
    BY JobIs
  <1>2. k = PutWith(Job(pc), buf, Job(pc).gone)
    BY <1>1, PutBuf
  <1>3. QED
    BY <1>1, <1>2, PutWithIs

LEMMA JobPutBoth ==
    ASSUME NEW pc, NEW k, NEW buf, NEW gone, k = [Job(pc) EXCEPT !.buf = buf, !.gone = gone]
    PROVE  PutIn(k, pc, buf, gone)
  <1> DEFINE m == [Job(pc) EXCEPT !.buf = buf]
  <1>1. IsJob(Job(pc)) /\ Job(pc).pc = pc /\ Job(pc).known /\ Job(pc).gone = {}
    BY JobIs
  <1>2. m = PutWith(Job(pc), buf, Job(pc).gone)
    BY <1>1, PutBuf
  <1> HIDE DEF m
  <1>3. [m EXCEPT !.gone = gone] = PutWith(Job(pc), buf, gone)
    BY <1>2, PutGone
  <1>4. k = PutWith(Job(pc), buf, gone)
    BY <1>3 DEF m
  <1>5. QED
    BY <1>1, <1>4, PutWithIs

LEMMA StepReadToThin ==
    ASSUME LogInv, Turn(Recorder), part = "recorder", NEW n \in Slot, ReadToThin(n)
    PROVE  LogInv'
  <1> DEFINE all == Versions(file)
             V == {v \in ToSet(all) : IsKept(SlotsIn(all), v.slot, n)}
             kept == InOrder(V)
             c == ChainOf(kept)
             g == SlotsIn(all) \ SlotsIn(kept)
             job == [Job("rename") EXCEPT !.buf = c, !.gone = g]
  <1>1. /\ th[Recorder].pc = "idle" /\ UNCHANGED <<truth, logVars, rd, acked, inferred>>
        /\ Goto(Recorder, job)
    BY Zenon DEF ReadToThin
  <1>2. Recorder \in Thread
    BY DEF Thread
  <1>3. /\ IsHistory(truth) /\ Chain(truth, SaneOf(file)) /\ HoldsLog(file, SaneOf(file))
        /\ held = VersionsOf(truth, SaneOf(file))
    BY Here
  <1>4. ToSet(all) = held /\ SlotsIn(all) = SlotsOf(held)
    <2>1. SaysHeld(truth, SaneOf(file), file)
      BY <1>3, VersionsSay
    <2>2. QED
      BY <1>3, <2>1, AckedHere DEF SaysHeld
  <1> HIDE DEF all
  <1>5. V \in SUBSET AllVersions(truth)
    BY <1>3, <1>4, VersionsAreAll
  <1>6. V = {v \in held : IsKept(SlotsOf(held), v.slot, n)}
    BY <1>4
  <1> HIDE DEF V
  <1>7. RisingTo(truth, kept) /\ {kept[p] : p \in 1 .. Len(kept)} = V
    BY <1>3, <1>5, InOrderRises DEF OrderedTrue
  <1> HIDE DEF kept
  <1>8. Chain(truth, c) /\ VersionsOf(truth, c) = V /\ SlotsOfLog(c) = SlotsIn(kept)
    <2>1. Rewritten(truth, kept)
      BY <1>3, <1>7, ChainOfTrue
    <2>2. SaysWritten(truth, kept)
      BY <1>3, <1>7, ChainOfSays
    <2>3. DOMAIN kept = 1 .. Len(kept)
      BY <1>7, RisingIs
    <2>4. QED
      BY <1>7, <2>1, <2>2, <2>3 DEF Rewritten, SaysWritten, SlotsIn
  <1>9. g = SlotsOf(held) \ SlotsOfLog(c)
    BY <1>4, <1>8
  <1> HIDE DEF c, g
  <1>10. IsJob(job) /\ job.pc = "rename" /\ job.known /\ job.buf = c /\ job.gone = g
    <2>1. PutIn(job, "rename", c, g)
      BY JobPutBoth
    <2>2. QED
      BY <2>1 DEF PutIn
  <1> HIDE DEF job
  <1>11. JobTrue(job, truth, file, idx, held)
    <2>1. ThinningTrue(job, truth, file, held)
      BY <1>6, <1>8, <1>9, <1>10 DEF ThinningTrue
    <2>2. RecordingTrue(job, truth, file, idx) /\ AskingTrue(job, truth, file)
          /\ RestoringTrue(job, truth, file, idx, held)
      BY <1>10 DEF RecordingTrue, AskingTrue, RestoringTrue, Recordings
    <2>3. QED
      BY <1>10, <2>1, <2>2 DEF JobTrue
  <1>12. Moved(Recorder) /\ th'[Recorder] = job
    BY <1>1, <1>10, <1>2, TurnMoves
  <1>13. QED
    BY <1>1, <1>10, <1>11, <1>12, <1>2, QuietStep DEF Turn, Unsettled

LEMMA StepRenameOver ==
    ASSUME LogInv, Turn(Recorder), part = "recorder", RenameOver
    PROVE  LogInv'
  <1> DEFINE j == th[Recorder]
             job == [j EXCEPT !.pc = "reindex"]
  <1>1. /\ j.pc = "rename" /\ Write(j.buf) /\ acked' = acked \ j.gone /\ Goto(Recorder, job)
        /\ UNCHANGED <<truth, idx, latest, rd, inferred>> /\ Recorder \in Thread
    BY DEF RenameOver, Thread
  <1>2. JobTrue(j, truth, file, idx, held) /\ IsJob(j) /\ j.known
    BY <1>1, Here
  <1>3. Chain(truth, j.buf) /\ j.gone = SlotsOf(held) \ SlotsOfLog(j.buf)
    BY <1>1, <1>2 DEF JobTrue, ThinningTrue
  <1> HIDE DEF j
  <1>4. SetIn(j, job, "reindex", j.rec, j.off)
    BY <1>2, SetPc
  <1> HIDE DEF job
  <1>5. IsJob(job) /\ job.pc = "reindex" /\ job.buf = j.buf /\ job.known
    BY <1>2, <1>4 DEF SetIn
  <1>6. JobTrue(job, truth, j.buf, idx, held')
    <2>1. ThinningTrue(job, truth, j.buf, held')
      BY <1>3, <1>5 DEF ThinningTrue
    <2>2. RecordingTrue(job, truth, j.buf, idx) /\ AskingTrue(job, truth, j.buf)
          /\ RestoringTrue(job, truth, j.buf, idx, held')
      BY <1>5 DEF RecordingTrue, AskingTrue, RestoringTrue, Recordings
    <2>3. QED
      BY <1>5, <2>1, <2>2 DEF JobTrue
  <1>7. Moved(Recorder) /\ th'[Recorder] = job
    BY <1>1, <1>5, TurnMoves
  <1>8. acked' \subseteq SlotsOfLog(j.buf)
    BY <1>1, <1>3, AckedHere
  <1>9. QED
    BY <1>1, <1>3, <1>5, <1>6, <1>7, <1>8, RewriteStep DEF Unsettled, j

\* The log opened over: the index is read from the file.
LEMMA Reindexed ==
    ASSUME LogInv, Turn(Recorder), part = "recorder",
           th[Recorder].pc \in {"reindex", "mergeindex"},
           idx' = IndexOf(th[Recorder].buf), latest' = Nobody,
           NEW pc \in {"idle", "restore"}, Goto(Recorder, Job(pc)),
           UNCHANGED <<truth, file, held, rd, acked, inferred>>
    PROVE  LogInv'
  <1> DEFINE j == th[Recorder]
             job == Job(pc)
  <1>1. JobTrue(j, truth, file, idx, held) /\ Recorder \in Thread
    BY Here DEF Thread
  <1>2. file = j.buf /\ Chain(truth, file)
    BY <1>1 DEF JobTrue, ThinningTrue
  <1>3. idx' = Index(file, Len(file))
    <2>1. IndexFound(file, file)
      BY <1>2, SaneChain, IndexOfChain
    <2>2. QED
      BY <1>2, <2>1 DEF IndexFound
  <1>4. IsJob(job) /\ job.pc = pc /\ job.known
    BY DEF IsJob, Job
  <1> HIDE DEF job
  <1>5. JobTrue(job, truth, file, idx', held)
    BY <1>4, IdleJobTrue
  <1>6. Moved(Recorder) /\ th'[Recorder] = job
    BY <1>1, <1>4, TurnMoves DEF job
  <1>7. acked' \subseteq SlotsOfLog(file)
    BY <1>2, SaneChain DEF LogInv, AckedTrue
  <1>8. DigestOf(latest', truth, idx')
    BY DEF DigestOf
  <1>9. QED
    BY <1>1, <1>2, <1>3, <1>4, <1>5, <1>6, <1>7, <1>8, SettleStep DEF Unsettled

LEMMA StepReindex ==
    ASSUME LogInv, Turn(Recorder), part = "recorder", Reindex
    PROVE  LogInv'
  BY Reindexed DEF Reindex, Idle

LEMMA StepMergeIndex ==
    ASSUME LogInv, Turn(Recorder), part = "recorder", MergeIndex
    PROVE  LogInv'
  BY Reindexed DEF MergeIndex

-----------------------------------------------------------------------------
(* Packs are imported.                                                       *)

\* The pack of slots S.
Packed(h, S, pack) ==
    RisingTo(h, pack) /\ {pack[p].slot : p \in 1 .. Len(pack)} = S

LEMMA PackIs ==
    ASSUME NEW h, IsHistory(h), NEW S \in SUBSET Slot, NEW V, V = {VersionOf(h, s) : s \in S}
    PROVE  Packed(h, S, InOrder(V))
  <1> DEFINE q == InOrder(V)
  <1>1. V \in SUBSET AllVersions(h)
    BY DEF AllVersions
  <1>2. OrderedTrue(h, V)
    BY <1>1, InOrderRises
  <1>3. RisingTo(h, q) /\ {q[p] : p \in 1 .. Len(q)} = V
    BY <1>2 DEF OrderedTrue
  <1>4. \A s \in S : VersionOf(h, s) \in V /\ VersionOf(h, s).slot = s
    BY DEF VersionOf
  <1>5. \A v \in V : v.slot \in S
    BY DEF VersionOf
  <1> HIDE DEF q
  <1>6. \A p \in 1 .. Len(q) : q[p].slot \in S
    BY <1>3, <1>5
  <1>7. \A s \in S : \E p \in 1 .. Len(q) : q[p].slot = s
    <2>1. TAKE s \in S
    <2>2. PICK p \in 1 .. Len(q) : q[p] = VersionOf(h, s)
      BY <1>3, <1>4
    <2>3. QED
      BY <1>4, <2>2
  <1>8. {q[p].slot : p \in 1 .. Len(q)} = S
    BY <1>6, <1>7
  <1>9. QED
    BY <1>3, <1>8 DEF q, Packed

LEMMA StepImportPack ==
    ASSUME LogInv, Turn(Recorder), part = "recorder", Chain(truth, file),
           NEW S \in SUBSET Slot, ImportPack(S)
    PROVE  LogInv'
  <1> DEFINE V == {VersionOf(truth, s) : s \in S}
             pack == InOrder(V)
             new == idx = <<>> \/ \A s \in S : s > Last(idx).slot
             joined == [Job("chainstat") EXCEPT !.buf = ChainOf(pack)]
             merged == [Job("merge") EXCEPT !.buf = pack]
             job == IF new THEN joined ELSE merged
  <1>1. /\ th[Recorder].pc = "restore" /\ UNCHANGED <<truth, logVars, rd, acked, inferred>>
        /\ Goto(Recorder, job)
    BY DEF ImportPack, PackOf, VersionOf
  <1>2. IsHistory(truth) /\ MaxSlot \in Nat
    BY Here
  <1>3. Recorder \in Thread
    BY DEF Thread
  <1>4. Packed(truth, S, pack)
    BY <1>2, PackIs
  <1>5. RisingTo(truth, pack) /\ {pack[p].slot : p \in 1 .. Len(pack)} = S
    BY <1>4 DEF Packed
  <1> HIDE DEF pack
  <1>6. Chain(truth, ChainOf(pack)) /\ SlotsOfLog(ChainOf(pack)) = S
    BY <1>2, <1>5, ChainOfTrue, ChainOfSays DEF Rewritten, SaysWritten
  <1>7. idx = Index(file, Len(file))
    BY <1>1, <1>3, HereSettled DEF Turn, Unsettled
  <1>8. new => \A s \in SlotsOfLog(file), t \in S : s < t
    <2>1. HAVE new
    <2>2. file \in Seq(Recs) /\ Len(file) \in Nat
      BY ChainIs
    <2>3. Len(idx) = Len(file) /\ \A p \in 1 .. Len(file) : idx[p].slot = file[p].slot
      BY <1>7, <2>2, IndexIs
    <2>4. idx = <<>> => Len(file) = 0
      BY <2>3
    <2>5. ASSUME NEW t \in S PROVE \A s \in SlotsOfLog(file) : s < t
      <3>1. Len(file) # 0 => file[Len(file)].slot < t
        <4>1. HAVE Len(file) # 0
        <4>2. t > idx[Len(file)].slot
          BY <2>1, <2>3, <2>4, <2>5, <4>1 DEF Last
        <4>3. Len(file) \in 1 .. Len(file)
          BY <2>2, <4>1
        <4>4. file[Len(file)].slot \in Nat /\ t \in Nat
          BY <2>2, <4>3, RecordIs DEF Slot
        <4>5. QED
          BY <2>3, <4>2, <4>3, <4>4
      <3>2. QED
        BY <1>2, <3>1, LastIsNewest
    <2>6. QED
      BY <2>5
  <1>9. PutIn(joined, "chainstat", ChainOf(pack), {}) /\ PutIn(merged, "merge", pack, {})
    BY JobPut
  <1> HIDE DEF joined, merged, new
  <1>10. new => JobTrue(joined, truth, file, idx, held)
    <2>1. HAVE new
    <2>2. RecordingTrue(joined, truth, file, idx) /\ AskingTrue(joined, truth, file)
          /\ ThinningTrue(joined, truth, file, held)
      BY <1>9 DEF PutIn, RecordingTrue, AskingTrue, ThinningTrue, Recordings
    <2>3. RestoringTrue(joined, truth, file, idx, held)
      BY <1>6, <1>8, <1>9, <2>1 DEF PutIn, RestoringTrue
    <2>4. QED
      BY <1>9, <2>2, <2>3 DEF PutIn, JobTrue
  <1>11. JobTrue(merged, truth, file, idx, held)
    <2>1. RecordingTrue(merged, truth, file, idx) /\ AskingTrue(merged, truth, file)
          /\ ThinningTrue(merged, truth, file, held)
      BY <1>9 DEF PutIn, RecordingTrue, AskingTrue, ThinningTrue, Recordings
    <2>2. RestoringTrue(merged, truth, file, idx, held)
      BY <1>5, <1>9 DEF PutIn, RestoringTrue
    <2>3. QED
      BY <1>9, <2>1, <2>2 DEF PutIn, JobTrue
  <1>12. JobTrue(job, truth, file, idx, held) /\ job.pc \in {"chainstat", "merge"} /\ job.known
    BY <1>9, <1>10, <1>11 DEF PutIn
  <1> HIDE DEF job
  <1>13. Moved(Recorder) /\ th'[Recorder] = job
    BY <1>1, <1>3, <1>12, TurnMoves
  <1>14. QED
    BY <1>1, <1>3, <1>12, <1>13, QuietStep DEF Turn, Unsettled

LEMMA StepMergePack ==
    ASSUME LogInv, Turn(Recorder), part = "recorder", Chain(truth, file), MergePack
    PROVE  LogInv'
  <1> DEFINE j == th[Recorder]
             here == Versions(file)
             V == ToSet(here) \cup {v \in ToSet(j.buf) : v.slot \notin SlotsIn(here)}
             all == InOrder(V)
             c == ChainOf(all)
             write == [Job("mergerename") EXCEPT !.buf = c]
             job == IF Readable(here) THEN write ELSE Job("restore")
  <1>1. /\ j.pc = "merge" /\ UNCHANGED <<truth, logVars, rd, acked, inferred>>
        /\ Goto(Recorder, job)
    BY DEF MergePack, Merged
  <1>2. Recorder \in Thread
    BY DEF Thread
  <1>3. /\ IsHistory(truth) /\ Chain(truth, SaneOf(file)) /\ HoldsLog(file, SaneOf(file))
        /\ held = VersionsOf(truth, SaneOf(file)) /\ JobTrue(j, truth, file, idx, held)
    BY <1>2, Here
  <1>4. RisingTo(truth, j.buf)
    BY <1>1, <1>3 DEF JobTrue, RestoringTrue
  <1>5. ToSet(here) = held
    BY <1>3, VersionsSay DEF SaysHeld
  <1> HIDE DEF here
  <1>6. V \in SUBSET AllVersions(truth) /\ held \subseteq V
    <2>1. held \subseteq AllVersions(truth)
      BY <1>3, VersionsAreAll
    <2>2. ToSet(j.buf) \subseteq AllVersions(truth)
      BY <1>4, RisingIs DEF ToSet, AllVersions
    <2>3. QED
      BY <1>5, <2>1, <2>2
  <1> HIDE DEF V, j
  <1>7. OrderedTrue(truth, V)
    BY <1>3, <1>6, InOrderRises
  <1>8. RisingTo(truth, all) /\ {all[p] : p \in 1 .. Len(all)} = V
    BY <1>7 DEF OrderedTrue
  <1> HIDE DEF all
  <1>9. Chain(truth, c) /\ VersionsOf(truth, c) = V
    <2>1. Rewritten(truth, all)
      BY <1>3, <1>8, ChainOfTrue
    <2>2. SaysWritten(truth, all)
      BY <1>3, <1>8, ChainOfSays
    <2>3. QED
      BY <1>8, <2>1, <2>2 DEF Rewritten, SaysWritten
  <1> HIDE DEF c
  <1>10. PutIn(write, "mergerename", c, {})
    BY JobPut
  <1> HIDE DEF write
  <1>11. JobTrue(write, truth, file, idx, held)
    <2>1. RecordingTrue(write, truth, file, idx) /\ AskingTrue(write, truth, file)
          /\ ThinningTrue(write, truth, file, held)
      BY <1>10 DEF PutIn, RecordingTrue, AskingTrue, ThinningTrue, Recordings
    <2>2. RestoringTrue(write, truth, file, idx, held)
      BY <1>6, <1>9, <1>10 DEF PutIn, RestoringTrue
    <2>3. QED
      BY <1>10, <2>1, <2>2 DEF PutIn, JobTrue
  <1>12. JobTrue(Job("restore"), truth, file, idx, held)
    BY IdleIs, IdleJobTrue
  <1>13. JobTrue(job, truth, file, idx, held) /\ job.pc \in {"mergerename", "restore"} /\ job.known
    BY <1>10, <1>11, <1>12, IdleIs DEF PutIn
  <1> HIDE DEF job
  <1>14. Moved(Recorder) /\ th'[Recorder] = job
    BY <1>1, <1>2, <1>13, TurnMoves
  <1>15. QED
    BY <1>1, <1>2, <1>13, <1>14, QuietStep DEF Turn, Unsettled, j

LEMMA StepMergeRename ==
    ASSUME LogInv, Turn(Recorder), part = "recorder", MergeRename
    PROVE  LogInv'
  <1> DEFINE j == th[Recorder]
             job == [j EXCEPT !.pc = "mergeindex"]
  <1>1. /\ j.pc = "mergerename" /\ Write(j.buf) /\ Goto(Recorder, job)
        /\ UNCHANGED <<truth, idx, latest, rd, acked, inferred>> /\ Recorder \in Thread
    BY DEF MergeRename, Thread
  <1>2. JobTrue(j, truth, file, idx, held) /\ IsJob(j) /\ j.known
    BY <1>1, Here
  <1>3. Chain(truth, j.buf) /\ held \subseteq VersionsOf(truth, j.buf)
    BY <1>1, <1>2 DEF JobTrue, RestoringTrue
  <1> HIDE DEF j
  <1>4. SetIn(j, job, "mergeindex", j.rec, j.off)
    BY <1>2, SetPc
  <1> HIDE DEF job
  <1>5. IsJob(job) /\ job.pc = "mergeindex" /\ job.buf = j.buf /\ job.known
    BY <1>2, <1>4 DEF SetIn
  <1>6. JobTrue(job, truth, j.buf, idx, held')
    <2>1. ThinningTrue(job, truth, j.buf, held')
      BY <1>3, <1>5 DEF ThinningTrue
    <2>2. RecordingTrue(job, truth, j.buf, idx) /\ AskingTrue(job, truth, j.buf)
          /\ RestoringTrue(job, truth, j.buf, idx, held')
      BY <1>5 DEF RecordingTrue, AskingTrue, RestoringTrue, Recordings
    <2>3. QED
      BY <1>5, <2>1, <2>2 DEF JobTrue
  <1>7. Moved(Recorder) /\ th'[Recorder] = job
    BY <1>1, <1>5, TurnMoves
  <1>8. acked' \subseteq SlotsOfLog(j.buf)
    <2>1. SlotsOf(held) \subseteq SlotsOf(VersionsOf(truth, j.buf))
      BY <1>3 DEF SlotsOf
    <2>2. QED
      BY <1>1, <2>1, AckedHere, SlotsOfVersions
  <1>9. QED
    BY <1>1, <1>3, <1>5, <1>6, <1>7, <1>8, RewriteStep DEF Unsettled, j

LEMMA StepStatChain ==
    ASSUME LogInv, Turn(Recorder), part = "recorder", StatChain
    PROVE  LogInv'
  <1> DEFINE j == th[Recorder]
             job == [j EXCEPT !.pc = "chainappend", !.off = Len(file)]
  <1>1. j.pc = "chainstat" /\ UNCHANGED <<truth, logVars, rd, acked, inferred>>
        /\ Goto(Recorder, job) /\ Recorder \in Thread
    BY DEF StatChain, Thread
  <1>2. JobTrue(j, truth, file, idx, held) /\ IsJob(j) /\ j.known
    BY <1>1, Here
  <1> HIDE DEF j
  <1>3. SetIn(j, job, "chainappend", j.rec, Len(file))
    BY <1>2, SetOff
  <1> HIDE DEF job
  <1>4. IsJob(job) /\ job.pc = "chainappend" /\ job.buf = j.buf /\ job.off = Len(file) /\ job.known
    BY <1>2, <1>3 DEF SetIn
  <1>5. JobTrue(job, truth, file, idx, held)
    <2>1. RestoringTrue(job, truth, file, idx, held)
      BY <1>1, <1>2, <1>4 DEF JobTrue, RestoringTrue
    <2>2. RecordingTrue(job, truth, file, idx) /\ AskingTrue(job, truth, file)
          /\ ThinningTrue(job, truth, file, held)
      BY <1>4 DEF RecordingTrue, AskingTrue, ThinningTrue, Recordings
    <2>3. QED
      BY <1>4, <2>1, <2>2 DEF JobTrue
  <1>6. Moved(Recorder) /\ th'[Recorder] = job
    BY <1>1, <1>4, TurnMoves
  <1>7. QED
    BY <1>1, <1>4, <1>5, <1>6, QuietStep DEF Turn, Unsettled, j

LEMMA StepAppendChain ==
    ASSUME LogInv, Turn(Recorder), part = "recorder", AppendChain
    PROVE  LogInv'
  <1> DEFINE j == th[Recorder]
             job == [j EXCEPT !.pc = "chainindex"]
             g == file \o j.buf
  <1>1. /\ j.pc = "chainappend" /\ Write(g) /\ Goto(Recorder, job)
        /\ UNCHANGED <<truth, idx, latest, rd, acked, inferred>> /\ Recorder \in Thread
    BY DEF AppendChain, Thread
  <1>2. JobTrue(j, truth, file, idx, held) /\ IsJob(j) /\ j.known
    BY <1>1, Here
  <1>3. /\ Chain(truth, file) /\ Chain(truth, j.buf) /\ j.off = Len(file)
        /\ \A s \in SlotsOfLog(file), t \in SlotsOfLog(j.buf) : s < t
    BY <1>1, <1>2 DEF JobTrue, RestoringTrue
  <1>4. idx = Index(file, Len(file))
    BY <1>1, <1>3, HereSettled DEF Turn, Unsettled
  <1> HIDE DEF j
  <1>5. Joined(truth, file, j.buf)
    BY <1>3, ChainsJoin
  <1>6. /\ Chain(truth, g) /\ Len(g) = Len(file) + Len(j.buf)
        /\ \A p \in 1 .. Len(file) : g[p] = file[p]
        /\ \A p \in 1 .. Len(j.buf) : g[Len(file) + p] = j.buf[p]
    BY <1>5 DEF Joined
  <1>7. Len(file) \in Nat /\ j.buf \in Seq(Recs) /\ Len(j.buf) \in Nat /\ g \in Seq(Recs)
    BY <1>3, <1>6, ChainIs
  <1> HIDE DEF g
  <1>8. SetIn(j, job, "chainindex", j.rec, j.off)
    BY <1>2, SetPc
  <1> HIDE DEF job
  <1>9. IsJob(job) /\ job.pc = "chainindex" /\ job.buf = j.buf /\ job.off = Len(file) /\ job.known
    BY <1>2, <1>3, <1>8 DEF SetIn
  <1>10. idx = Index(g, Len(file))
    <2>1. BeginsWith(g, file)
      BY <1>6, <1>7 DEF BeginsWith
    <2>2. Len(file) \in 0 .. Len(file)
      BY <1>7
    <2>3. QED
      BY <1>4, <1>7, <2>1, <2>2, IndexOfPrefix
  <1>11. JobTrue(job, truth, g, idx, held')
    <2>1. RestoringTrue(job, truth, g, idx, held')
      BY <1>6, <1>7, <1>9, <1>10 DEF RestoringTrue
    <2>2. RecordingTrue(job, truth, g, idx) /\ AskingTrue(job, truth, g)
          /\ ThinningTrue(job, truth, g, held')
      BY <1>9 DEF RecordingTrue, AskingTrue, ThinningTrue, Recordings
    <2>3. QED
      BY <1>9, <2>1, <2>2 DEF JobTrue
  <1>12. Moved(Recorder) /\ th'[Recorder] = job
    BY <1>1, <1>9, TurnMoves
  <1>13. acked' \subseteq SlotsOfLog(g)
    <2>1. acked \subseteq SlotsOfLog(file)
      BY <1>3, SaneChain DEF LogInv, AckedTrue
    <2>2. \A p \in 1 .. Len(file) : p \in 1 .. Len(g)
      BY <1>6, <1>7
    <2>3. SlotsOfLog(file) \subseteq SlotsOfLog(g)
      BY <1>6, <2>2 DEF SlotsOfLog
    <2>4. QED
      BY <1>1, <2>1, <2>3
  <1>14. QED
    BY <1>1, <1>6, <1>9, <1>11, <1>12, <1>13, RewriteStep DEF Unsettled, j

Joins(a, b, S) ==
    /\ a \o b \in Seq(S) /\ Len(a \o b) = Len(a) + Len(b)
    /\ \A p \in 1 .. Len(a) + Len(b) : (a \o b)[p] = IF p <= Len(a) THEN a[p] ELSE b[p - Len(a)]

LEMMA SequencesJoin ==
    ASSUME NEW S, NEW a \in Seq(S), NEW b \in Seq(S)
    PROVE  Joins(a, b, S)
  BY ConcatProperties DEF Joins

LEMMA IndexJoin ==
    ASSUME NEW f, NEW n \in Nat, NEW g, g \in Seq(Recs), Len(f) = n + Len(g),
           \A p \in 1 .. Len(g) : g[p] = f[n + p]
    PROVE  Index(f, n) \o [p \in DOMAIN g |-> Entry(g[p], n + p)] = Index(f, Len(f))
  <1> DEFINE m == Len(g)
             S == {Entry(f[p], p) : p \in 1 .. n + m}
             a == Index(f, n)
             b == [p \in DOMAIN g |-> Entry(g[p], n + p)]
             c == Index(f, Len(f))
  <1>1. m \in Nat /\ DOMAIN g = 1 .. m /\ \A p \in 1 .. m : n + p \in 1 .. n + m
    OBVIOUS
  <1>2. a \in Seq(S) /\ Len(a) = n /\ \A p \in 1 .. n : a[p] = Entry(f[p], p)
    <2>1. \A p \in 1 .. n : p \in 1 .. n + m
      BY <1>1
    <2>2. QED
      BY <2>1 DEF Index
  <1>3. b \in Seq(S) /\ Len(b) = m /\ \A p \in 1 .. m : b[p] = Entry(f[n + p], n + p)
    <2>1. b = [p \in 1 .. m |-> Entry(f[n + p], n + p)]
      BY <1>1
    <2>2. \A p \in 1 .. m : Entry(f[n + p], n + p) \in S
      BY <1>1
    <2> HIDE DEF S, b
    <2>3. QED
      BY <1>1, <2>1, <2>2
  <1>4. c \in Seq(S) /\ Len(c) = n + m /\ \A p \in 1 .. n + m : c[p] = Entry(f[p], p)
    BY <1>1 DEF Index
  <1> HIDE DEF S, a, b, c, m
  <1>5. Joins(a, b, S)
    BY <1>2, <1>3, SequencesJoin
  <1>6. /\ a \o b \in Seq(S) /\ Len(a \o b) = n + m
        /\ \A p \in 1 .. n + m : (a \o b)[p] = IF p <= n THEN a[p] ELSE b[p - n]
    BY <1>2, <1>3, <1>5 DEF Joins
  <1>7. \A p \in 1 .. n + m : (a \o b)[p] = c[p]
    <2>1. TAKE p \in 1 .. n + m
    <2>2. CASE p <= n
      BY <1>1, <1>2, <1>4, <1>6, <2>2
    <2>3. CASE ~(p <= n)
      <3>1. p - n \in 1 .. m /\ n + (p - n) = p
        BY <1>1, <2>3
      <3>2. b[p - n] = Entry(f[p], p)
        BY <1>3, <3>1
      <3>3. QED
        BY <1>4, <1>6, <2>3, <3>2
    <2>4. QED
      BY <2>2, <2>3
  <1>8. a \o b = c
    BY <1>4, <1>6, <1>7, SeqEqual
  <1>9. QED
    BY <1>8 DEF a, b, c

LEMMA StepIndexChain ==
    ASSUME LogInv, Turn(Recorder), part = "recorder", IndexChain
    PROVE  LogInv'
  <1> DEFINE j == th[Recorder]
             job == Job("restore")
  <1>1. /\ j.pc = "chainindex" /\ latest' = Nobody /\ Goto(Recorder, job)
        /\ idx' = idx \o [p \in DOMAIN j.buf |-> Entry(j.buf[p], j.off + p)]
        /\ UNCHANGED <<truth, file, held, rd, acked, inferred>> /\ Recorder \in Thread
    BY DEF IndexChain, Thread
  <1>2. JobTrue(j, truth, file, idx, held)
    BY <1>1, Here
  <1>3. /\ Chain(truth, file) /\ j.off \in Nat /\ idx = Index(file, j.off)
        /\ j.buf \in Seq(Recs) /\ Len(file) = j.off + Len(j.buf)
        /\ \A p \in 1 .. Len(j.buf) : j.buf[p] = file[j.off + p]
    BY <1>1, <1>2 DEF JobTrue, RestoringTrue
  <1>4. idx' = Index(file, Len(file))
    BY <1>1, <1>3, IndexJoin
  <1> HIDE DEF job
  <1>5. JobTrue(job, truth, file, idx', held) /\ job.pc = "restore" /\ job.known
    BY IdleIs, IdleJobTrue DEF job
  <1>6. Moved(Recorder) /\ th'[Recorder] = job
    BY <1>1, <1>5, TurnMoves
  <1>7. acked' \subseteq SlotsOfLog(file)
    BY <1>1, <1>3, SaneChain DEF LogInv, AckedTrue
  <1>8. DigestOf(latest', truth, idx')
    BY <1>1 DEF DigestOf
  <1>9. QED
    BY <1>1, <1>3, <1>4, <1>5, <1>6, <1>7, <1>8, SettleStep DEF Unsettled

LEMMA StepStartLoop ==
    ASSUME LogInv, Turn(Recorder), StartLoop
    PROVE  LogInv'
  <1>1. /\ th[Recorder].pc = "restore" /\ Goto(Recorder, Idle) /\ Recorder \in Thread
        /\ UNCHANGED <<truth, logVars, rd, acked, inferred>>
    BY DEF StartLoop, Thread
  <1>2. JobTrue(Idle, truth, file, idx, held) /\ Idle.pc = "idle" /\ Idle.known
    BY IdleIs, IdleJobTrue
  <1>3. Moved(Recorder) /\ th'[Recorder] = Idle
    BY <1>1, <1>2, TurnMoves DEF WriterPcs
  <1>4. QED
    BY <1>1, <1>2, <1>3, QuietStep DEF Turn, Unsettled

-----------------------------------------------------------------------------
(* Lookups.                                                                  *)

LEMMA ReaderStep ==
    ASSUME LogInv, UNCHANGED <<truth, logVars, th, acked, inferred>>, part' = part,
           ReaderTrue(rd', truth, file, part)
    PROVE  LogInv'
  <1>1. /\ truth' = truth /\ file' = file /\ held' = held /\ idx' = idx /\ latest' = latest
        /\ th' = th /\ acked' = acked /\ inferred' = inferred /\ part' = part
    BY DEF logVars
  <1>2. ThreadsTrue'
    BY <1>1 DEF LogInv, ThreadsTrue
  <1>3. IdxTrue' /\ LatestTrue'
    BY <1>1 DEF LogInv, IdxTrue, LatestTrue, Settled
  <1>4. FileTrue(truth', file', held', part') /\ AckedTrue(acked', file', idx', part')
        /\ InferredTrue(inferred', file', part') /\ ReaderTrue(rd', truth', file', part')
    BY <1>1 DEF LogInv
  <1>5. QED
    BY <1>2, <1>3, <1>4 DEF LogInv

\* The index covers the file, but for a record just appended.
LEMMA IndexCovers ==
    ASSUME LogInv, part = "one_writer"
    PROVE  Chain(truth, file) /\ \E k \in 0 .. Len(file) : idx = Index(file, k)
  <1>1. Chain(truth, file) /\ SaneOf(file) = file /\ Len(file) \in Nat
    BY Here, ChainIs DEF LogInv, FileTrue
  <1>2. CASE Settled
    <2>1. idx = Index(file, Len(file)) /\ Len(file) \in 0 .. Len(file)
      BY <1>1, <1>2 DEF LogInv, IdxTrue
    <2>2. QED
      BY <1>1, <2>1
  <1>3. CASE ~Settled
    <2>1. PICK t \in Thread : th[t].pc \in Unsettled
      BY <1>3 DEF Settled
    <2>2. th[t].pc = "push"
      BY <2>1 DEF LogInv, ThreadsTrue, Unsettled, Recordings
    <2>3. JobTrue(th[t], truth, file, idx, held)
      BY Here
    <2>4. th[t].off \in Nat /\ Len(file) = th[t].off + 1 /\ idx = Index(file, th[t].off)
      BY <2>2, <2>3 DEF JobTrue, RecordingTrue
    <2>5. th[t].off \in 0 .. Len(file)
      BY <1>1, <2>4
    <2>6. QED
      BY <1>1, <2>4, <2>5
  <1>4. QED
    BY <1>2, <1>3

LEMMA StepStartLookup ==
    ASSUME LogInv, part = "one_writer", part' = part, NEW s \in Slot, StartLookup(s)
    PROVE  LogInv'
  <1> DEFINE A == {0} \cup {a \in acked : a <= s}
             floor == Max(A)
  <1>1. UNCHANGED <<truth, logVars, th, acked, inferred>>
        /\ rd' = [IdleReader EXCEPT !.pc = "read", !.slot = s, !.ents = idx, !.floor = floor]
    BY DEF StartLookup
  <1>2. Chain(truth, file) /\ MaxSlot \in Nat
    BY Here, IndexCovers
  <1>3. \E k \in 0 .. Len(file) : idx = Index(file, k)
    BY IndexCovers
  <1>4. acked \subseteq Slot /\ acked \subseteq SlotsOfLog(idx)
    <2>1. AckedTrue(acked, file, idx, part) /\ SaneOf(file) = file
      BY <1>2, SaneChain DEF LogInv
    <2>2. QED
      BY <1>2, <2>1, VersionsAreAll DEF AckedTrue
  <1>5. floor \in A
    <2>1. s \in Nat /\ \A a \in acked : a \in Nat
      BY <1>2, <1>4 DEF Slot
    <2>2. A \in SUBSET (0 .. s) /\ 0 \in A
      BY <2>1
    <2> HIDE DEF A
    <2>3. A # {}
      BY <2>2
    <2>4. QED
      BY <2>1, <2>2, <2>3, Greatest
  <1>6. floor \in 0 .. s /\ (floor # 0 => floor \in acked)
    <2> HIDE DEF floor
    <2>1. QED
      BY <1>4, <1>5 DEF Slot
  <1> HIDE DEF floor
  <1>7. rd'.pc = "read" /\ rd'.slot = s /\ rd'.ents = idx /\ rd'.floor = floor
    BY <1>1 DEF IdleReader
  <1>8. ReaderTrue(rd', truth, file, part)
    BY <1>3, <1>4, <1>6, <1>7 DEF ReaderTrue
  <1>9. QED
    BY <1>1, <1>8, ReaderStep

LEMMA StepReadLog ==
    ASSUME LogInv, part' = part, ReadLog
    PROVE  LogInv'
  <1> DEFINE v == VersionAt(rd.ents, file, rd.slot)
  <1>1. /\ rd.pc = "read" /\ UNCHANGED <<truth, logVars, th, acked, inferred>>
        /\ rd' = [IdleReader EXCEPT !.pc = "read done", !.slot = rd.slot, !.floor = rd.floor,
                                    !.ans = v]
    BY DEF ReadLog
  <1>2. ReaderTrue(rd, truth, file, part) /\ part \in {"recorder", "one_writer"}
    BY DEF LogInv, ThreadsTrue
  <1>3. part = "one_writer" /\ rd.slot \in Slot /\ rd.floor \in 0 .. rd.slot
        /\ (rd.floor # 0 => rd.floor \in SlotsOfLog(rd.ents))
    BY <1>1, <1>2 DEF ReaderTrue
  <1>4. PICK k \in 0 .. Len(file) : rd.ents = Index(file, k)
    BY <1>1, <1>2 DEF ReaderTrue
  <1>5. Chain(truth, file) /\ IsHistory(truth) /\ BeginsWith(file, file)
    <2>1. Chain(truth, file)
      BY <1>3, IndexCovers
    <2>2. QED
      BY <2>1, Here, SaneChain, HoldsBegins
  <1>6. file \in Seq(Recs) /\ Len(file) \in Nat /\ k \in Nat /\ k <= Len(file) /\ rd.slot \in Nat
    BY <1>3, <1>5, ChainIs DEF Slot
  <1>7. \A p \in 1 .. k : file[p].slot \in Nat
    BY <1>6, RecordIs DEF Slot
  <1>8. Found(truth, file, k, rd.slot, v)
    <2>1. LookedUp(truth, file, file, k, rd.slot)
      BY <1>5, <1>6, LookupFinds
    <2>2. QED
      BY <1>4, <2>1 DEF LookedUp
  <1>9. rd.floor # 0 => \E q \in 1 .. k : file[q].slot = rd.floor
    <2>1. SlotsOfLog(rd.ents) = {file[p].slot : p \in 1 .. k}
      BY <1>4, <1>6, IndexSlots
    <2>2. QED
      BY <1>3, <2>1
  <1> HIDE DEF v
  <1>10. v.slot >= rd.floor /\ v.slot <= rd.slot /\ (v.slot # 0 => v.val = truth[v.slot])
    <2>1. CASE \A p \in 1 .. k : ~(file[p].slot <= rd.slot)
      <3>1. v.slot = 0
        BY <1>8, <2>1 DEF Found, NewestAt
      <3>2. rd.floor = 0
        BY <1>3, <1>9, <2>1
      <3>3. QED
        BY <1>6, <3>1, <3>2
    <2>2. CASE ~\A p \in 1 .. k : ~(file[p].slot <= rd.slot)
      <3>1. PICK p \in 1 .. k : /\ NewestAt(file, k, rd.slot, p)
                                /\ v.slot = file[p].slot /\ v.val = truth[file[p].slot]
        BY <1>8, <2>2 DEF Found
      <3>2. v.slot <= rd.slot
        BY <3>1 DEF NewestAt
      <3>3. rd.floor # 0 => v.slot >= rd.floor
        <4>1. HAVE rd.floor # 0
        <4>2. PICK q \in 1 .. k : file[q].slot = rd.floor
          BY <1>9, <4>1
        <4>3. q <= p
          BY <1>3, <3>1, <4>2 DEF NewestAt
        <4>4. q = p \/ file[q].slot < file[p].slot
          <5>1. q \in 1 .. Len(file) /\ p \in 1 .. Len(file) /\ (q = p \/ q < p)
            BY <1>6, <4>3
          <5>2. QED
            BY <1>5, <5>1 DEF Chain, Rising
        <4>5. QED
          BY <1>7, <3>1, <4>2, <4>4
      <3>4. v.slot \in Nat
        BY <1>7, <3>1
      <3>5. QED
        BY <3>1, <3>2, <3>3, <3>4
    <2>3. QED
      BY <2>1, <2>2
  <1>11. rd'.pc = "read done" /\ rd'.slot = rd.slot /\ rd'.ans = v /\ rd'.floor = rd.floor
    BY <1>1 DEF IdleReader
  <1>12. ReaderTrue(rd', truth, file, part)
    BY <1>3, <1>10, <1>11 DEF ReaderTrue
  <1>13. QED
    BY <1>1, <1>12, ReaderStep

LEMMA StepEndLookup ==
    ASSUME LogInv, part' = part, EndLookup
    PROVE  LogInv'
  <1>1. UNCHANGED <<truth, logVars, th, acked, inferred>> /\ rd'.pc = "idle"
    BY DEF EndLookup, IdleReader
  <1>2. ReaderTrue(rd', truth, file, part)
    BY <1>1 DEF ReaderTrue
  <1>3. QED
    BY <1>1, <1>2, ReaderStep

-----------------------------------------------------------------------------
(* The process stops, and opens the log again.                               *)

LEMMA IndexSlotsAll ==
    ASSUME NEW f, Len(f) \in Nat
    PROVE  SlotsOfLog(Index(f, Len(f))) = SlotsOfLog(f)
  BY IndexSlots DEF SlotsOfLog

LEMMA ReopenStep ==
    ASSUME LogInv, Reopen, part' = part, FileTrue(truth', file', held', part'),
           SaneOf(file') = SaneOf(file), InferredTrue(inferred', file', part')
    PROVE  LogInv'
  <1>1. /\ idx' = IndexOf(file') /\ latest' = Nobody /\ rd' = IdleReader
        /\ th' = [t \in Thread |-> IF t = Recorder THEN Job("restore") ELSE Idle]
        /\ truth' = truth /\ acked' = acked /\ inferred' = inferred
    BY DEF Reopen
  <1>2. /\ DOMAIN th' = Thread /\ th'[Recorder] = Job("restore")
        /\ \A t \in Thread : t # Recorder => th'[t] = Idle
    BY <1>1 DEF Thread
  <1>3. \A t \in Thread : IsJob(th'[t]) /\ th'[t].pc \in {"idle", "restore"}
    BY <1>2, IdleIs
  <1>4. ThreadsTrue'
    <2>1. \A t \in Thread : JobTrue(th'[t], truth', file', idx', held')
      BY <1>3, IdleJobTrue
    <2>2. part \in {"recorder", "one_writer"}
      BY DEF LogInv, ThreadsTrue
    <2>3. \A t \in Requests : th'[t] = Idle
      BY <1>2, LogAssumption DEF Thread
    <2>4. QED
      BY <1>2, <1>3, <2>1, <2>2, <2>3, IdleIs DEF ThreadsTrue
  <1>5. idx' = Index(SaneOf(file'), Len(SaneOf(file'))) /\ IdxTyped(idx')
    <2>1. Chain(truth', SaneOf(file')) /\ HoldsLog(file', SaneOf(file'))
      BY DEF FileTrue
    <2>2. IndexFound(file', SaneOf(file'))
      BY <2>1, IndexOfChain
    <2>3. Len(SaneOf(file')) \in Nat /\ Len(SaneOf(file')) \in 0 .. Len(SaneOf(file'))
      BY <2>1, ChainIs
    <2>4. IdxTyped(Index(SaneOf(file'), Len(SaneOf(file'))))
      BY <2>1, <2>3, IndexTyped
    <2>5. QED
      BY <1>1, <2>2, <2>4 DEF IndexFound
  <1>6. IdxTrue'
    BY <1>5 DEF IdxTrue
  <1>7. LatestTrue'
    BY <1>1 DEF LatestTrue, DigestOf
  <1>8. AckedTrue(acked', file', idx', part')
    <2>1. acked' \subseteq SlotsOfLog(SaneOf(file'))
      BY <1>1 DEF LogInv, AckedTrue
    <2>2. Chain(truth', SaneOf(file'))
      BY DEF FileTrue
    <2>3. Len(SaneOf(file')) \in Nat
      BY <2>2 DEF Chain
    <2>4. SlotsOfLog(idx') = SlotsOfLog(SaneOf(file'))
      BY <1>5, <2>3, IndexSlotsAll
    <2>5. QED
      BY <2>1, <2>4 DEF AckedTrue
  <1>9. ReaderTrue(rd', truth', file', part')
    BY <1>1 DEF ReaderTrue, IdleReader
  <1>10. QED
    BY <1>4, <1>6, <1>7, <1>8, <1>9 DEF LogInv

LEMMA StepRestart ==
    ASSUME LogInv, part' = part, Restart
    PROVE  LogInv'
  <1>1. Reopen /\ file' = file /\ held' = held /\ truth' = truth /\ inferred' = inferred
    BY DEF Restart, Reopen
  <1>2. FileTrue(truth', file', held', part') /\ InferredTrue(inferred', file', part')
    BY <1>1 DEF LogInv
  <1>3. QED
    BY <1>1, <1>2, ReopenStep

LEMMA TornIs ==
    ASSUME NEW r \in Recs
    PROVE  [r EXCEPT !.torn = TRUE] \in Recs /\ [r EXCEPT !.torn = TRUE].torn
  BY DEF Recs

LEMMA StepCrashMidAppend ==
    ASSUME LogInv, part = "recorder", part' = part, CrashMidAppend
    PROVE  LogInv' /\ held' = held
  <1>1. PICK t \in Thread : /\ th[t].pc = "append"
                            /\ Write(Append(file, [th[t].rec EXCEPT !.torn = TRUE]))
    BY DEF CrashMidAppend
  <1> DEFINE r == [th[t].rec EXCEPT !.torn = TRUE]
             g == Append(file, r)
  <1>2. Reopen /\ truth' = truth /\ inferred' = inferred
    BY DEF CrashMidAppend, Reopen
  <1>3. JobTrue(th[t], truth, file, idx, held) /\ IsHistory(truth) /\ truth \in Histories
        /\ held = VersionsOf(truth, SaneOf(file))
    BY Here
  <1>4. Chain(truth, file) /\ th[t].rec \in Recs
    BY <1>1, <1>3 DEF JobTrue, RecordingTrue, Recordings
  <1>5. r \in Recs /\ r.torn
    BY <1>4, TornIs
  <1> HIDE DEF r
  <1>6. SaneOf(g) = file /\ HoldsLog(g, file) /\ SaneOf(file) = file
    BY <1>4, <1>5, SaneTorn, SaneChain
  <1> HIDE DEF g
  <1>7. file' = g /\ held' = ToSet(Versions(g))
    BY <1>1 DEF Write, g, r
  <1>8. ToSet(Versions(g)) = VersionsOf(truth, file)
    BY <1>3, <1>4, <1>6, VersionsSay DEF SaysHeld
  <1>9. FileTrue(truth', file', held', part')
    BY <1>2, <1>3, <1>4, <1>6, <1>7, <1>8 DEF FileTrue
  <1>10. InferredTrue(inferred', file', part')
    BY <1>2 DEF LogInv, InferredTrue
  <1>11. SaneOf(file') = SaneOf(file)
    BY <1>6, <1>7
  <1>12. held' = held
    BY <1>3, <1>6, <1>7, <1>8
  <1>13. QED
    BY <1>2, <1>9, <1>10, <1>11, <1>12, ReopenStep

-----------------------------------------------------------------------------
(* The specification.                                                        *)

LEMMA EmptyChain ==
    ASSUME NEW h
    PROVE  /\ Chain(h, <<>>) /\ Len(<<>>) = 0 /\ SaneOf(<<>>) = <<>> /\ HoldsLog(<<>>, <<>>)
           /\ VersionsOf(h, <<>>) = {} /\ Index(<<>>, 0) = <<>>
  <1>1. <<>> \in Seq(Recs) /\ Len(<<>>) = 0
    OBVIOUS
  <1>2. Chain(h, <<>>)
    BY <1>1 DEF Chain, Rising
  <1>3. SaneOf(<<>>) = <<>> /\ HoldsLog(<<>>, <<>>)
    BY <1>2, SaneChain
  <1>4. VersionsOf(h, <<>>) = {}
    BY <1>1 DEF VersionsOf
  <1>5. Index(<<>>, 0) = <<>>
    BY DEF Index
  <1>6. QED
    BY <1>1, <1>2, <1>3, <1>4, <1>5

LEMMA InitTrue ==
    ASSUME LogInit
    PROVE  LogInv
  <1>1. /\ truth \in Histories /\ file = <<>> /\ held = {} /\ idx = <<>> /\ latest = Nobody
        /\ th = [t \in Thread |-> IF t = Recorder THEN Job("restore") ELSE Idle]
        /\ rd = IdleReader /\ acked = {} /\ inferred = {} /\ part \in {"recorder", "one_writer"}
    BY DEF LogInit, Init
  <1>2. /\ Chain(truth, file) /\ Len(file) = 0 /\ SaneOf(file) = file /\ HoldsLog(file, file)
        /\ VersionsOf(truth, file) = {} /\ Index(file, 0) = <<>>
    BY <1>1, EmptyChain
  <1>3. FileTrue(truth, file, held, part)
    BY <1>1, <1>2 DEF FileTrue
  <1>4. /\ DOMAIN th = Thread /\ th[Recorder] = Job("restore")
        /\ \A t \in Thread : t # Recorder => th[t] = Idle
    BY <1>1 DEF Thread
  <1>5. ThreadsTrue
    <2>1. \A t \in Thread : IsJob(th[t]) /\ th[t].pc \in {"idle", "restore"}
      BY <1>4, IdleIs
    <2>2. \A t \in Thread : JobTrue(th[t], truth, file, idx, held)
      BY <2>1, IdleJobTrue
    <2>3. \A t \in Requests : th[t] = Idle
      BY <1>4, LogAssumption DEF Thread
    <2>4. QED
      BY <1>1, <1>4, <2>1, <2>2, <2>3, IdleIs DEF ThreadsTrue
  <1>6. IdxTrue
    <2>1. IdxTyped(idx)
      BY <1>1 DEF IdxTyped
    <2>2. QED
      BY <1>1, <1>2, <2>1 DEF IdxTrue
  <1>7. LatestTrue
    BY <1>1 DEF LatestTrue, DigestOf
  <1>8. AckedTrue(acked, file, idx, part) /\ InferredTrue(inferred, file, part)
    BY <1>1, <1>2 DEF AckedTrue, InferredTrue
  <1>9. ReaderTrue(rd, truth, file, part)
    BY <1>1 DEF ReaderTrue, IdleReader
  <1>10. QED
    BY <1>3, <1>5, <1>6, <1>7, <1>8, <1>9 DEF LogInv

\* A log with nothing torn is a chain.
LEMMA WholeChain ==
    ASSUME LogInv, Whole
    PROVE  Chain(truth, file)
  <1>1. file \in Seq(Recs) /\ Chain(truth, SaneOf(file))
    BY Here DEF HoldsLog
  <1>2. file # <<>> => Len(file) \in DOMAIN file
    BY <1>1
  <1>3. SaneOf(file) = file
    BY <1>2 DEF SaneOf, Whole
  <1>4. QED
    BY <1>1, <1>3

\* A thread that has the log in hand is alone with it.
LEMMA BusyAlone ==
    ASSUME LogInv, NEW t \in Thread, th[t].pc # "idle"
    PROVE  Alone(t)
  <1>1. \A u, v \in Thread : u # v => th[u].pc = "idle" \/ th[v].pc = "idle"
    BY DEF LogInv, ThreadsTrue
  <1>2. QED
    BY <1>1 DEF Alone

LEMMA RecorderAlone ==
    ASSUME LogInv, part = "recorder", part' = part
    PROVE  Turn(Recorder)
  <1>1. \A t \in Requests : th[t].pc = "idle"
    BY DEF LogInv, ThreadsTrue
  <1>2. QED
    BY <1>1 DEF Turn, Alone, Thread

LEMMA StepRecordStep ==
    ASSUME LogInv, NEW t \in Thread, Turn(t), RecordStep(t)
    PROVE  LogInv'
  BY StepReadBase, StepStatLog, StepAppendRecord, StepPushEntry, StepCacheDigest DEF RecordStep

LEMMA StepPolling ==
    ASSUME LogInv, Turn(Recorder), Chain(truth, file), Polling
    PROVE  LogInv'
  <1>1. Recorder \in Thread
    BY DEF Thread
  <1>2. CASE \E s \in Slot : Poll(s)
    BY <1>2, StepPoll
  <1>3. CASE ReadNewest
    BY <1>3, StepReadNewest
  <1>4. CASE FillDigest
    BY <1>4, StepFillDigest
  <1>5. CASE RecordStep(Recorder)
    BY <1>1, <1>5, StepRecordStep
  <1>6. QED
    BY <1>2, <1>3, <1>4, <1>5 DEF Polling

LEMMA StepThinning ==
    ASSUME LogInv, Turn(Recorder), part = "recorder", Thinning
    PROVE  LogInv'
  BY StepReadToThin, StepRenameOver, StepReindex DEF Thinning

LEMMA StepRestoring ==
    ASSUME LogInv, Turn(Recorder), part = "recorder", Chain(truth, file), Restoring
    PROVE  LogInv'
  <1>1. CASE \E S \in SUBSET Slot : ImportPack(S)
    BY <1>1, StepImportPack
  <1>2. CASE MergePack
    BY <1>2, StepMergePack
  <1>3. CASE MergeRename
    BY <1>3, StepMergeRename
  <1>4. CASE MergeIndex
    BY <1>4, StepMergeIndex
  <1>5. CASE StatChain
    BY <1>5, StepStatChain
  <1>6. CASE AppendChain
    BY <1>6, StepAppendChain
  <1>7. CASE IndexChain
    BY <1>7, StepIndexChain
  <1>8. CASE StartLoop
    BY <1>8, StepStartLoop
  <1>9. QED
    BY <1>1, <1>2, <1>3, <1>4, <1>5, <1>6, <1>7, <1>8 DEF Restoring

LEMMA StepOneRecorder ==
    ASSUME LogInv, part = "recorder", part' = part, OneRecorder
    PROVE  LogInv'
  <1>1. Turn(Recorder)
    BY RecorderAlone
  <1>2. CASE StartLoop
    BY <1>1, <1>2, StepStartLoop
  <1>3. CASE Thinning
    BY <1>1, <1>3, StepThinning
  <1>4. CASE Restart
    BY <1>4, StepRestart
  <1>5. CASE CrashMidAppend
    BY <1>5, StepCrashMidAppend
  <1>6. CASE Whole /\ (Polling \/ Restoring)
    BY <1>1, <1>6, WholeChain, StepPolling, StepRestoring
  <1>7. QED
    BY <1>2, <1>3, <1>4, <1>5, <1>6 DEF OneRecorder

LEMMA StepOneWriter ==
    ASSUME LogInv, part = "one_writer", part' = part, OneWriter
    PROVE  LogInv'
  <1>1. \A t \in Thread : Alone(t) => Turn(t)
    BY DEF Turn
  <1>2. Recorder \in Thread /\ Requests \subseteq Thread
    BY DEF Thread
  <1>3. Chain(truth, file)
    BY IndexCovers
  <1>4. CASE StartLoop
    <2>1. th[Recorder].pc # "idle"
      BY <1>4 DEF StartLoop
    <2>2. Turn(Recorder)
      BY <1>1, <1>2, <2>1, BusyAlone
    <2>3. QED
      BY <1>4, <2>2, StepStartLoop
  <1>5. CASE LookingUp
    BY <1>5, StepStartLookup, StepReadLog, StepEndLookup DEF LookingUp
  <1>6. CASE Restart
    BY <1>6, StepRestart
  <1>7. CASE Alone(Recorder) /\ Polling
    BY <1>1, <1>2, <1>3, <1>7, StepPolling
  <1>8. ASSUME NEW t \in Requests, Alone(t), Requesting(t)
        PROVE  LogInv'
    <2>1. Turn(t) /\ t \in Thread
      BY <1>1, <1>2, <1>8
    <2>2. CASE \E s \in Slot, known \in BOOLEAN : StartRecord(t, s, known)
      BY <2>1, <2>2, StepStartRecord
    <2>3. CASE RecordStep(t)
      BY <2>1, <2>3, StepRecordStep
    <2>4. QED
      BY <1>8, <2>2, <2>3 DEF Requesting
  <1>9. QED
    BY <1>4, <1>5, <1>6, <1>7, <1>8 DEF OneWriter

LEMMA Stutter ==
    ASSUME LogInv, UNCHANGED partVars
    PROVE  LogInv'
  <1>1. UNCHANGED <<truth, logVars, th, acked, inferred>> /\ part' = part /\ rd' = rd
    BY DEF partVars, vars, logVars
  <1>2. ReaderTrue(rd', truth, file, part)
    BY <1>1 DEF LogInv
  <1>3. QED
    BY <1>1, <1>2, ReaderStep

LEMMA NextTrue ==
    ASSUME LogInv, [LogNext]_partVars
    PROVE  LogInv'
  BY StepOneRecorder, StepOneWriter, Stutter DEF LogNext

\* The log is a chain of what the account held, whoever has it in hand holds of
\* it what is there, and the index and the digest follow it: the strengthening
\* that the properties below rest on.
THEOREM LogInvariant == LogSpec => []LogInv
  <1>1. LogInit => LogInv
    BY InitTrue
  <1>2. LogInv /\ [LogNext]_partVars => LogInv'
    BY NextTrue
  <1>3. QED
    BY <1>1, <1>2, PTL DEF LogSpec

-----------------------------------------------------------------------------
(* What the invariant gives.                                                 *)

Finds(h, f, w, p) ==
    LET v == VersionAt(Index(f, Len(f)), w, f[p].slot)
    IN  v.slot = f[p].slot /\ v.val = h[f[p].slot]

\* Every record is found at its slot.
LEMMA RecordFound ==
    ASSUME NEW h, IsHistory(h), NEW f, Chain(h, f), NEW w, BeginsWith(w, f),
           NEW p \in 1 .. Len(f)
    PROVE  Finds(h, f, w, p)
  <1> DEFINE n == Len(f)
             s == f[p].slot
             v == VersionAt(Index(f, n), w, s)
  <1>1. f \in Seq(Recs) /\ n \in Nat /\ n \in 0 .. n
    BY ChainIs
  <1>2. \A q \in 1 .. n : f[q].slot \in Nat
    BY <1>1, RecordIs DEF Slot
  <1>3. LookedUp(h, f, w, n, s)
    BY <1>1, <1>2, LookupFinds
  <1>4. Found(h, f, n, s, v)
    BY <1>3 DEF LookedUp
  <1>5. ~\A q \in 1 .. n : ~(f[q].slot <= s)
    BY <1>2
  <1> HIDE DEF v
  <1>6. PICK q \in 1 .. n : /\ NewestAt(f, n, s, q)
                            /\ v.slot = f[q].slot /\ v.val = h[f[q].slot]
    BY <1>4, <1>5 DEF Found
  <1>7. f[q].slot <= s /\ p <= q
    BY <1>2, <1>6 DEF NewestAt
  <1>8. q = p
    <2>1. SUFFICES ASSUME q # p PROVE FALSE
      OBVIOUS
    <2>2. p < q
      BY <1>1, <1>7, <2>1
    <2>3. f[p].slot < f[q].slot
      BY <2>2 DEF Chain, Rising
    <2>4. QED
      BY <1>2, <1>7, <2>3
  <1>9. QED
    BY <1>6, <1>8 DEF Finds, v

\* With no thread at work the index and the digest are those of the chain.
LEMMA QuietHere ==
    ASSUME LogInv, Quiet
    PROVE  /\ idx = Index(SaneOf(file), Len(SaneOf(file)))
           /\ DigestOf(latest, truth, idx)
           /\ Len(SaneOf(file)) \in Nat /\ DOMAIN idx = 1 .. Len(SaneOf(file))
           /\ \A p \in DOMAIN idx : idx[p].slot = SaneOf(file)[p].slot
  <1>1. Settled /\ \A t \in Thread : th[t].pc # "digest"
    BY DEF Quiet, Settled, Unsettled
  <1>2. idx = Index(SaneOf(file), Len(SaneOf(file))) /\ DigestOf(latest, truth, idx)
    BY <1>1 DEF LogInv, IdxTrue, LatestTrue
  <1>3. Len(SaneOf(file)) \in Nat
    BY Here DEF Chain
  <1>4. QED
    BY <1>2, <1>3, IndexIs

LEMMA InvAcked ==
    ASSUME LogInv
    PROVE  AckedHeld
  <1> DEFINE f == SaneOf(file)
  <1>1. SUFFICES ASSUME Quiet, NEW s \in acked
                 PROVE  /\ VersionAt(idx, file, s).slot = s
                        /\ VersionAt(idx, file, s).val = truth[s]
    BY DEF AckedHeld
  <1>2. IsHistory(truth) /\ Chain(truth, f) /\ BeginsWith(file, f)
    BY Here
  <1>3. idx = Index(f, Len(f))
    BY <1>1, QuietHere
  <1>4. PICK p \in 1 .. Len(f) : f[p].slot = s
    BY DEF LogInv, AckedTrue, SlotsOfLog
  <1> HIDE DEF f
  <1>5. Finds(truth, f, file, p)
    BY <1>2, RecordFound
  <1>6. QED
    BY <1>3, <1>4, <1>5 DEF Finds

LEMMA InvTypes ==
    ASSUME LogInv
    PROVE  TypeOK
  <1>1. truth \in Histories /\ MaxSlot \in Nat /\ file \in Seq(Recs) /\ Chain(truth, SaneOf(file))
    BY Here DEF HoldsLog
  <1>2. \A p \in DOMAIN file : file[p].slot \in Slot /\ file[p].kind \in Kinds
    <2>1. DOMAIN file = 1 .. Len(file)
      BY <1>1
    <2>2. QED
      BY <1>1, <2>1, RecordIs DEF Kinds
  <1>3. \A p \in DOMAIN idx : idx[p].slot \in Slot /\ idx[p].pos \in Nat \ {0}
    BY Here DEF IdxTyped
  <1>4. latest \in ToSet(truth) \cup {Nobody}
    <2>1. Len(truth) = MaxSlot /\ truth \in Seq(ToSet(truth))
      BY <1>1, LogAssumption
    <2>2. DOMAIN truth = Slot
      BY <1>1, <2>1 DEF Slot
    <2>3. {truth[s] : s \in Slot} = ToSet(truth)
      BY <2>2 DEF ToSet
    <2>4. QED
      BY <2>3 DEF LogInv, LatestTrue
  <1>5. SlotsOfLog(SaneOf(file)) \subseteq Slot
    BY <1>1, VersionsAreAll
  <1>6. acked \subseteq Slot
    BY <1>5 DEF LogInv, AckedTrue
  <1>7. inferred \subseteq Slot
    <2>1. InferredTrue(inferred, file, part) /\ part \in {"recorder", "one_writer"}
      BY DEF LogInv, ThreadsTrue
    <2>2. part = "one_writer" => SaneOf(file) = file
      BY IndexCovers, SaneChain
    <2>3. QED
      BY <1>5, <2>1, <2>2 DEF InferredTrue
  <1>8. QED
    BY <1>1, <1>2, <1>3, <1>4, <1>6, <1>7 DEF TypeOK

LEMMA InvBooks ==
    ASSUME LogInv
    PROVE  BooksTrue
  <1> DEFINE f == SaneOf(file)
  <1>1. /\ IsHistory(truth) /\ Chain(truth, f) /\ BeginsWith(file, f) /\ HoldsLog(file, f)
        /\ Len(f) \in Nat
    BY Here DEF Chain
  <1>2. Quiet => /\ idx = Index(f, Len(f)) /\ DigestOf(latest, truth, idx)
                 /\ DOMAIN idx = 1 .. Len(f) /\ \A p \in DOMAIN idx : idx[p].slot = f[p].slot
    BY QuietHere
  <1> HIDE DEF f
  <1>3. DigestTrue
    <2>1. SUFFICES ASSUME Quiet, latest # Nobody
                   PROVE  latest = VersionAt(idx, file, NewestSlot).val
      BY DEF DigestTrue
    <2>2. Len(idx) = Len(f)
      BY <1>1, <1>2, <2>1, IndexIs
    <2>3. Len(f) # 0 /\ latest = truth[idx[Len(f)].slot]
      BY <1>2, <2>1, <2>2 DEF DigestOf
    <2>4. latest = truth[f[Len(f)].slot]
      BY <1>1, <1>2, <2>1, <2>3
    <2>5. NewestIs(truth, f, file)
      BY <1>1, <2>3, NewestRead
    <2>6. QED
      BY <1>2, <2>1, <2>4, <2>5 DEF NewestIs
  <1>4. IndexTrue
    <2>1. SUFFICES ASSUME Quiet
                   PROVE  /\ idx = IndexOf(file)
                          /\ \A p \in DOMAIN idx : VersionAt(idx, file, idx[p].slot).val # Bad
                          /\ \A p \in DOMAIN idx : p - StartOf(idx, p) <= FullEvery
      BY DEF IndexTrue
    <2>2. idx = IndexOf(file)
      BY <1>1, <1>2, <2>1, IndexOfChain DEF IndexFound
    <2>3. ASSUME NEW p \in DOMAIN idx PROVE VersionAt(idx, file, idx[p].slot).val # Bad
      <3>1. p \in 1 .. Len(f) /\ idx[p].slot = f[p].slot
        BY <1>2, <2>1, <2>3
      <3>2. Finds(truth, f, file, p)
        BY <1>1, <3>1, RecordFound
      <3>3. VersionAt(idx, file, idx[p].slot).val = truth[f[p].slot]
        BY <1>2, <2>1, <3>1, <3>2 DEF Finds
      <3>4. f[p].slot \in Slot
        BY <1>1, <3>1, RecordIs DEF Chain
      <3>5. QED
        BY <1>1, <3>3, <3>4 DEF IsHistory
    <2>4. ASSUME NEW p \in DOMAIN idx PROVE p - StartOf(idx, p) <= FullEvery
      <3>1. p \in 1 .. Len(f) /\ Len(f) \in 0 .. Len(f)
        BY <1>1, <1>2, <2>1, <2>4
      <3>2. StartsWell(f, Len(f), p)
        BY <1>1, <3>1, StartOfChain
      <3>3. QED
        BY <1>2, <2>1, <3>2 DEF StartsWell
    <2>5. QED
      BY <2>2, <2>3, <2>4
  <1>5. QED
    BY <1>3, <1>4, InvTypes DEF BooksTrue

LEMMA InvReads ==
    ASSUME LogInv
    PROVE  ReadsTrue
  <1>1. LookupExact
    BY DEF LogInv, ReaderTrue, LookupExact
  <1>2. InferredFlagged
    <2>1. SUFFICES ASSUME Quiet, NEW p \in DOMAIN idx, idx[p].slot \in inferred
                   PROVE  ~idx[p].known
      BY DEF InferredFlagged
    <2>2. InferredTrue(inferred, file, part) /\ part \in {"recorder", "one_writer"}
      BY DEF LogInv, ThreadsTrue
    <2>3. part = "one_writer"
      BY <2>1, <2>2 DEF InferredTrue
    <2>4. Chain(truth, file) /\ SaneOf(file) = file
      BY <2>3, IndexCovers, SaneChain
    <2>5. idx = Index(file, Len(file)) /\ Len(file) \in Nat /\ p \in 1 .. Len(file)
      BY <2>1, <2>4, QuietHere
    <2>6. idx[p].slot = file[p].slot /\ idx[p].known = file[p].known
      BY <2>5, IndexIs
    <2>7. QED
      BY <2>1, <2>2, <2>3, <2>5, <2>6 DEF InferredTrue
  <1>3. QED
    BY <1>1, <1>2 DEF ReadsTrue

\* Whatever is recorded, polled, thinned, imported or looked up, and however
\* often the process stops, even in the middle of a write: what record()
\* acknowledged and no thin dropped is found at its slot and reads as what the
\* account held (records.rs record_with_balance, thin, import_pack, version_at).
THEOREM AckedAreHeld == LogSpec => []AckedHeld
  <1>1. LogInv => AckedHeld
    BY InvAcked
  <1>2. QED
    BY <1>1, LogInvariant, PTL

\* The index extended call by call is the one an open would build, each of its
\* versions reads after at most FULL_EVERY diffs, and the digest latest_is
\* answers with is the newest version's (records.rs index_of, latest_is).
THEOREM BooksAreTrue == LogSpec => []BooksTrue
  <1>1. LogInv => BooksTrue
    BY InvBooks
  <1>2. QED
    BY <1>1, LogInvariant, PTL

\* A lookup that read the index before an append and the file after it still
\* gives a version no older than what was acknowledged when it began, as the
\* account held it; a balance recorded as inferred never reads as observed
\* (records.rs version_at, BALANCE_UNKNOWN).
THEOREM ReadsAreTrue == LogSpec => []ReadsTrue
  <1>1. LogInv => ReadsTrue
    BY InvReads
  <1>2. QED
    BY <1>1, LogInvariant, PTL

-----------------------------------------------------------------------------
(* The version map the log implements.                                       *)

MapValues == UNION {ToSet(h) : h \in Histories}

LEMMA HeldAre ==
    ASSUME LogInv
    PROVE  /\ Abstract!SlotsHeld = SlotsOf(held)
           /\ \A v \in held : v.slot \in Slot /\ v = VersionOf(truth, v.slot)
           /\ \A s \in Slot : /\ VersionOf(truth, s) \in [slot : Slot, val : MapValues]
                              /\ VersionOf(truth, s).slot = s
  <1>1. Abstract!SlotsHeld = SlotsOf(held)
    BY DEF Abstract!SlotsHeld, SlotsOf
  <1>2. truth \in Histories /\ MaxSlot \in Nat /\ held \subseteq AllVersions(truth)
    BY Here, VersionsAreAll
  <1>3. \A v \in held : v.slot \in Slot /\ v = VersionOf(truth, v.slot)
    BY <1>2 DEF AllVersions, VersionOf
  <1>4. DOMAIN truth = Slot
    BY <1>2, LogAssumption DEF Slot
  <1>5. \A s \in Slot : truth[s] \in MapValues
    BY <1>2, <1>4 DEF MapValues, ToSet
  <1>6. QED
    BY <1>1, <1>3, <1>5 DEF VersionOf

\* One record more.
LEMMA MapRecord ==
    ASSUME LogInv, NEW t \in Thread, AppendRecord(t)
    PROVE  Abstract!Next
  <1> DEFINE j == th[t]
             g == Append(file, j.rec)
             v == VersionOf(truth, j.slot)
  <1>1. j.pc = "append" /\ Write(g) /\ JobTrue(j, truth, file, idx, held) /\ IsHistory(truth)
        /\ held = VersionsOf(truth, SaneOf(file))
    BY Here DEF AppendRecord
  <1>2. /\ j.slot \in Slot /\ Chain(truth, file) /\ \A s \in SlotsOfLog(file) : s < j.slot
        /\ Chain(truth, g) /\ j.rec.slot = j.slot /\ j.rec \in Recs
    BY <1>1 DEF JobTrue, RecordingTrue, Recordings
  <1>3. SaneOf(file) = file /\ held = VersionsOf(truth, file)
    BY <1>1, <1>2, SaneChain
  <1>4. held' = VersionsOf(truth, g)
    <2>1. HoldsLog(g, g)
      BY <1>2, SaneChain
    <2>2. QED
      BY <1>1, <1>2, <2>1, VersionsSay DEF Write, SaysHeld
  <1>5. /\ Len(file) \in Nat /\ Len(g) = Len(file) + 1 /\ g[Len(file) + 1].slot = j.slot
        /\ \A p \in 1 .. Len(file) : g[p] = file[p]
    BY <1>2, ChainIs, AppendProperties
  <1> HIDE DEF g
  <1>6. held' = held \cup {v}
    <2>1. \A p \in 1 .. Len(g) : p \in 1 .. Len(file) \/ p = Len(file) + 1
      BY <1>5
    <2>2. \A p \in 1 .. Len(file) : p \in 1 .. Len(g)
      BY <1>5
    <2>3. Len(file) + 1 \in 1 .. Len(g)
      BY <1>5
    <2>4. QED
      BY <1>3, <1>4, <1>5, <2>1, <2>2, <2>3 DEF VersionsOf
  <1>7. v \in [slot : Slot, val : MapValues] /\ v.slot = j.slot
    BY <1>2, HeldAre
  <1>8. \A s \in Abstract!SlotsHeld : s < j.slot
    BY <1>2, <1>3, HeldAre, AckedHere
  <1> HIDE DEF v, j
  <1>9. Abstract!Record(v)
    BY <1>6, <1>7, <1>8 DEF Abstract!Record
  <1>10. QED
    BY <1>7, <1>9 DEF Abstract!Next, MapValues

LEMMA KeptIs ==
    ASSUME NEW S, NEW s, NEW n
    PROVE  Abstract!IsKept(S, s, n) = IsKept(S, s, n)
  BY DEF Abstract!IsKept, IsKept, Abstract!Minus, Minus

\* A thin renamed over the log.
LEMMA MapThin ==
    ASSUME LogInv, RenameOver
    PROVE  Abstract!Next
  <1> DEFINE j == th[Recorder]
  <1>1. /\ j.pc = "rename" /\ Write(j.buf) /\ JobTrue(j, truth, file, idx, held)
        /\ IsHistory(truth)
    BY Here DEF RenameOver, Thread
  <1>2. Chain(truth, j.buf)
    BY <1>1 DEF JobTrue, ThinningTrue
  <1>3. PICK n \in Slot : VersionsOf(truth, j.buf) = {v \in held : IsKept(SlotsOf(held), v.slot, n)}
    BY <1>1 DEF JobTrue, ThinningTrue
  <1>4. held' = VersionsOf(truth, j.buf)
    <2>1. HoldsLog(j.buf, j.buf)
      BY <1>2, SaneChain
    <2>2. QED
      BY <1>1, <1>2, <2>1, VersionsSay DEF Write, SaysHeld
  <1>5. held' = {v \in held : Abstract!IsKept(Abstract!SlotsHeld, v.slot, n)}
    BY <1>3, <1>4, HeldAre, KeptIs
  <1>6. Abstract!ThinAsOf(n)
    BY <1>5 DEF Abstract!ThinAsOf
  <1>7. QED
    BY <1>6 DEF Abstract!Next

\* A chain that holds all there was is an import.
LEMMA MapImport ==
    ASSUME LogInv, NEW f, Chain(truth, f), held' = VersionsOf(truth, f), held \subseteq held'
    PROVE  Abstract!Next
  <1>1. held' \subseteq AllVersions(truth)
    BY VersionsAreAll
  <1>2. \A v \in held' : v.slot \in Slot /\ v = VersionOf(truth, v.slot)
    BY <1>1 DEF AllVersions, VersionOf
  <1>3. \A v \in held' : v.val \in MapValues
    <2>1. \A v \in held' : v \in [slot : Slot, val : MapValues]
      BY <1>2, HeldAre
    <2>2. QED
      BY <2>1
  <1>4. ASSUME NEW v \in held' \ held PROVE v.slot \notin Abstract!SlotsHeld
    <2>1. SUFFICES ASSUME v.slot \in Abstract!SlotsHeld PROVE FALSE
      OBVIOUS
    <2>2. PICK u \in held : u.slot = v.slot
      BY <2>1, HeldAre DEF SlotsOf
    <2>3. u = VersionOf(truth, u.slot)
      BY HeldAre
    <2>4. v = VersionOf(truth, v.slot)
      BY <1>2, <1>4
    <2>5. QED
      BY <1>4, <2>2, <2>3, <2>4
  <1>5. \A v, w \in held' : v.slot = w.slot => v = w
    BY <1>2
  <1>6. Abstract!Import
    BY <1>2, <1>3, <1>4, <1>5 DEF Abstract!Import, MapValues
  <1>7. QED
    BY <1>6 DEF Abstract!Next

LEMMA MapMerge ==
    ASSUME LogInv, MergeRename
    PROVE  Abstract!Next
  <1> DEFINE j == th[Recorder]
  <1>1. /\ j.pc = "mergerename" /\ Write(j.buf) /\ JobTrue(j, truth, file, idx, held)
        /\ IsHistory(truth)
    BY Here DEF MergeRename, Thread
  <1>2. Chain(truth, j.buf) /\ held \subseteq VersionsOf(truth, j.buf)
    BY <1>1 DEF JobTrue, RestoringTrue
  <1>3. held' = VersionsOf(truth, j.buf)
    <2>1. HoldsLog(j.buf, j.buf)
      BY <1>2, SaneChain
    <2>2. QED
      BY <1>1, <1>2, <2>1, VersionsSay DEF Write, SaysHeld
  <1>4. QED
    BY <1>2, <1>3, MapImport

LEMMA MapAppend ==
    ASSUME LogInv, AppendChain
    PROVE  Abstract!Next
  <1> DEFINE j == th[Recorder]
             g == file \o j.buf
  <1>1. /\ j.pc = "chainappend" /\ Write(g) /\ JobTrue(j, truth, file, idx, held)
        /\ IsHistory(truth) /\ held = VersionsOf(truth, SaneOf(file))
    BY Here DEF AppendChain, Thread
  <1>2. /\ Chain(truth, file) /\ Chain(truth, j.buf)
        /\ \A s \in SlotsOfLog(file), t \in SlotsOfLog(j.buf) : s < t
    BY <1>1 DEF JobTrue, RestoringTrue
  <1>3. Joined(truth, file, j.buf)
    BY <1>2, ChainsJoin
  <1>4. /\ Chain(truth, g) /\ Len(g) = Len(file) + Len(j.buf)
        /\ \A p \in 1 .. Len(file) : g[p] = file[p]
    BY <1>3 DEF Joined
  <1>5. held' = VersionsOf(truth, g)
    <2>1. HoldsLog(g, g)
      BY <1>4, SaneChain
    <2>2. QED
      BY <1>1, <1>4, <2>1, VersionsSay DEF Write, SaysHeld
  <1>6. held = VersionsOf(truth, file)
    BY <1>1, <1>2, SaneChain
  <1>7. Len(file) \in Nat /\ Len(j.buf) \in Nat
    BY <1>2, ChainIs
  <1> HIDE DEF g
  <1>8. \A p \in 1 .. Len(file) : p \in 1 .. Len(g)
    BY <1>4, <1>7
  <1>9. held \subseteq held'
    BY <1>4, <1>5, <1>6, <1>8 DEF VersionsOf
  <1>10. QED
    BY <1>4, <1>5, <1>9, MapImport

LEMMA MapNext ==
    ASSUME LogInv, [LogNext]_partVars
    PROVE  [Abstract!Next]_held
  <1>1. CASE UNCHANGED partVars
    BY <1>1 DEF partVars, vars
  <1>2. ASSUME NEW t \in Thread, RecordStep(t)
        PROVE  Abstract!Next \/ held' = held
    BY <1>2, MapRecord
       DEF RecordStep, ReadBase, StatLog, PushEntry, CacheDigest, logVars
  <1>3. Recorder \in Thread /\ Requests \subseteq Thread
    BY DEF Thread
  <1>4. ASSUME Polling
        PROVE  Abstract!Next \/ held' = held
    BY <1>2, <1>3, <1>4 DEF Polling, Poll, ReadNewest, FillDigest, logVars
  <1>5. ASSUME Thinning
        PROVE  Abstract!Next \/ held' = held
    BY <1>5, MapThin DEF Thinning, ReadToThin, Reindex, logVars
  <1>6. ASSUME Restoring
        PROVE  Abstract!Next \/ held' = held
    BY <1>6, MapMerge, MapAppend
       DEF Restoring, ImportPack, MergePack, MergeIndex, StatChain, IndexChain, StartLoop, logVars
  <1>7. ASSUME StartLoop \/ LookingUp \/ Restart
        PROVE  held' = held
    BY <1>7 DEF StartLoop, LookingUp, StartLookup, ReadLog, EndLookup, Restart, logVars
  <1>8. ASSUME NEW t \in Requests, Requesting(t)
        PROVE  Abstract!Next \/ held' = held
    BY <1>2, <1>3, <1>8 DEF Requesting, StartRecord, logVars
  <1>9. CASE part = "recorder" /\ OneRecorder /\ UNCHANGED part
    BY <1>4, <1>5, <1>6, <1>7, <1>9, StepCrashMidAppend DEF OneRecorder
  <1>10. CASE part = "one_writer" /\ OneWriter /\ UNCHANGED part
    BY <1>4, <1>7, <1>8, <1>10 DEF OneWriter
  <1>11. QED
    BY <1>1, <1>9, <1>10 DEF LogNext

\* A log at the grain of its file and lock accesses is a map from slots to what
\* the account held: an append records, a rename thins or imports, and every
\* other access, a crash and a reopening among them, leaves the map alone
\* (the StateStore trait, records.rs:59-97).
THEOREM ImplementsMap == LogSpec => MapSpec
  <1>1. LogInit => Abstract!Init
    BY DEF LogInit, Init, Abstract!Init
  <1>2. LogInv /\ [LogNext]_partVars => [Abstract!Next]_held
    BY MapNext
  <1>3. QED
    BY <1>1, <1>2, LogInvariant, PTL DEF LogSpec, MapSpec, Abstract!Spec
=============================================================================
