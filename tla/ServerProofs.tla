---------------------------- MODULE ServerProofs ----------------------------
(***************************************************************************)
(* The server shares its builds and answers whatever is asked, by however  *)
(* many clients, over caches and a gate of any size: every build is the    *)
(* one the table names, whoever waits waits for a build that will speak,   *)
(* and whoever is told of a report finds it or was told it expired.  The   *)
(* profile it answers with counts every instruction once, on the stack it  *)
(* ran on (Flame), under names the stacks and the functions share          *)
(* (Symbols).                                                              *)
(***************************************************************************)
EXTENDS ReplayServer, Flame, Symbols, FiniteSetTheorems, WellFoundedInduction, TLAPS

-----------------------------------------------------------------------------
\* Sequences in which nothing is twice

Line(s, S) == s \in Seq(S) /\ IsInjective(s)

\* A sequence without one of its positions.
LEMMA RemoveAtProperties ==
    ASSUME NEW S, NEW s \in Seq(S), NEW k \in 1 .. Len(s)
    PROVE  /\ RemoveAt(s, k) \in Seq(S) /\ Len(RemoveAt(s, k)) = Len(s) - 1
           /\ \A i \in 1 .. Len(s) - 1 : RemoveAt(s, k)[i] = IF i < k THEN s[i] ELSE s[i + 1]
  <1> DEFINE a == SubSeq(s, 1, k - 1)
             b == SubSeq(s, k + 1, Len(s))
  <1>1. Len(s) \in Nat /\ k \in Nat /\ 1 <= k /\ k <= Len(s)
    OBVIOUS
  <1>2. a \in Seq(S) /\ Len(a) = k - 1 /\ \A i \in 1 .. k - 1 : a[i] = s[i]
    BY <1>1
  <1>3. b \in Seq(S) /\ Len(b) = Len(s) - k /\ \A i \in 1 .. Len(s) - k : b[i] = s[k + i]
    BY <1>1
  <1>4. RemoveAt(s, k) = a \o b
    BY DEF RemoveAt
  <1> HIDE DEF a, b
  <1>5. a \o b \in Seq(S) /\ Len(a \o b) = Len(a) + Len(b)
    <2>1. a \in Seq(S) /\ b \in Seq(S)
      BY <1>2, <1>3
    <2>2. QED
      BY <2>1
  <1>6. \A i \in 1 .. Len(a) + Len(b) : (a \o b)[i] = IF i <= Len(a) THEN a[i] ELSE b[i - Len(a)]
    <2>1. a \in Seq(S) /\ b \in Seq(S)
      BY <1>2, <1>3
    <2>2. QED
      BY <2>1
  <1>7. Len(a) + Len(b) = Len(s) - 1
    BY <1>1, <1>2, <1>3
  <1>8. ASSUME NEW i \in 1 .. Len(s) - 1
        PROVE  (a \o b)[i] = IF i < k THEN s[i] ELSE s[i + 1]
    <2>1. CASE i < k
      BY <1>1, <1>2, <1>6, <1>7, <2>1
    <2>2. CASE ~(i < k)
      <3>1. i - (k - 1) \in 1 .. Len(s) - k /\ k + (i - (k - 1)) = i + 1
        BY <1>1, <2>2
      <3>2. (a \o b)[i] = b[i - (k - 1)]
        BY <1>1, <1>2, <1>6, <1>7, <2>2
      <3>3. QED
        BY <1>1, <1>3, <2>2, <3>1, <3>2
    <2>3. QED
      BY <2>1, <2>2
  <1>9. QED
    BY <1>4, <1>5, <1>7, <1>8

\* The position of an element of a line, and what a line holds.
LEMMA LineBasics ==
    ASSUME NEW S, NEW s, Line(s, S)
    PROVE  /\ Len(s) \in Nat /\ DOMAIN s = 1 .. Len(s) /\ ToSet(s) \subseteq S
           /\ \A x : x \in ToSet(s) <=> \E i \in 1 .. Len(s) : s[i] = x
           /\ \A i, j \in 1 .. Len(s) : s[i] = s[j] => i = j
           /\ (s = <<>> <=> Len(s) = 0) /\ (s = <<>> => ToSet(s) = {})
  <1>1. s \in Seq(S) /\ Len(s) \in Nat /\ DOMAIN s = 1 .. Len(s)
    BY DEF Line
  <1>2. \A x : x \in ToSet(s) <=> \E i \in 1 .. Len(s) : s[i] = x
    BY <1>1 DEF ToSet
  <1>3. ToSet(s) \subseteq S
    BY <1>1, <1>2
  <1>4. \A i, j \in 1 .. Len(s) : s[i] = s[j] => i = j
    BY <1>1 DEF Line, IsInjective
  <1>5. s = <<>> <=> Len(s) = 0
    BY <1>1
  <1>6. s = <<>> => ToSet(s) = {}
    BY <1>2, <1>5
  <1>7. QED
    BY <1>1, <1>2, <1>3, <1>4, <1>5, <1>6

\* One element is taken out of the line.
LEMMA WithoutLine ==
    ASSUME NEW S, NEW s, Line(s, S), NEW x
    PROVE  /\ Line(Without(s, x), S) /\ ToSet(Without(s, x)) = ToSet(s) \ {x}
           /\ Len(Without(s, x)) = IF x \in ToSet(s) THEN Len(s) - 1 ELSE Len(s)
  <1> DEFINE at == {i \in DOMAIN s : s[i] = x}
             w == Without(s, x)
  <1>1. /\ s \in Seq(S) /\ Len(s) \in Nat /\ DOMAIN s = 1 .. Len(s)
        /\ \A y : y \in ToSet(s) <=> \E i \in 1 .. Len(s) : s[i] = y
        /\ \A i, j \in 1 .. Len(s) : s[i] = s[j] => i = j
    BY LineBasics DEF Line
  <1>2. CASE at = {}
    <2>1. w = s
      BY <1>2 DEF Without
    <2>2. x \notin ToSet(s)
      BY <1>1, <1>2
    <2>3. ToSet(s) = ToSet(s) \ {x}
      BY <2>2
    <2> HIDE DEF w, at
    <2>4. QED
      BY <2>1, <2>2, <2>3 DEF w
  <1>3. CASE at # {}
    <2>1. PICK k \in at : w = RemoveAt(s, k)
      BY <1>3 DEF Without
    <2>2. k \in 1 .. Len(s) /\ s[k] = x
      BY <1>1, <2>1
    <2>3. /\ RemoveAt(s, k) \in Seq(S) /\ Len(RemoveAt(s, k)) = Len(s) - 1
          /\ \A i \in 1 .. Len(s) - 1 : RemoveAt(s, k)[i] = IF i < k THEN s[i] ELSE s[i + 1]
      BY <1>1, <2>2, RemoveAtProperties
    <2>4. /\ w \in Seq(S) /\ Len(w) = Len(s) - 1 /\ DOMAIN w = 1 .. Len(s) - 1
          /\ \A i \in 1 .. Len(s) - 1 : w[i] = IF i < k THEN s[i] ELSE s[i + 1]
      BY <2>1, <2>3
    <2> HIDE DEF w, at
    <2>5. \A i \in 1 .. Len(w) : \E j \in 1 .. Len(s) :
             j # k /\ w[i] = s[j] /\ j = IF i < k THEN i ELSE i + 1
      BY <1>1, <2>2, <2>4
    <2>6. ASSUME NEW i1 \in 1 .. Len(w), NEW i2 \in 1 .. Len(w), w[i1] = w[i2]
          PROVE  i1 = i2
      <3>1. PICK j1 \in 1 .. Len(s) : w[i1] = s[j1] /\ j1 = IF i1 < k THEN i1 ELSE i1 + 1
        BY <2>5
      <3>2. PICK j2 \in 1 .. Len(s) : w[i2] = s[j2] /\ j2 = IF i2 < k THEN i2 ELSE i2 + 1
        BY <2>5
      <3>3. j1 = j2
        BY <1>1, <2>6, <3>1, <3>2
      <3>4. QED
        BY <3>1, <3>2, <3>3, <2>2
    <2>7. Line(w, S)
      BY <2>4, <2>6 DEF Line, IsInjective
    <2>8. ASSUME NEW y \in ToSet(w)
          PROVE  y \in ToSet(s) \ {x}
      <3>1. PICK i \in 1 .. Len(w) : y = w[i]
        BY <2>4 DEF ToSet
      <3>2. PICK j \in 1 .. Len(s) : j # k /\ y = s[j]
        BY <2>5, <3>1
      <3>3. QED
        BY <1>1, <2>2, <3>2
    <2>9. ASSUME NEW y \in ToSet(s) \ {x}
          PROVE  y \in ToSet(w)
      <3>1. PICK j \in 1 .. Len(s) : y = s[j]
        BY <1>1, <2>9
      <3>2. j # k
        BY <2>2, <2>9, <3>1
      <3>3. PICK i \in 1 .. Len(s) - 1 : w[i] = s[j]
        <4>1. CASE j < k
          <5>1. j \in 1 .. Len(s) - 1 /\ w[j] = s[j]
            BY <1>1, <2>2, <2>4, <4>1
          <5>2. QED
            BY <5>1
        <4>2. CASE j > k
          <5>1. j - 1 \in 1 .. Len(s) - 1 /\ ~(j - 1 < k) /\ (j - 1) + 1 = j
            BY <1>1, <2>2, <4>2
          <5>2. w[j - 1] = s[j]
            BY <2>4, <5>1
          <5>3. QED
            BY <5>1, <5>2
        <4>3. QED
          BY <3>2, <4>1, <4>2, <2>2
      <3>4. QED
        BY <2>4, <3>1, <3>3 DEF ToSet
    <2>10. ToSet(w) = ToSet(s) \ {x}
      BY <2>8, <2>9
    <2>11. x \in ToSet(s)
      BY <1>1, <2>2
    <2>12. QED
      BY <2>4, <2>7, <2>10, <2>11 DEF w
  <1>4. QED
    BY <1>2, <1>3

\* A newcomer joins the end.
LEMMA AppendLine ==
    ASSUME NEW S, NEW s, Line(s, S), NEW x \in S, x \notin ToSet(s)
    PROVE  /\ Line(Append(s, x), S) /\ ToSet(Append(s, x)) = ToSet(s) \cup {x}
           /\ Len(Append(s, x)) = Len(s) + 1 /\ Append(s, x)[Len(s) + 1] = x
  <1> DEFINE a == Append(s, x)
  <1>1. /\ s \in Seq(S) /\ Len(s) \in Nat /\ DOMAIN s = 1 .. Len(s)
        /\ \A y : y \in ToSet(s) <=> \E i \in 1 .. Len(s) : s[i] = y
        /\ \A i, j \in 1 .. Len(s) : s[i] = s[j] => i = j
    BY LineBasics DEF Line
  <1>2. /\ a \in Seq(S) /\ Len(a) = Len(s) + 1 /\ DOMAIN a = 1 .. Len(s) + 1
        /\ \A i \in 1 .. Len(s) : a[i] = s[i]
        /\ a[Len(s) + 1] = x
    BY <1>1
  <1> HIDE DEF a
  <1>3. \A i \in 1 .. Len(s) + 1 : i \in 1 .. Len(s) \/ i = Len(s) + 1
    BY <1>1
  <1>4. \A i \in 1 .. Len(s) : s[i] # x
    BY <1>1
  <1>5. ASSUME NEW i \in 1 .. Len(s) + 1, NEW j \in 1 .. Len(s) + 1, a[i] = a[j]
        PROVE  i = j
    BY <1>1, <1>2, <1>3, <1>4, <1>5
  <1>6. Line(a, S)
    BY <1>2, <1>5 DEF Line, IsInjective
  <1>7. \A y : y \in ToSet(a) <=> \E i \in 1 .. Len(s) + 1 : a[i] = y
    BY <1>2 DEF ToSet
  <1>8. Len(s) + 1 \in 1 .. Len(s) + 1 /\ \A i \in 1 .. Len(s) : i \in 1 .. Len(s) + 1
    BY <1>1
  <1>9. ToSet(a) = ToSet(s) \cup {x}
    BY <1>1, <1>2, <1>3, <1>7, <1>8
  <1>10. QED
    BY <1>2, <1>6, <1>9 DEF a

\* A use moves to the end.
LEMMA TouchedLine ==
    ASSUME NEW S, NEW s, Line(s, S), NEW k \in S
    PROVE  /\ Line(Touched(s, k), S) /\ ToSet(Touched(s, k)) = ToSet(s) \cup {k}
           /\ Len(Touched(s, k)) = IF k \in ToSet(s) THEN Len(s) ELSE Len(s) + 1
           /\ Len(Touched(s, k)) \in Nat \ {0} /\ Touched(s, k)[Len(Touched(s, k))] = k
  <1> DEFINE w == Without(s, k)
  <1>1. /\ Line(w, S) /\ ToSet(w) = ToSet(s) \ {k}
        /\ Len(w) = IF k \in ToSet(s) THEN Len(s) - 1 ELSE Len(s)
    BY WithoutLine
  <1>2. Touched(s, k) = Append(w, k)
    BY DEF Touched
  <1> HIDE DEF w
  <1>3. k \notin ToSet(w)
    BY <1>1
  <1>4. /\ Line(Append(w, k), S) /\ ToSet(Append(w, k)) = ToSet(w) \cup {k}
        /\ Len(Append(w, k)) = Len(w) + 1 /\ Append(w, k)[Len(w) + 1] = k
    BY <1>1, <1>3, AppendLine
  <1>5. Len(s) \in Nat /\ Len(w) \in Nat
    BY <1>1, LineBasics
  <1>6. ToSet(w) \cup {k} = ToSet(s) \cup {k}
    BY <1>1
  <1>7. Len(Append(w, k)) = IF k \in ToSet(s) THEN Len(s) ELSE Len(s) + 1
    BY <1>1, <1>4, <1>5
  <1>8. QED
    BY <1>2, <1>4, <1>5, <1>6, <1>7

\* The end of a line from some position on.
LEMMA SuffixLine ==
    ASSUME NEW S, NEW s, Line(s, S), NEW n \in 1 .. Len(s)
    PROVE  LET r == SubSeq(s, n, Len(s))
           IN  /\ Line(r, S) /\ Len(r) = Len(s) - n + 1
               /\ ToSet(r) \subseteq ToSet(s) /\ s[Len(s)] \in ToSet(r)
  <1> DEFINE r == SubSeq(s, n, Len(s))
  <1>1. /\ s \in Seq(S) /\ Len(s) \in Nat /\ DOMAIN s = 1 .. Len(s)
        /\ \A y : y \in ToSet(s) <=> \E i \in 1 .. Len(s) : s[i] = y
        /\ \A i, j \in 1 .. Len(s) : s[i] = s[j] => i = j
    BY LineBasics DEF Line
  <1>2. /\ r \in Seq(S) /\ Len(r) = Len(s) - n + 1 /\ DOMAIN r = 1 .. Len(r)
        /\ \A i \in 1 .. Len(r) : r[i] = s[n + i - 1] /\ n + i - 1 \in 1 .. Len(s)
    BY <1>1
  <1> HIDE DEF r
  <1>3. ASSUME NEW i \in 1 .. Len(r), NEW j \in 1 .. Len(r), r[i] = r[j]
        PROVE  i = j
    <2>1. /\ n + i - 1 \in 1 .. Len(s) /\ n + j - 1 \in 1 .. Len(s)
          /\ s[n + i - 1] = s[n + j - 1]
      BY <1>2, <1>3
    <2>2. n + i - 1 = n + j - 1
      BY <1>1, <2>1
    <2>3. n \in Nat /\ i \in Nat /\ j \in Nat
      BY <1>1, <1>2
    <2>4. QED
      BY <2>2, <2>3
  <1>4. Line(r, S)
    BY <1>2, <1>3 DEF Line, IsInjective
  <1>5. ToSet(r) \subseteq ToSet(s)
    <2>1. ASSUME NEW y \in ToSet(r) PROVE y \in ToSet(s)
      <3>1. PICK i \in 1 .. Len(r) : r[i] = y
        BY <1>2 DEF ToSet
      <3>2. QED
        BY <1>1, <1>2, <3>1
    <2>2. QED
      BY <2>1
  <1>6. s[Len(s)] \in ToSet(r)
    <2>1. Len(r) \in 1 .. Len(r) /\ n + Len(r) - 1 = Len(s)
      BY <1>1, <1>2
    <2>2. r[Len(r)] = s[Len(s)]
      BY <1>2, <2>1
    <2>3. QED
      BY <1>2, <2>1, <2>2 DEF ToSet
  <1>7. QED
    BY <1>2, <1>4, <1>5, <1>6 DEF r

\* The first of a line leaves it.
LEMMA TailLine ==
    ASSUME NEW S, NEW s, Line(s, S), s # <<>>
    PROVE  /\ Line(Tail(s), S) /\ ToSet(Tail(s)) = ToSet(s) \ {Head(s)}
           /\ Len(Tail(s)) = Len(s) - 1 /\ Head(s) \in ToSet(s)
  <1> DEFINE r == Tail(s)
  <1>1. /\ s \in Seq(S) /\ Len(s) \in Nat \ {0} /\ DOMAIN s = 1 .. Len(s)
        /\ \A y : y \in ToSet(s) <=> \E i \in 1 .. Len(s) : s[i] = y
        /\ \A i, j \in 1 .. Len(s) : s[i] = s[j] => i = j
    BY LineBasics DEF Line
  <1>2. /\ r \in Seq(S) /\ Len(r) = Len(s) - 1 /\ DOMAIN r = 1 .. Len(s) - 1
        /\ \A i \in 1 .. Len(s) - 1 : r[i] = s[i + 1]
        /\ Head(s) = s[1]
    BY <1>1
  <1> HIDE DEF r
  <1>3. \A i \in 1 .. Len(s) - 1 : i + 1 \in 1 .. Len(s) /\ i + 1 # 1
    BY <1>1
  <1>4. ASSUME NEW i \in 1 .. Len(s) - 1, NEW j \in 1 .. Len(s) - 1, r[i] = r[j]
        PROVE  i = j
    <2>1. i + 1 = j + 1
      BY <1>1, <1>2, <1>3, <1>4
    <2>2. QED
      BY <2>1
  <1>5. Line(r, S)
    BY <1>2, <1>4 DEF Line, IsInjective
  <1>6. \A y : y \in ToSet(r) <=> \E i \in 1 .. Len(s) - 1 : r[i] = y
    BY <1>2 DEF ToSet
  <1>7. 1 \in 1 .. Len(s) /\ \A i \in 1 .. Len(s) : i = 1 \/ (i - 1 \in 1 .. Len(s) - 1 /\ (i - 1) + 1 = i)
    BY <1>1
  <1>8. \A y \in ToSet(r) : y \in ToSet(s) \ {Head(s)}
    <2>1. TAKE y \in ToSet(r)
    <2>2. PICK i \in 1 .. Len(s) - 1 : r[i] = y
      BY <1>6
    <2>3. s[i + 1] = y /\ i + 1 \in 1 .. Len(s) /\ i + 1 # 1
      BY <1>2, <1>3, <2>2
    <2>4. QED
      BY <1>1, <1>2, <1>7, <2>3
  <1>9. \A y \in ToSet(s) \ {Head(s)} : y \in ToSet(r)
    <2>1. TAKE y \in ToSet(s) \ {Head(s)}
    <2>2. PICK i \in 1 .. Len(s) : s[i] = y
      BY <1>1
    <2>3. i # 1
      BY <1>2, <2>2
    <2>4. i - 1 \in 1 .. Len(s) - 1 /\ r[i - 1] = y
      BY <1>2, <1>7, <2>2, <2>3
    <2>5. QED
      BY <1>6, <2>4
  <1>10. ToSet(r) = ToSet(s) \ {Head(s)}
    BY <1>8, <1>9
  <1>11. Head(s) \in ToSet(s)
    BY <1>1, <1>2, <1>7
  <1>12. QED
    BY <1>2, <1>5, <1>10, <1>11 DEF r

-----------------------------------------------------------------------------
\* The invariant

ClientPcs == {"idle", "start", "queued", "run", "join", "base", "need", "wait", "told",
        "refused", "held"}
ClientRecs == [pc : ClientPcs, kind : Kinds, key : Key, task : Task \cup {NoTask},
               status : {"none", "expired"}]
TaskRecs == [stage : {"free", "queued", "build", "replay", "store", "send", "remove"},
             key : Key, ok : BOOLEAN]

Typed ==
    /\ client \in [Client -> ClientRecs] /\ task \in [Task -> TaskRecs]
    /\ jobs \in [Key -> Task \cup {NoTask}]

AnswersKept == Line(answers, Key) /\ (Fits(answers) \/ Len(answers) = 1)

BuiltKept ==
    /\ Line(built, Key) /\ Line(wanted, Key)
    /\ ToSet(wanted) = ToSet(built) /\ Len(built) <= BuiltMax

\* Who holds or awaits a permit.
Gated(r) == r.kind = "at" /\ r.pc \in {"queued", "run"}
Building(u) == u.stage \in {"queued", "build", "replay"}
GateKept ==
    /\ Line(gate, Client \cup Task)
    /\ \A c \in Client : c \in ToSet(gate) <=> Gated(client[c])
    /\ \A t \in Task : t \in ToSet(gate) <=> Building(task[t])

\* The table and the builds name each other; who waits waits for a build.
JobsTrue ==
    /\ OneBuildPerKey /\ NoOrphanJob
    /\ \A c \in Client : client[c].pc = "wait" => client[c].task \in Task

\* The report of a build that succeeded is there, from the moment it is stored.
Reports == ToSet(answers) \cup dropped
ReportsTrue ==
    /\ ReportThere
    /\ \A t \in Task : task[t].stage \in {"send", "remove"} /\ task[t].ok => task[t].key \in Reports

ServerInv == Typed /\ AnswersKept /\ BuiltKept /\ GateKept /\ JobsTrue /\ ReportsTrue

\* What the run checks follows from the invariant.
LEMMA InvShared == ServerInv => BuildsShared
  <1> SUFFICES ASSUME ServerInv PROVE BuildsShared
    OBVIOUS
  <1>1. \A c \in Client :
          /\ client[c].pc \in ClientPcs /\ client[c].key \in Key
          /\ client[c].task \in Task \cup {NoTask}
    BY DEF ServerInv, Typed, ClientRecs
  <1>2. jobs \in [Key -> Task \cup {NoTask}]
    BY DEF ServerInv, Typed
  <1>3. IsInjective(answers) /\ IsInjective(built) /\ IsInjective(gate)
    BY DEF ServerInv, AnswersKept, BuiltKept, GateKept, Line
  <1>4. (Fits(answers) \/ Len(answers) = 1) /\ ToSet(wanted) = ToSet(built) /\ Len(built) <= BuiltMax
    BY DEF ServerInv, AnswersKept, BuiltKept
  <1>5. ToSet(gate) = {c \in Client : Gated(client[c])} \cup {t \in Task : Building(task[t])}
    <2>1. ToSet(gate) \subseteq Client \cup Task
      BY LineBasics DEF ServerInv, GateKept
    <2>2. QED
      BY <2>1 DEF ServerInv, GateKept
  <1>6. TypeOK
    BY <1>1, <1>2, <1>3, <1>4, <1>5 DEF TypeOK, ClientPcs, Gated, Building
  <1>7. QED
    BY <1>6 DEF ServerInv, JobsTrue, ReportsTrue, BuildsShared

-----------------------------------------------------------------------------
\* The caches

\* A cache that fits still fits with less in it.
LEMMA LessFits ==
    ASSUME NEW s, NEW r, Line(s, Key), Line(r, Key), ToSet(r) \subseteq ToSet(s),
           Len(r) <= Len(s), Fits(s)
    PROVE  Fits(r)
  <1>1. ASSUME NEW q, Line(q, Key) PROVE IsFiniteSet(Bytes(q)) /\ Cardinality(Bytes(q)) \in Nat
    <2> DEFINE D == 1 .. Len(q)
               f == [i \in D |-> {q[i]} \X (1..Size[q[i]])]
               T == {f[i] : i \in D}
    <2>1. /\ Len(q) \in Nat /\ ToSet(q) \subseteq Key
          /\ \A x : x \in ToSet(q) <=> \E i \in D : q[i] = x
      BY <1>1, LineBasics
    <2>2. IsFiniteSet(D)
      BY <2>1, FS_Interval
    <2>3. \A i \in D : IsFiniteSet(f[i])
      <3>1. TAKE i \in D
      <3>2. Size[q[i]] \in Nat
        BY <2>1, ServerAssumption
      <3>3. IsFiniteSet({q[i]}) /\ IsFiniteSet(1..Size[q[i]])
        <4> DEFINE x == q[i]
                   n == Size[q[i]]
        <4> HIDE DEF x, n, f, T, D
        <4>1. IsFiniteSet({x})
          BY FS_Singleton
        <4>2. IsFiniteSet(1 .. n)
          <5>1. n \in Int /\ 1 \in Int
            BY <3>2 DEF n
          <5>2. QED
            BY <5>1, FS_Interval
        <4>3. QED
          BY <4>1, <4>2 DEF x, n
      <3>4. IsFiniteSet({q[i]} \X (1..Size[q[i]]))
        BY <3>3, FS_Product
      <3>5. QED
        BY <3>4
    <2>4. Bytes(q) = UNION T
      <3>1. \A i \in D : f[i] = {q[i]} \X (1..Size[q[i]])
        OBVIOUS
      <3> HIDE DEF f, D
      <3>2. ASSUME NEW x PROVE x \in Bytes(q) <=> x \in UNION T
        <4>1. x \in Bytes(q) <=> \E k \in ToSet(q) : x \in {k} \X (1..Size[k])
          BY DEF Bytes
        <4>2. x \in UNION T <=> \E i \in D : x \in f[i]
          OBVIOUS
        <4>3. QED
          BY <2>1, <3>1, <4>1, <4>2
      <3>3. QED
        BY <3>2
    <2>5. IsFiniteSet(T)
      <3>1. f \in [D -> T] /\ \A t \in T : \E i \in D : f[i] = t
        OBVIOUS
      <3> HIDE DEF f, D, T
      <3>2. f \in Surjection(D, T)
        BY <3>1 DEF Surjection
      <3>3. QED
        BY <2>2, <3>2, FS_Surjection
    <2>6. \A t \in T : IsFiniteSet(t)
      BY <2>3
    <2> HIDE DEF f, D, T
    <2>7. IsFiniteSet(UNION T)
      BY <2>5, <2>6, FS_UNION
    <2>8. QED
      BY <2>4, <2>7, FS_CardinalityType
  <1>2. Bytes(r) \subseteq Bytes(s)
    BY DEF Bytes
  <1>3. Cardinality(Bytes(r)) <= Cardinality(Bytes(s))
    BY <1>1, <1>2, FS_Subset
  <1>4. AtMax \in Nat /\ Budget \in Nat /\ Len(r) \in Nat /\ Len(s) \in Nat
    BY ServerAssumption, LineBasics
  <1>5. QED
    BY <1>1, <1>3, <1>4 DEF Fits

\* at_cache_get: a hit moves to the end, and no answer goes.
LEMMA UseKeeps ==
    ASSUME AnswersKept, NEW k \in Key, UseAnswer(k)
    PROVE  AnswersKept' /\ ToSet(answers') = ToSet(answers)
  <1>1. CASE HasAnswer(k)
    <2> DEFINE s == Touched(answers, k)
    <2>1. answers' = s /\ k \in ToSet(answers)
      BY <1>1 DEF UseAnswer, HasAnswer
    <2>2. Line(s, Key) /\ ToSet(s) = ToSet(answers) /\ Len(s) = Len(answers)
      <3>1. Line(answers, Key)
        BY DEF AnswersKept
      <3>2. Line(s, Key) /\ ToSet(s) = ToSet(answers) \cup {k} /\ Len(s) = Len(answers)
        BY <2>1, <3>1, TouchedLine
      <3>3. ToSet(answers) \cup {k} = ToSet(answers)
        BY <2>1
      <3>4. QED
        BY <3>2, <3>3
    <2> HIDE DEF s
    <2>3. Fits(answers) => Fits(s)
      <3>1. Len(answers) \in Nat
        BY LineBasics DEF AnswersKept
      <3>2. QED
        BY <2>2, <3>1, LessFits DEF AnswersKept
    <2>4. QED
      BY <2>1, <2>2, <2>3 DEF AnswersKept
  <1>2. CASE ~HasAnswer(k)
    BY <1>2 DEF UseAnswer, AnswersKept
  <1>3. QED
    BY <1>1, <1>2

\* Every set of numbers has a smallest.
LEMMA SmallestOf ==
    ASSUME NEW T \in SUBSET Nat, T # {}
    PROVE  \E i \in T : \A j \in T : i <= j
  <1> DEFINE R == {ss \in Nat \X Nat : ss[1] < ss[2]}
  <1>1. R = OpToRel(<, Nat)
    BY Zenon DEF OpToRel
  <1>2. IsWellFoundedOn(R, Nat)
    BY <1>1, NatLessThanWellFounded, Zenon
  <1>3. \E x \in T : \A y \in T : <<y, x>> \notin R
    <2> HIDE DEF R
    <2>1. T \subseteq Nat
      OBVIOUS
    <2>2. QED
      BY <1>2, <2>1, WFMin, Zenon
  <1>4. PICK i \in T : \A j \in T : <<j, i>> \notin R
    BY <1>3
  <1>5. \A j \in T : i <= j
    <2>1. TAKE j \in T
    <2>2. i \in Nat /\ j \in Nat
      OBVIOUS
    <2>3. <<j, i>> \notin R
      BY <1>4
    <2>4. ~(j < i)
      BY <2>2, <2>3
    <2>5. QED
      BY <2>2, <2>4
  <1>6. QED
    BY <1>5

\* The loop of at_cache_put ends: what it keeps is the end of the line, it fits
\* or is one answer, and the last put is in it.
LEMMA KeptFits ==
    ASSUME NEW s, Line(s, Key), s # <<>>
    PROVE  LET r == KeptAnswers(s)
           IN  /\ Line(r, Key) /\ (Fits(r) \/ Len(r) = 1)
               /\ ToSet(r) \subseteq ToSet(s) /\ s[Len(s)] \in ToSet(r)
  <1> DEFINE stops == {i \in 0..Len(s) - 1 : i = Len(s) - 1 \/ Fits(SubSeq(s, i + 1, Len(s)))}
             Good(i) == /\ i = Len(s) - 1 \/ Fits(SubSeq(s, i + 1, Len(s)))
                        /\ \A j \in 0..i - 1 : ~Fits(SubSeq(s, j + 1, Len(s)))
             n == CHOOSE i \in 0..Len(s) - 1 : Good(i)
             r == SubSeq(s, n + 1, Len(s))
  <1>1. Len(s) \in Nat \ {0}
    BY LineBasics
  <1>2. PICK m \in stops : \A j \in stops : m <= j
    <2>1. stops \in SUBSET Nat /\ Len(s) - 1 \in stops
      BY <1>1
    <2> HIDE DEF stops
    <2>2. QED
      BY <2>1, SmallestOf
  <1>3. Good(m)
    <2>1. ASSUME NEW j \in 0 .. m - 1
          PROVE  ~Fits(SubSeq(s, j + 1, Len(s)))
      <3>1. j \in 0..Len(s) - 1 /\ j < m
        BY <1>1, <1>2
      <3>2. j \notin stops
        BY <1>1, <1>2, <3>1
      <3>3. QED
        BY <3>1, <3>2
    <2>2. QED
      BY <1>2, <2>1
  <1>4. n \in 0..Len(s) - 1 /\ Good(n)
    BY <1>2, <1>3
  <1>5. KeptAnswers(s) = r
    BY DEF KeptAnswers
  <1> HIDE DEF n
  <1>6. n + 1 \in 1 .. Len(s)
    BY <1>1, <1>4
  <1>7. /\ Line(r, Key) /\ Len(r) = Len(s) - (n + 1) + 1
        /\ ToSet(r) \subseteq ToSet(s) /\ s[Len(s)] \in ToSet(r)
    BY <1>6, SuffixLine
  <1>8. Fits(r) \/ Len(r) = 1
    <2>1. Fits(r) \/ n = Len(s) - 1
      BY <1>4
    <2> HIDE DEF r
    <2>2. QED
      BY <1>1, <1>4, <1>7, <2>1
  <1> HIDE DEF r
  <1>9. QED
    BY <1>5, <1>7, <1>8

\* at_cache_put: the answer is there, and what went is known to have gone.
LEMMA PutKeeps ==
    ASSUME AnswersKept, NEW k \in Key, PutAnswer(k)
    PROVE  /\ AnswersKept' /\ HasAnswer(k)'
           /\ Reports \subseteq Reports'
  <1> DEFINE s == Touched(answers, k)
             r == KeptAnswers(s)
  <1>1. answers' = r /\ dropped' = (dropped \cup ToSet(answers)) \ ToSet(r)
    BY DEF PutAnswer
  <1>2. Line(s, Key) /\ s[Len(s)] = k /\ s # <<>>
    <2>1. Line(answers, Key)
      BY DEF AnswersKept
    <2>2. Line(s, Key) /\ Len(s) \in Nat \ {0} /\ s[Len(s)] = k
      BY <2>1, TouchedLine
    <2> HIDE DEF s
    <2>3. s # <<>>
      BY <2>2, LineBasics
    <2>4. QED
      BY <2>2, <2>3
  <1> HIDE DEF s
  <1>3. Line(r, Key) /\ (Fits(r) \/ Len(r) = 1) /\ k \in ToSet(r)
    BY <1>2, KeptFits
  <1> HIDE DEF r
  <1>4. AnswersKept'
    BY <1>1, <1>3 DEF AnswersKept
  <1>5. ToSet(answers)' = ToSet(r)
    BY <1>1 DEF ToSet
  <1>6. QED
    BY <1>1, <1>3, <1>4, <1>5 DEF HasAnswer, Reports

\* A bundle that is wanted is touched.
LEMMA WantKeeps ==
    ASSUME BuiltKept, NEW k \in Key, Want(k), built' = built
    PROVE  BuiltKept'
  <1>1. CASE IsBuilt(k)
    <2> DEFINE s == Touched(wanted, k)
    <2>1. wanted' = s /\ k \in ToSet(wanted) /\ Line(wanted, Key)
      BY <1>1 DEF Want, IsBuilt, BuiltKept
    <2>2. Line(s, Key) /\ ToSet(s) = ToSet(wanted) \cup {k}
      BY <2>1, TouchedLine
    <2>3. ToSet(wanted) \cup {k} = ToSet(wanted)
      BY <2>1
    <2> HIDE DEF s
    <2>4. ToSet(wanted)' = ToSet(built)' /\ Line(wanted', Key) /\ Line(built', Key)
      BY <2>1, <2>2, <2>3 DEF BuiltKept, ToSet
    <2>5. QED
      BY <2>4 DEF BuiltKept
  <1>2. CASE ~IsBuilt(k)
    <2>1. wanted' = wanted
      BY <1>2 DEF Want
    <2>2. QED
      BY <2>1 DEF BuiltKept, ToSet
  <1>3. QED
    BY <1>1, <1>2

\* built_put: never more than BuiltMax, and nothing is held that was not put.
LEMMA PutBuiltKeeps ==
    ASSUME BuiltKept, NEW k \in Key, PutBuilt(k)
    PROVE  BuiltKept'
  <1> DEFINE all == Touched(built, k)
             now == Touched(wanted, k)
  <1>1. /\ Line(all, Key) /\ ToSet(all) = ToSet(built) \cup {k}
        /\ Len(all) = IF k \in ToSet(built) THEN Len(built) ELSE Len(built) + 1
        /\ Len(all) \in Nat \ {0}
    BY TouchedLine DEF BuiltKept
  <1>2. Line(now, Key) /\ ToSet(now) = ToSet(wanted) \cup {k}
    BY TouchedLine DEF BuiltKept
  <1>3. ToSet(now) = ToSet(all)
    BY <1>1, <1>2 DEF BuiltKept
  <1>4. Len(built) \in Nat /\ BuiltMax \in Nat /\ Len(built) <= BuiltMax
    BY LineBasics, ServerAssumption DEF BuiltKept
  <1>5. IF Len(all) > BuiltMax
        THEN built' = Tail(all) /\ wanted' = Without(now, Head(all))
        ELSE built' = all /\ wanted' = now
    BY DEF PutBuilt
  <1> HIDE DEF all, now
  <1>6. CASE Len(all) > BuiltMax
    <2>1. all # <<>>
      BY <1>1, LineBasics
    <2>2. /\ Line(Tail(all), Key) /\ ToSet(Tail(all)) = ToSet(all) \ {Head(all)}
          /\ Len(Tail(all)) = Len(all) - 1
      BY <1>1, <2>1, TailLine
    <2>3. /\ Line(Without(now, Head(all)), Key)
          /\ ToSet(Without(now, Head(all))) = ToSet(now) \ {Head(all)}
      BY <1>2, WithoutLine
    <2>4. Len(Tail(all)) <= BuiltMax
      BY <1>1, <1>4, <2>2
    <2>5. ToSet(wanted') = ToSet(built')
      BY <1>3, <1>5, <1>6, <2>2, <2>3
    <2>6. QED
      BY <1>5, <1>6, <2>2, <2>3, <2>4, <2>5 DEF BuiltKept
  <1>7. CASE ~(Len(all) > BuiltMax)
    <2>1. Len(all) <= BuiltMax
      BY <1>1, <1>4, <1>7
    <2>2. ToSet(wanted') = ToSet(built')
      BY <1>3, <1>5, <1>7
    <2>3. QED
      BY <1>1, <1>2, <1>5, <1>7, <2>1, <2>2 DEF BuiltKept
  <1>8. QED
    BY <1>6, <1>7

-----------------------------------------------------------------------------
\* The steps

\* What is known of reports stays known while the answers are only used.
LEMMA ReportsStay ==
    ASSUME ToSet(answers') = ToSet(answers), dropped' = dropped
    PROVE  Reports' = Reports
  BY DEF Reports

\* Someone joins the gate or leaves it.
LEMMA GateMoves ==
    ASSUME GateKept, NEW x \in Client \cup Task
    PROVE  /\ Line(Without(gate, x), Client \cup Task)
           /\ ToSet(Without(gate, x)) = ToSet(gate) \ {x}
           /\ x \notin ToSet(gate) => /\ Line(Append(gate, x), Client \cup Task)
                                     /\ ToSet(Append(gate, x)) = ToSet(gate) \cup {x}
  <1>1. Line(gate, Client \cup Task)
    BY DEF GateKept
  <1>2. /\ Line(Without(gate, x), Client \cup Task)
        /\ ToSet(Without(gate, x)) = ToSet(gate) \ {x}
    BY <1>1, WithoutLine
  <1>3. ASSUME x \notin ToSet(gate)
        PROVE  /\ Line(Append(gate, x), Client \cup Task)
               /\ ToSet(Append(gate, x)) = ToSet(gate) \cup {x}
    BY <1>1, <1>3, AppendLine
  <1>4. QED
    BY <1>2, <1>3

\* A client moves on; if it waits, it is for a build that has not spoken.
LEMMA ClientStep ==
    ASSUME ServerInv, NEW c \in Client, NEW r \in ClientRecs,
           client' = [client EXCEPT ![c] = r], task' = task, jobs' = jobs,
           r.pc = "wait" => /\ r.task \in Task /\ task[r.task].key = r.key
                            /\ task[r.task].stage \in {"queued", "build", "replay", "store", "send"},
           r.pc = "told" \/ r.status = "expired" => r.key \in Reports',
           Reports \subseteq Reports',
           AnswersKept', BuiltKept',
           \/ gate' = gate /\ (Gated(r) <=> Gated(client[c]))
           \/ Enter(c) /\ Gated(r) /\ ~Gated(client[c])
           \/ gate' = Without(gate, c) /\ ~Gated(r)
    PROVE  ServerInv'
  <1>1. client \in [Client -> ClientRecs]
    BY DEF ServerInv, Typed
  <1>2. client'[c] = r /\ \A d \in Client : d # c => client'[d] = client[d]
    BY <1>1
  <1>3. Typed'
    BY <1>1 DEF ServerInv, Typed
  <1>4. JobsTrue'
    <2>1. OneBuildPerKey'
      BY DEF ServerInv, JobsTrue, OneBuildPerKey, Live
    <2>2. \A k \in Key : jobs'[k] # NoTask =>
             task'[jobs'[k]].stage # "free" /\ task'[jobs'[k]].key = k
      BY DEF ServerInv, JobsTrue, NoOrphanJob, Live
    <2>3. \A d \in Client : client'[d] = client[d] \/ client'[d] = r
      BY <1>2
    <2>4. \A d \in Client : client'[d].pc = "wait" =>
             /\ task'[client'[d].task].stage \in {"queued", "build", "replay", "store", "send"}
             /\ task'[client'[d].task].key = client'[d].key
             /\ client'[d].task \in Task
      BY <2>3 DEF ServerInv, JobsTrue, NoOrphanJob
    <2>5. QED
      BY <2>1, <2>2, <2>4 DEF JobsTrue, NoOrphanJob, Live
  <1>5. ReportsTrue'
    <2>1. \A d \in Client : client'[d].pc = "told" \/ client'[d].status = "expired" =>
             client'[d].key \in Reports'
      BY <1>2 DEF ServerInv, ReportsTrue, ReportThere, Reports, HasAnswer
    <2>2. \A t \in Task : task'[t].stage \in {"send", "remove"} /\ task'[t].ok =>
             task'[t].key \in Reports'
      BY DEF ServerInv, ReportsTrue
    <2>3. QED
      BY <2>1, <2>2 DEF ReportsTrue, ReportThere, Reports, HasAnswer
  <1>6. GateKept'
    <2>1. c \in Client \cup Task /\ \A t \in Task : t # c
      BY ServerAssumption
    <2>2. /\ Line(gate, Client \cup Task)
          /\ \A d \in Client : d \in ToSet(gate) <=> Gated(client[d])
          /\ \A t \in Task : t \in ToSet(gate) <=> Building(task[t])
      BY DEF ServerInv, GateKept
    <2>3. /\ Line(gate', Client \cup Task)
          /\ c \in ToSet(gate') <=> Gated(r)
          /\ \A x : x # c => (x \in ToSet(gate') <=> x \in ToSet(gate))
      <3>1. CASE gate' = gate /\ (Gated(r) <=> Gated(client[c]))
        BY <2>2, <3>1
      <3>2. CASE Enter(c) /\ Gated(r) /\ ~Gated(client[c])
        <4>1. c \notin ToSet(gate) /\ gate' = Append(gate, c)
          BY <2>2, <3>2 DEF Enter
        <4>2. /\ Line(Append(gate, c), Client \cup Task)
              /\ ToSet(Append(gate, c)) = ToSet(gate) \cup {c}
          BY <2>1, <4>1, GateMoves DEF ServerInv
        <4>3. QED
          BY <3>2, <4>1, <4>2
      <3>3. CASE gate' = Without(gate, c) /\ ~Gated(r)
        BY <2>1, <2>2, <3>3, GateMoves DEF ServerInv
      <3>4. QED
        BY <3>1, <3>2, <3>3
    <2>4. \A d \in Client : d \in ToSet(gate') <=> Gated(client'[d])
      BY <1>2, <2>2, <2>3
    <2>5. \A t \in Task : t \in ToSet(gate') <=> Building(task'[t])
      BY <2>1, <2>2, <2>3
    <2>6. QED
      BY <2>3, <2>4, <2>5 DEF GateKept
  <1>7. QED
    BY <1>3, <1>4, <1>5, <1>6 DEF ServerInv

\* A build goes on, and has not spoken yet.
LEMMA TaskStep ==
    ASSUME ServerInv, NEW t \in Task, NEW u \in TaskRecs,
           task' = [task EXCEPT ![t] = u], client' = client, jobs' = jobs,
           u.key = task[t].key,
           task[t].stage \in {"queued", "build", "replay", "store"},
           u.stage \in {"queued", "build", "replay", "store", "send"},
           u.stage = "send" /\ u.ok => u.key \in Reports',
           Reports \subseteq Reports',
           AnswersKept', BuiltKept',
           \/ gate' = gate /\ (Building(u) <=> Building(task[t]))
           \/ gate' = Without(gate, t) /\ ~Building(u)
    PROVE  ServerInv'
  <1>1. task \in [Task -> TaskRecs]
    BY DEF ServerInv, Typed
  <1>2. task'[t] = u /\ \A v \in Task : v # t => task'[v] = task[v]
    BY <1>1
  <1>3. Typed'
    BY <1>1 DEF ServerInv, Typed
  <1>4. JobsTrue'
    <2>1. \A v \in Task : task'[v].key = task[v].key /\ (Live(v)' <=> Live(v))
      BY <1>2 DEF Live
    <2>2. OneBuildPerKey'
      BY <2>1 DEF ServerInv, JobsTrue, OneBuildPerKey
    <2>3. \A k \in Key : jobs[k] # NoTask => jobs[k] \in Task
      BY DEF ServerInv, Typed
    <2>4. \A k \in Key : jobs'[k] # NoTask =>
             task'[jobs'[k]].stage # "free" /\ task'[jobs'[k]].key = k
      <3>1. TAKE k \in Key
      <3>2. HAVE jobs'[k] # NoTask
      <3>3. jobs[k] \in Task /\ jobs'[k] = jobs[k] /\ Live(jobs[k]) /\ task[jobs[k]].key = k
        BY <2>3, <3>2 DEF ServerInv, JobsTrue, NoOrphanJob
      <3>4. QED
        BY <1>2, <3>3 DEF Live
    <2>5. \A d \in Client : client'[d].pc = "wait" =>
             /\ task'[client'[d].task].stage \in {"queued", "build", "replay", "store", "send"}
             /\ task'[client'[d].task].key = client'[d].key
             /\ client'[d].task \in Task
      BY <1>2 DEF ServerInv, JobsTrue, NoOrphanJob
    <2>6. QED
      BY <2>2, <2>4, <2>5 DEF JobsTrue, NoOrphanJob, Live
  <1>5. ReportsTrue'
    <2>1. \A d \in Client : client'[d].pc = "told" \/ client'[d].status = "expired" =>
             client'[d].key \in Reports'
      BY DEF ServerInv, ReportsTrue, ReportThere, Reports, HasAnswer
    <2>2. \A v \in Task : task'[v].stage \in {"send", "remove"} /\ task'[v].ok =>
             task'[v].key \in Reports'
      BY <1>2 DEF ServerInv, ReportsTrue
    <2>3. QED
      BY <2>1, <2>2 DEF ReportsTrue, ReportThere, Reports, HasAnswer
  <1>6. GateKept'
    <2>1. t \in Client \cup Task /\ \A c \in Client : t # c
      BY ServerAssumption
    <2>2. /\ Line(gate, Client \cup Task)
          /\ \A d \in Client : d \in ToSet(gate) <=> Gated(client[d])
          /\ \A v \in Task : v \in ToSet(gate) <=> Building(task[v])
      BY DEF ServerInv, GateKept
    <2>3. /\ Line(gate', Client \cup Task)
          /\ t \in ToSet(gate') <=> Building(u)
          /\ \A x : x # t => (x \in ToSet(gate') <=> x \in ToSet(gate))
      <3>1. CASE gate' = gate /\ (Building(u) <=> Building(task[t]))
        BY <2>2, <3>1
      <3>2. CASE gate' = Without(gate, t) /\ ~Building(u)
        BY <2>1, <2>2, <3>2, GateMoves DEF ServerInv
      <3>3. QED
        BY <3>1, <3>2
    <2>4. \A d \in Client : d \in ToSet(gate') <=> Gated(client'[d])
      BY <2>1, <2>2, <2>3
    <2>5. \A v \in Task : v \in ToSet(gate') <=> Building(task'[v])
      BY <1>2, <2>2, <2>3
    <2>6. QED
      BY <2>3, <2>4, <2>5 DEF GateKept
  <1>7. QED
    BY <1>3, <1>4, <1>5, <1>6 DEF ServerInv

\* The caches while no answer, bundle or expiry comes in.
LEMMA CachesUsed ==
    ASSUME ServerInv, NEW k \in Key, dropped' = dropped, built' = built,
           \/ UseAnswer(k) /\ wanted' = wanted
           \/ Want(k) /\ answers' = answers
           \/ answers' = answers /\ wanted' = wanted
    PROVE  AnswersKept' /\ BuiltKept' /\ Reports' = Reports
  <1>1. AnswersKept /\ BuiltKept
    BY DEF ServerInv
  <1>2. answers' = answers => AnswersKept' /\ ToSet(answers') = ToSet(answers)
    BY <1>1 DEF AnswersKept
  <1>3. wanted' = wanted => BuiltKept'
    BY <1>1 DEF BuiltKept
  <1>4. AnswersKept' /\ BuiltKept' /\ ToSet(answers') = ToSet(answers)
    BY <1>1, <1>2, <1>3, UseKeeps, WantKeeps
  <1>5. QED
    BY <1>4, ReportsStay

\* Where a request goes next, and how it ends.
Moved(c, pc) == [client[c] EXCEPT !.pc = pc]
Expired(c) == [Idle EXCEPT !.key = client[c].key, !.status = "expired"]
Rekinded(c, kind) == [client[c] EXCEPT !.kind = kind]
Sent(c, pc, t) == [client[c] EXCEPT !.pc = pc, !.task = t]

\* The records of the clients stay records of clients whatever moves them.
LEMMA ClientRecsMade ==
    ASSUME Typed, NEW c \in Client
    PROVE  /\ client[c] \in ClientRecs /\ client[c].key \in Key
           /\ Idle \in ClientRecs /\ Idle.pc = "idle" /\ Idle.status = "none" /\ Free \in TaskRecs
           /\ \A pc \in ClientPcs : /\ Moved(c, pc) \in ClientRecs /\ Moved(c, pc).pc = pc
                             /\ Moved(c, pc).kind = client[c].kind
                             /\ Moved(c, pc).key = client[c].key
                             /\ Moved(c, pc).status = client[c].status
           /\ Expired(c) \in ClientRecs /\ Expired(c).pc = "idle" /\ Expired(c).key = client[c].key
           /\ \A kind \in Kinds : /\ Rekinded(c, kind) \in ClientRecs
                                 /\ Rekinded(c, kind).kind = kind
                                 /\ Rekinded(c, kind).pc = client[c].pc
                                 /\ Rekinded(c, kind).key = client[c].key
                                 /\ Rekinded(c, kind).status = client[c].status
           /\ \A pc \in ClientPcs, t \in Task \cup {NoTask} :
                /\ Sent(c, pc, t) \in ClientRecs /\ Sent(c, pc, t).pc = pc
                /\ Sent(c, pc, t).task = t
                /\ Sent(c, pc, t).kind = client[c].kind
                /\ Sent(c, pc, t).key = client[c].key
                /\ Sent(c, pc, t).status = client[c].status
  <1>1. client[c] \in ClientRecs /\ client[c].key \in Key
    BY DEF Typed, ClientRecs
  <1>2. (CHOOSE k \in Key : TRUE) \in Key
    BY ServerAssumption
  <1> DEFINE k0 == CHOOSE k \in Key : TRUE
  <1>3. Idle = [pc |-> "idle", kind |-> "at", key |-> k0, task |-> NoTask, status |-> "none"]
    BY DEF Idle
  <1>4. k0 \in Key
    BY <1>2
  <1> HIDE DEF k0
  <1>5. Idle \in ClientRecs /\ Idle.pc = "idle" /\ Idle.status = "none" /\ Idle.key = k0
    BY <1>3, <1>4 DEF ClientRecs, ClientPcs, Kinds
  <1>6. Free \in TaskRecs
    BY <1>4, <1>5 DEF Free, TaskRecs
  <1>7. ASSUME NEW pc \in ClientPcs
        PROVE  /\ Moved(c, pc) \in ClientRecs /\ Moved(c, pc).pc = pc
               /\ Moved(c, pc).kind = client[c].kind
               /\ Moved(c, pc).key = client[c].key
               /\ Moved(c, pc).status = client[c].status
    BY <1>1 DEF Moved, ClientRecs
  <1>8. Expired(c) \in ClientRecs /\ Expired(c).pc = "idle" /\ Expired(c).key = client[c].key
    <2>1. Expired(c) = [[Idle EXCEPT !.key = client[c].key] EXCEPT !.status = "expired"]
      BY <1>3 DEF Expired
    <2>2. [Idle EXCEPT !.key = client[c].key] \in ClientRecs
      BY <1>1, <1>5 DEF ClientRecs
    <2>3. QED
      BY <1>1, <1>3, <1>5, <2>1, <2>2 DEF ClientRecs
  <1>9. ASSUME NEW kind \in Kinds
        PROVE  /\ Rekinded(c, kind) \in ClientRecs
               /\ Rekinded(c, kind).kind = kind
               /\ Rekinded(c, kind).pc = client[c].pc
               /\ Rekinded(c, kind).key = client[c].key
               /\ Rekinded(c, kind).status = client[c].status
    BY <1>1 DEF Rekinded, ClientRecs
  <1>10. ASSUME NEW pc \in ClientPcs, NEW t \in Task \cup {NoTask}
         PROVE  /\ Sent(c, pc, t) \in ClientRecs /\ Sent(c, pc, t).pc = pc
                /\ Sent(c, pc, t).task = t
                /\ Sent(c, pc, t).kind = client[c].kind
                /\ Sent(c, pc, t).key = client[c].key
                /\ Sent(c, pc, t).status = client[c].status
    <2>1. Sent(c, pc, t) = [Moved(c, pc) EXCEPT !.task = t]
      BY <1>1 DEF Sent, Moved, ClientRecs
    <2>2. QED
      BY <1>1, <1>7, <2>1 DEF ClientRecs
  <1>11. QED
    BY <1>1, <1>5, <1>6, <1>7, <1>8, <1>9, <1>10

\* What Go and Reply do to the record of the client.
LEMMA ClientEnds ==
    ASSUME Typed, NEW c \in Client
    PROVE  /\ \A pc \in ClientPcs : Go(c, pc) => client' = [client EXCEPT ![c] = Moved(c, pc)]
           /\ Reply(c, "expired") => client' = [client EXCEPT ![c] = Expired(c)]
           /\ \A status \in {"ok", "error"} : Reply(c, status) => client' = [client EXCEPT ![c] = Idle]
  BY DEF Typed, Go, Moved, Reply, Expired

\* A handler goes on.
LEMMA Goes ==
    ASSUME ServerInv, NEW c \in Client, NEW pc \in ClientPcs \ {"wait", "told"}, Go(c, pc),
           task' = task, jobs' = jobs, AnswersKept', BuiltKept', Reports \subseteq Reports',
           \/ gate' = gate /\ (Gated(Moved(c, pc)) <=> Gated(client[c]))
           \/ Enter(c) /\ Gated(Moved(c, pc)) /\ ~Gated(client[c])
    PROVE  ServerInv'
  <1> DEFINE r == Moved(c, pc)
  <1>1. Typed
    BY DEF ServerInv
  <1>2. r \in ClientRecs /\ r.pc = pc /\ r.key = client[c].key /\ r.status = client[c].status
    BY <1>1, ClientRecsMade
  <1>3. client' = [client EXCEPT ![c] = r]
    BY <1>1, ClientEnds
  <1>4. r.status = "expired" => r.key \in Reports'
    BY <1>2 DEF ServerInv, ReportsTrue, ReportThere, Reports, HasAnswer
  <1> HIDE DEF r
  <1>5. \/ gate' = gate /\ (Gated(r) <=> Gated(client[c]))
        \/ Enter(c) /\ Gated(r) /\ ~Gated(client[c])
    BY DEF r
  <1>6. QED
    BY <1>2, <1>3, <1>4, <1>5, ClientStep

\* A handler answers.
LEMMA Replies ==
    ASSUME ServerInv, NEW c \in Client, NEW status \in {"ok", "error", "expired"}, Reply(c, status),
           status = "expired" => client[c].key \in Reports',
           task' = task, jobs' = jobs, AnswersKept', BuiltKept', Reports \subseteq Reports',
           (gate' = gate /\ ~Gated(client[c])) \/ gate' = Without(gate, c)
    PROVE  ServerInv'
  <1> DEFINE r == IF status = "expired" THEN Expired(c) ELSE Idle
  <1>1. Typed
    BY DEF ServerInv
  <1>2. /\ r \in ClientRecs /\ r.pc = "idle"
        /\ r.status = "expired" => status = "expired" /\ r.key = client[c].key
    BY <1>1, ClientRecsMade
  <1>3. client' = [client EXCEPT ![c] = r]
    BY <1>1, ClientEnds
  <1> HIDE DEF r
  <1>4. ~Gated(r)
    BY <1>2 DEF Gated
  <1>5. QED
    BY <1>2, <1>3, <1>4, ClientStep

\* The replays: a look in the cache, the gate, a second look, the run.
LEMMA AtKeeps ==
    ASSUME ServerInv, NEW c \in Client, AtLook(c) \/ LookAgain(c) \/ AtEnd(c)
    PROVE  ServerInv'
  <1> DEFINE k == client[c].key
  <1>1. Typed /\ k \in Key
    BY ClientRecsMade DEF ServerInv
  <1> HIDE DEF k
  <1>2. \A pc \in ClientPcs : Moved(c, pc).pc = pc /\ Moved(c, pc).kind = client[c].kind
    BY <1>1, ClientRecsMade
  <1>3. CASE AtLook(c)
    <2>1. AnswersKept' /\ BuiltKept' /\ Reports' = Reports
      BY <1>1, <1>3, CachesUsed DEF AtLook, k
    <2>2. task' = task /\ jobs' = jobs /\ ~Gated(client[c])
      BY <1>3 DEF AtLook, At, Gated
    <2>3. CASE Reply(c, "ok") /\ gate' = gate
      BY <2>1, <2>2, <2>3, Replies
    <2>4. CASE Go(c, "queued") /\ Enter(c)
      <3>1. Gated(Moved(c, "queued"))
        BY <1>2, <1>3 DEF AtLook, At, Gated, ClientPcs
      <3>2. QED
        BY <2>1, <2>2, <2>4, <3>1, Goes DEF ClientPcs
    <2>5. QED
      BY <1>3, <2>3, <2>4 DEF AtLook
  <1>4. CASE LookAgain(c)
    <2>1. AnswersKept' /\ BuiltKept' /\ Reports' = Reports
      BY <1>1, <1>4, CachesUsed DEF LookAgain, k
    <2>2. task' = task /\ jobs' = jobs /\ Gated(client[c])
      BY <1>4 DEF LookAgain, At, Gated
    <2>3. CASE Reply(c, "ok") /\ gate' = Without(gate, c)
      BY <2>1, <2>2, <2>3, Replies
    <2>4. CASE Go(c, "run") /\ gate' = gate
      <3>1. Gated(Moved(c, "run"))
        BY <1>2, <1>4 DEF LookAgain, At, Gated, ClientPcs
      <3>2. QED
        BY <2>1, <2>2, <2>4, <3>1, Goes DEF ClientPcs
    <2>5. QED
      BY <1>4, <2>3, <2>4 DEF LookAgain, Release
  <1>5. CASE AtEnd(c)
    <2>1. task' = task /\ jobs' = jobs /\ built' = built /\ wanted' = wanted
          /\ gate' = Without(gate, c)
      BY <1>5 DEF AtEnd, Release
    <2>2. BuiltKept'
      BY <2>1 DEF ServerInv, BuiltKept
    <2>3. CASE PutAnswer(k) /\ Reply(c, "ok")
      <3>1. AnswersKept' /\ Reports \subseteq Reports'
        BY <1>1, <2>3, PutKeeps DEF ServerInv
      <3>2. QED
        BY <2>1, <2>2, <2>3, <3>1, Replies
    <2>4. CASE Reply(c, "error") /\ answers' = answers /\ dropped' = dropped
      <3>1. AnswersKept' /\ Reports' = Reports
        BY <1>1, <2>1, <2>4, CachesUsed
      <3>2. QED
        BY <2>1, <2>2, <2>4, <3>1, Replies
    <2>5. QED
      BY <1>5, <2>3, <2>4 DEF AtEnd, k
  <1>6. QED
    BY <1>3, <1>4, <1>5

\* The handlers of bundles, but for Join.
LEMMA BundleKeeps ==
    ASSUME ServerInv, NEW c \in Client,
           \/ ViewLook(c) \/ ReadLook(c) \/ EditLook(c) \/ EditBase(c) \/ NeedBuilt(c)
           \/ EditHeld(c) \/ EditEnd(c) \/ Refuse(c) \/ Serve(c) \/ StillBuilding(c)
    PROVE  ServerInv'
  <1> DEFINE k == client[c].key
  <1>1. Typed /\ k \in Key
    BY ClientRecsMade DEF ServerInv
  <1> HIDE DEF k
  <1>2. \A pc \in ClientPcs : Moved(c, pc).pc = pc /\ Moved(c, pc).kind = client[c].kind
    BY <1>1, ClientRecsMade
  <1>3. AnswersKept' /\ BuiltKept' /\ Reports' = Reports
    BY <1>1, CachesUsed
       DEF ViewLook, ReadLook, EditLook, EditBase, NeedBuilt, EditHeld, EditEnd, Refuse, Serve,
           StillBuilding, shared, k
  <1>4. task' = task /\ jobs' = jobs /\ gate' = gate
    BY DEF ViewLook, ReadLook, EditLook, EditBase, NeedBuilt, EditHeld, EditEnd, Refuse, Serve,
           StillBuilding, shared
  <1>5. client[c].status = "expired" => k \in Reports'
    BY <1>3 DEF ServerInv, ReportsTrue, ReportThere, Reports, HasAnswer, k
  <1>6. ASSUME NEW pc \in {"join", "base", "need", "held", "start"}, Go(c, pc), ~Gated(client[c])
        PROVE  ServerInv'
    <2>1. ~Gated(Moved(c, pc))
      BY <1>2, <1>6 DEF Gated, ClientPcs
    <2>2. QED
      BY <1>3, <1>4, <1>6, <2>1, Goes DEF ClientPcs
  <1>7. ASSUME Go(c, "run"), client[c].kind = "edit"
        PROVE  ServerInv'
    <2>1. ~Gated(Moved(c, "run")) /\ ~Gated(client[c])
      BY <1>2, <1>7 DEF Gated, ClientPcs
    <2>2. QED
      BY <1>3, <1>4, <1>7, <2>1, Goes DEF ClientPcs
  <1>8. ASSUME NEW status \in {"ok", "error"}, Reply(c, status), ~Gated(client[c])
        PROVE  ServerInv'
    BY <1>3, <1>4, <1>8, Replies
  <1>9. CASE ViewLook(c)
    <2> DEFINE kind == IF IsBuilt(k) THEN "edit" ELSE "read"
               r == Rekinded(c, kind)
    <2>1. r \in ClientRecs /\ r.kind = kind /\ r.pc = "start" /\ r.key = k
          /\ r.status = client[c].status /\ kind \in Kinds
      BY <1>1, <1>9, ClientRecsMade DEF ViewLook, At, Kinds, k
    <2>2. client' = [client EXCEPT ![c] = r]
      BY <1>1, <1>9 DEF ViewLook, Typed, Rekinded, k
    <2> HIDE DEF r
    <2>3. ~Gated(r) /\ ~Gated(client[c])
      BY <1>9, <2>1 DEF ViewLook, At, Gated
    <2>4. QED
      BY <1>3, <1>4, <1>5, <2>1, <2>2, <2>3, ClientStep
  <1>10. CASE ReadLook(c)
    BY <1>6, <1>8, <1>10 DEF ReadLook, At, Gated
  <1>11. CASE EditLook(c)
    BY <1>6, <1>7, <1>11 DEF EditLook, At, Gated
  <1>12. CASE EditBase(c)
    BY <1>6, <1>12 DEF EditBase, At, Gated
  <1>13. CASE NeedBuilt(c)
    BY <1>6, <1>13 DEF NeedBuilt, At, Gated
  <1>14. CASE EditHeld(c)
    BY <1>6, <1>7, <1>14 DEF EditHeld, At, Gated
  <1>15. CASE EditEnd(c)
    BY <1>8, <1>15 DEF EditEnd, At, Gated
  <1>16. CASE Refuse(c)
    BY <1>8, <1>16 DEF Refuse, Gated
  <1>17. CASE Serve(c)
    <2>1. client[c].pc = "told" /\ ~Gated(client[c])
      BY <1>17 DEF Serve, Gated
    <2>2. k \in Reports'
      BY <1>3, <2>1 DEF ServerInv, ReportsTrue, ReportThere, Reports, HasAnswer, k
    <2>3. CASE Reply(c, "expired")
      BY <1>3, <1>4, <2>1, <2>2, <2>3, Replies DEF k
    <2>4. QED
      BY <1>6, <1>8, <1>17, <2>1, <2>3 DEF Serve
  <1>18. CASE StillBuilding(c)
    <2> DEFINE pc == IF client[c].kind = "edit" THEN "held" ELSE "start"
               r == Sent(c, pc, NoTask)
    <2>1. pc \in ClientPcs /\ pc \in {"held", "start"}
      BY DEF ClientPcs
    <2>2. r \in ClientRecs /\ r.pc = pc /\ r.key = k /\ r.status = client[c].status
      BY <1>1, <2>1, ClientRecsMade DEF k
    <2>3. client' = [client EXCEPT ![c] = r]
      BY <1>1, <1>18 DEF StillBuilding, Typed, Sent
    <2> HIDE DEF r, pc
    <2>4. ~Gated(r) /\ ~Gated(client[c])
      BY <1>18, <2>1, <2>2 DEF StillBuilding, Gated
    <2>5. QED
      BY <1>3, <1>4, <1>5, <2>1, <2>2, <2>3, <2>4, ClientStep
  <1>19. QED
    BY <1>9, <1>10, <1>11, <1>12, <1>13, <1>14, <1>15, <1>16, <1>17, <1>18

\* A build is joined, or started for the one who asks first.
LEMMA JoinKeeps ==
    ASSUME ServerInv, NEW c \in Client, Join(c)
    PROVE  ServerInv'
  <1> DEFINE k == client[c].key
             t == jobs[k]
  <1>1. Typed /\ k \in Key /\ t \in Task \cup {NoTask} /\ client[c].pc = "join"
    BY ClientRecsMade DEF ServerInv, Typed, Join
  <1>2. AnswersKept' /\ BuiltKept' /\ Reports' = Reports
    BY <1>1, CachesUsed DEF Join
  <1>3. client[c].status = "expired" => k \in Reports
    BY DEF ServerInv, ReportsTrue, ReportThere, Reports, HasAnswer
  <1>4. ~Gated(client[c])
    BY <1>1 DEF Gated
  <1>5. CASE t # NoTask
    <2> DEFINE pc == IF task[t].stage # "remove" THEN "wait"
                     ELSE IF task[t].ok THEN "told" ELSE "refused"
               r == Sent(c, pc, t)
    <2>1. t \in Task /\ task[t].stage # "free" /\ task[t].key = k /\ task[t] \in TaskRecs
      BY <1>1, <1>5 DEF ServerInv, Typed, JobsTrue, NoOrphanJob, Live
    <2>2. pc \in ClientPcs /\ pc \in {"wait", "told", "refused"}
      BY DEF ClientPcs
    <2>3. /\ r \in ClientRecs /\ r.pc = pc /\ r.key = k /\ r.task = t
          /\ r.status = client[c].status
      BY <1>1, <2>2, ClientRecsMade
    <2>4. client' = [client EXCEPT ![c] = r] /\ task' = task /\ jobs' = jobs /\ gate' = gate
      BY <1>1, <1>5 DEF Join, JobOf, Typed, Sent
    <2>5. pc = "wait" => task[t].stage \in {"queued", "build", "replay", "store", "send"}
      BY <2>1 DEF TaskRecs
    <2>6. pc = "told" => k \in Reports
      BY <2>1 DEF ServerInv, ReportsTrue
    <2> HIDE DEF r, pc, k, t
    <2>7. ~Gated(r)
      BY <2>2, <2>3 DEF Gated
    <2>8. QED
      BY <1>2, <1>3, <1>4, <2>1, <2>2, <2>3, <2>4, <2>5, <2>6, <2>7, ClientStep
  <1>6. CASE t = NoTask
    <2> DEFINE n == CHOOSE n \in Task : task[n].stage = "free"
               r == Sent(c, "wait", n)
               u == [stage |-> "queued", key |-> k, ok |-> FALSE]
    <2>1. n \in Task /\ task[n].stage = "free"
      BY <1>6 DEF Join, JobOf
    <2>2. /\ task' = [task EXCEPT ![n] = u] /\ jobs' = [jobs EXCEPT ![k] = n]
          /\ Enter(n) /\ client' = [client EXCEPT ![c] = r]
      BY <1>1, <1>6 DEF Join, JobOf, Typed, Sent
    <2>3. u \in TaskRecs /\ u.key = k /\ u.stage = "queued"
      BY <1>1 DEF TaskRecs
    <2> HIDE DEF n
    <2>4. /\ r \in ClientRecs /\ r.pc = "wait" /\ r.key = k /\ r.task = n
          /\ r.status = client[c].status
      BY <1>1, <2>1, ClientRecsMade DEF ClientPcs
    <2> HIDE DEF r, u
    <2>5. /\ client'[c] = r /\ task'[n] = u /\ jobs'[k] = n
          /\ \A d \in Client : d # c => client'[d] = client[d]
          /\ \A v \in Task : v # n => task'[v] = task[v]
          /\ \A j \in Key : j # k => jobs'[j] = jobs[j]
      BY <1>1, <2>1, <2>2 DEF Typed
    <2>6. Typed'
      BY <1>1, <2>1, <2>2, <2>3, <2>4 DEF Typed
    <2>7. n # NoTask
      BY <2>1, ServerAssumption
    <2> HIDE DEF k
    <2>8. JobsTrue'
      <3>1. \A v \in Task : task'[v].stage # "free" => jobs'[task'[v].key] = v
        <4>1. TAKE v \in Task
        <4>2. HAVE task'[v].stage # "free"
        <4>3. CASE v = n
          BY <2>3, <2>5, <4>3
        <4>4. CASE v # n
          <5>1. task'[v] = task[v] /\ jobs[task[v].key] = v /\ task[v].key \in Key
            BY <1>1, <2>5, <4>2, <4>4 DEF ServerInv, JobsTrue, OneBuildPerKey, Live, Typed, TaskRecs
          <5>2. task[v].key # k
            BY <1>6, <5>1, ServerAssumption
          <5>3. QED
            BY <2>5, <5>1, <5>2
        <4>5. QED
          BY <4>3, <4>4
      <3>2. \A j \in Key : jobs'[j] # NoTask =>
               task'[jobs'[j]].stage # "free" /\ task'[jobs'[j]].key = j
        <4>1. TAKE j \in Key
        <4>2. HAVE jobs'[j] # NoTask
        <4>3. CASE j = k
          BY <2>3, <2>5, <4>3
        <4>4. CASE j # k
          <5>1. jobs[j] # NoTask /\ jobs'[j] = jobs[j] /\ jobs[j] \in Task
            BY <1>1, <2>5, <4>2, <4>4 DEF Typed
          <5>2. task[jobs[j]].stage # "free" /\ task[jobs[j]].key = j
            BY <5>1 DEF ServerInv, JobsTrue, NoOrphanJob, Live
          <5>3. QED
            BY <2>1, <2>5, <5>1, <5>2
        <4>5. QED
          BY <4>3, <4>4
      <3>3. \A d \in Client : client'[d].pc = "wait" =>
               /\ task'[client'[d].task].stage \in {"queued", "build", "replay", "store", "send"}
               /\ task'[client'[d].task].key = client'[d].key
               /\ client'[d].task \in Task
        <4>1. TAKE d \in Client
        <4>2. HAVE client'[d].pc = "wait"
        <4>3. CASE d = c
          BY <2>1, <2>3, <2>4, <2>5, <4>3
        <4>4. CASE d # c
          <5>1. /\ client'[d] = client[d] /\ client[d].task \in Task
                /\ task[client[d].task].stage \in {"queued", "build", "replay", "store", "send"}
                /\ task[client[d].task].key = client[d].key
            BY <2>5, <4>2, <4>4 DEF ServerInv, JobsTrue, NoOrphanJob
          <5>2. QED
            BY <2>1, <2>5, <5>1
        <4>5. QED
          BY <4>3, <4>4
      <3>4. QED
        BY <3>1, <3>2, <3>3 DEF JobsTrue, OneBuildPerKey, NoOrphanJob, Live
    <2>9. ReportsTrue'
      <3>1. \A d \in Client : client'[d].pc = "told" \/ client'[d].status = "expired" =>
               client'[d].key \in Reports'
        BY <1>2, <1>3, <2>4, <2>5 DEF ServerInv, ReportsTrue, ReportThere, Reports, HasAnswer, k
      <3>2. \A v \in Task : task'[v].stage \in {"send", "remove"} /\ task'[v].ok =>
               task'[v].key \in Reports'
        BY <1>2, <2>3, <2>5 DEF ServerInv, ReportsTrue
      <3>3. QED
        BY <3>1, <3>2 DEF ReportsTrue, ReportThere, Reports, HasAnswer
    <2>10. GateKept'
      <3>1. n \in Client \cup Task /\ \A d \in Client : d # n
        BY <2>1, ServerAssumption
      <3>2. /\ Line(gate, Client \cup Task)
            /\ \A d \in Client : d \in ToSet(gate) <=> Gated(client[d])
            /\ \A v \in Task : v \in ToSet(gate) <=> Building(task[v])
        BY DEF ServerInv, GateKept
      <3>3. n \notin ToSet(gate) /\ Building(u) /\ ~Gated(r)
        BY <2>1, <2>3, <2>4, <3>2 DEF Building, Gated
      <3>4. gate' = Append(gate, n)
        BY <2>2 DEF Enter
      <3>5. /\ Line(Append(gate, n), Client \cup Task)
            /\ ToSet(Append(gate, n)) = ToSet(gate) \cup {n}
        BY <3>1, <3>3, GateMoves DEF ServerInv
      <3>6. Line(gate', Client \cup Task) /\ ToSet(gate') = ToSet(gate) \cup {n}
        BY <3>4, <3>5
      <3>7. \A d \in Client : d \in ToSet(gate') <=> Gated(client'[d])
        BY <1>4, <2>5, <3>1, <3>2, <3>3, <3>6
      <3>8. \A v \in Task : v \in ToSet(gate') <=> Building(task'[v])
        BY <2>5, <3>2, <3>3, <3>6
      <3>9. QED
        BY <3>6, <3>7, <3>8 DEF GateKept
    <2>11. QED
      BY <1>2, <2>6, <2>8, <2>9, <2>10 DEF ServerInv
  <1>7. QED
    BY <1>5, <1>6

\* A client asks, or goes.
LEMMA AskKeeps ==
    ASSUME ServerInv, NEW c \in Client, Ask(c) \/ Disconnect(c)
    PROVE  ServerInv'
  <1>1. Typed
    BY DEF ServerInv
  <1>2. AnswersKept' /\ BuiltKept' /\ Reports' = Reports
    BY <1>1, ClientRecsMade, CachesUsed DEF Ask, Disconnect, shared
  <1>3. CASE Ask(c)
    <2>1. PICK a \in Asks[c] : client' = [client EXCEPT ![c] =
             [pc |-> "start", kind |-> a.kind, key |-> a.key, task |-> NoTask, status |-> "none"]]
      BY <1>3 DEF Ask
    <2> DEFINE r == [pc |-> "start", kind |-> a.kind, key |-> a.key, task |-> NoTask,
                     status |-> "none"]
    <2>2. a.kind \in Kinds /\ a.key \in Key
      BY ServerAssumption DEF Key
    <2>3. r \in ClientRecs /\ r.pc = "start" /\ r.status = "none"
      BY <2>2 DEF ClientRecs, ClientPcs
    <2>4. task' = task /\ jobs' = jobs /\ gate' = gate /\ client[c].pc = "idle"
      BY <1>3 DEF Ask, shared
    <2>5. client' = [client EXCEPT ![c] = r]
      BY <2>1
    <2> HIDE DEF r
    <2>6. ~Gated(r) /\ ~Gated(client[c])
      BY <2>3, <2>4 DEF Gated
    <2>7. QED
      BY <1>2, <2>3, <2>4, <2>5, <2>6, ClientStep
  <1>4. CASE Disconnect(c)
    <2>1. /\ task' = task /\ jobs' = jobs /\ gate' = Without(gate, c)
          /\ client' = [client EXCEPT ![c] = Idle]
      BY <1>4 DEF Disconnect
    <2>2. Idle \in ClientRecs /\ Idle.pc = "idle" /\ Idle.status = "none"
      BY <1>1, ClientRecsMade
    <2>3. ~Gated(Idle)
      BY <2>2 DEF Gated
    <2>4. QED
      BY <1>2, <2>1, <2>2, <2>3, ClientStep
  <1>5. QED
    BY <1>3, <1>4

\* What a build becomes.
Stepped(t, stage) == [task[t] EXCEPT !.stage = stage]
Ended(t, stage, ok) == [task[t] EXCEPT !.stage = stage, !.ok = ok]

\* The same of the builds.
LEMMA TaskRecsMade ==
    ASSUME Typed, NEW t \in Task
    PROVE  /\ task[t] \in TaskRecs /\ task[t].key \in Key
           /\ \A stage \in {"queued", "build", "replay", "store", "send", "remove"} :
                /\ Stepped(t, stage) \in TaskRecs /\ Stepped(t, stage).stage = stage
                /\ Stepped(t, stage).key = task[t].key /\ Stepped(t, stage).ok = task[t].ok
           /\ \A stage \in {"store", "send"}, ok \in BOOLEAN :
                /\ Ended(t, stage, ok) \in TaskRecs /\ Ended(t, stage, ok).stage = stage
                /\ Ended(t, stage, ok).key = task[t].key /\ Ended(t, stage, ok).ok = ok
  <1>1. task[t] \in TaskRecs /\ task[t].key \in Key
    BY DEF Typed, TaskRecs
  <1>2. ASSUME NEW stage \in {"queued", "build", "replay", "store", "send", "remove"}
        PROVE  /\ Stepped(t, stage) \in TaskRecs /\ Stepped(t, stage).stage = stage
               /\ Stepped(t, stage).key = task[t].key /\ Stepped(t, stage).ok = task[t].ok
    BY <1>1 DEF Stepped, TaskRecs
  <1>3. ASSUME NEW stage \in {"store", "send"}, NEW ok \in BOOLEAN
        PROVE  /\ Ended(t, stage, ok) \in TaskRecs /\ Ended(t, stage, ok).stage = stage
               /\ Ended(t, stage, ok).key = task[t].key /\ Ended(t, stage, ok).ok = ok
    <2>1. Ended(t, stage, ok) = [Stepped(t, stage) EXCEPT !.ok = ok]
      BY <1>1 DEF Ended, Stepped, TaskRecs
    <2>2. QED
      BY <1>1, <1>2, <2>1 DEF TaskRecs
  <1>4. QED
    BY <1>1, <1>2, <1>3

\* A build up to where it speaks.
LEMMA BuildKeeps ==
    ASSUME ServerInv, NEW t \in Task,
           TaskStart(t) \/ TaskBuilt(t) \/ TaskFails(t) \/ TaskRan(t) \/ TaskStore(t)
    PROVE  ServerInv'
  <1> DEFINE k == task[t].key
  <1>1. Typed /\ k \in Key /\ task[t] \in TaskRecs
    BY TaskRecsMade DEF ServerInv
  <1>2. task \in [Task -> TaskRecs]
    BY <1>1 DEF Typed
  <1> HIDE DEF k
  <1>3. CASE TaskStart(t)
    <2> DEFINE stage == IF IsBuilt(k) THEN "replay" ELSE "build"
               u == Stepped(t, stage)
    <2>1. u \in TaskRecs /\ u.stage = stage /\ u.key = k /\ stage \in {"replay", "build"}
      BY <1>1, TaskRecsMade DEF k
    <2>2. task' = [task EXCEPT ![t] = u] /\ client' = client /\ jobs' = jobs /\ gate' = gate
          /\ task[t].stage = "queued"
      BY <1>2, <1>3 DEF TaskStart, Stepped, k
    <2>3. AnswersKept' /\ BuiltKept' /\ Reports' = Reports
      BY <1>1, <1>3, CachesUsed DEF TaskStart, k
    <2> HIDE DEF u, stage
    <2>4. Building(u) /\ Building(task[t])
      BY <2>1, <2>2 DEF Building
    <2>5. QED
      BY <2>1, <2>2, <2>3, <2>4, TaskStep DEF k
  <1>4. CASE TaskBuilt(t)
    <2> DEFINE u == Stepped(t, "replay")
    <2>1. u \in TaskRecs /\ u.stage = "replay" /\ u.key = k
      BY <1>1, TaskRecsMade DEF k
    <2>2. task' = [task EXCEPT ![t] = u] /\ client' = client /\ jobs' = jobs /\ gate' = gate
          /\ answers' = answers /\ dropped' = dropped /\ task[t].stage = "build"
      BY <1>2, <1>4 DEF TaskBuilt, Stepped
    <2>3. BuiltKept'
      BY <1>1, <1>4, PutBuiltKeeps DEF TaskBuilt, ServerInv, k
    <2>4. AnswersKept' /\ Reports' = Reports
      BY <2>2 DEF ServerInv, AnswersKept, Reports
    <2> HIDE DEF u
    <2>5. Building(u) /\ Building(task[t])
      BY <2>1, <2>2 DEF Building
    <2>6. QED
      BY <2>1, <2>2, <2>3, <2>4, <2>5, TaskStep DEF k
  <1>5. CASE TaskFails(t)
    <2> DEFINE u == Ended(t, "send", FALSE)
    <2>1. u \in TaskRecs /\ u.stage = "send" /\ u.key = k /\ ~u.ok
      BY <1>1, TaskRecsMade DEF k
    <2>2. task' = [task EXCEPT ![t] = u] /\ client' = client /\ jobs' = jobs
          /\ gate' = Without(gate, t) /\ task[t].stage \in {"build", "replay"}
      BY <1>2, <1>5 DEF TaskFails, Release, Ended
    <2>3. AnswersKept' /\ BuiltKept' /\ Reports' = Reports
      BY <1>1, <1>5, CachesUsed DEF TaskFails
    <2> HIDE DEF u
    <2>4. ~Building(u)
      BY <2>1 DEF Building
    <2>5. QED
      BY <2>1, <2>2, <2>3, <2>4, TaskStep DEF k
  <1>6. CASE TaskRan(t)
    <2> DEFINE u == Ended(t, "store", TRUE)
    <2>1. u \in TaskRecs /\ u.stage = "store" /\ u.key = k
      BY <1>1, TaskRecsMade DEF k
    <2>2. task' = [task EXCEPT ![t] = u] /\ client' = client /\ jobs' = jobs
          /\ gate' = Without(gate, t) /\ task[t].stage = "replay"
      BY <1>2, <1>6 DEF TaskRan, Release, Ended
    <2>3. AnswersKept' /\ BuiltKept' /\ Reports' = Reports
      BY <1>1, <1>6, CachesUsed DEF TaskRan
    <2> HIDE DEF u
    <2>4. ~Building(u)
      BY <2>1 DEF Building
    <2>5. QED
      BY <2>1, <2>2, <2>3, <2>4, TaskStep DEF k
  <1>7. CASE TaskStore(t)
    <2> DEFINE u == Stepped(t, "send")
    <2>1. u \in TaskRecs /\ u.stage = "send" /\ u.key = k
      BY <1>1, TaskRecsMade DEF k
    <2>2. task' = [task EXCEPT ![t] = u] /\ client' = client /\ jobs' = jobs /\ gate' = gate
          /\ built' = built /\ wanted' = wanted /\ task[t].stage = "store" /\ PutAnswer(k)
      BY <1>2, <1>7 DEF TaskStore, Stepped, k
    <2>3. AnswersKept' /\ k \in ToSet(answers') /\ Reports \subseteq Reports'
      <3>1. PICK j \in Key : j = k
        BY <1>1
      <3>2. AnswersKept /\ PutAnswer(j)
        BY <2>2, <3>1 DEF ServerInv
      <3>3. AnswersKept' /\ HasAnswer(j)' /\ Reports \subseteq Reports'
        BY <3>2, PutKeeps
      <3>4. QED
        BY <3>1, <3>3 DEF HasAnswer
    <2>4. BuiltKept'
      BY <2>2 DEF ServerInv, BuiltKept
    <2>5. u.key \in Reports'
      BY <2>1, <2>3 DEF Reports
    <2> HIDE DEF u
    <2>6. ~Building(u) /\ ~Building(task[t])
      BY <2>1, <2>2 DEF Building
    <2>7. QED
      BY <2>1, <2>2, <2>3, <2>4, <2>5, <2>6, TaskStep DEF k
  <1>8. QED
    BY <1>3, <1>4, <1>5, <1>6, <1>7

\* It speaks to everyone who waits for it.
LEMMA SendKeeps ==
    ASSUME ServerInv, NEW t \in Task, TaskSend(t)
    PROVE  ServerInv'
  <1> DEFINE k == task[t].key
             u == Stepped(t, "remove")
             pc == IF task[t].ok THEN "told" ELSE "refused"
             Waits(c) == client[c].pc = "wait" /\ client[c].task = t
  <1>1. Typed /\ k \in Key /\ task[t] \in TaskRecs /\ task[t].stage = "send"
    BY TaskRecsMade DEF ServerInv, TaskSend
  <1>2. u \in TaskRecs /\ u.stage = "remove" /\ u.key = k /\ u.ok = task[t].ok
    BY <1>1, TaskRecsMade
  <1>3. /\ task' = [task EXCEPT ![t] = u] /\ jobs' = jobs /\ gate' = gate
        /\ answers' = answers /\ dropped' = dropped /\ built' = built /\ wanted' = wanted
    BY <1>1 DEF TaskSend, shared, Stepped, Typed
  <1>4. /\ DOMAIN client' = Client
        /\ \A c \in Client : client'[c] = IF Waits(c) THEN Moved(c, pc) ELSE client[c]
        /\ client' = [c \in Client |-> client'[c]]
    BY DEF TaskSend, Moved
  <1>5. \A c \in Client : /\ Moved(c, pc) \in ClientRecs /\ Moved(c, pc).pc = pc
                          /\ Moved(c, pc).key = client[c].key
                          /\ Moved(c, pc).status = client[c].status
                          /\ Moved(c, pc).kind = client[c].kind
    <2>1. pc \in ClientPcs
      BY DEF ClientPcs
    <2>2. QED
      BY <1>1, <2>1, ClientRecsMade
  <1>6. \A v \in Task : task'[v].key = task[v].key /\ (v # t => task'[v] = task[v])
        /\ (task'[v].stage = "free" <=> task[v].stage = "free")
    BY <1>1, <1>2, <1>3 DEF Typed
  <1>7. task'[t] = u
    BY <1>1, <1>3 DEF Typed
  <1>8. AnswersKept' /\ BuiltKept' /\ Reports' = Reports
    BY <1>1, <1>3, CachesUsed
  <1>9. \A c \in Client : Waits(c) => client[c].key = k
    BY DEF ServerInv, JobsTrue, NoOrphanJob
  <1>10. task[t].ok => k \in Reports
    BY <1>1 DEF ServerInv, ReportsTrue
  <1>11. pc = "told" \/ pc = "refused"
    OBVIOUS
  <1>12. pc = "told" => k \in Reports
    BY <1>10
  <1> HIDE DEF k, u, pc
  <1>13. Typed'
    <2>1. \A c \in Client : client'[c] \in ClientRecs
      BY <1>1, <1>4, <1>5 DEF Typed
    <2> HIDE DEF Waits
    <2>2. client' \in [Client -> ClientRecs]
      BY <1>4, <2>1
    <2>3. task' \in [Task -> TaskRecs] /\ jobs' \in [Key -> Task \cup {NoTask}]
      BY <1>1, <1>2, <1>3 DEF Typed
    <2>4. QED
      BY <2>2, <2>3 DEF Typed
  <1>14. JobsTrue'
    <2>1. \A v \in Task : task'[v].stage # "free" => jobs'[task'[v].key] = v
      BY <1>3, <1>6 DEF ServerInv, JobsTrue, OneBuildPerKey, Live
    <2>2. \A j \in Key : jobs'[j] # NoTask =>
             task'[jobs'[j]].stage # "free" /\ task'[jobs'[j]].key = j
      <3>1. TAKE j \in Key
      <3>2. HAVE jobs'[j] # NoTask
      <3>3. jobs[j] \in Task /\ task[jobs[j]].stage # "free" /\ task[jobs[j]].key = j
        BY <1>1, <1>3, <3>2 DEF Typed, ServerInv, JobsTrue, NoOrphanJob, Live
      <3>4. QED
        BY <1>3, <1>6, <3>3
    <2>3. \A c \in Client : client'[c].pc = "wait" =>
             /\ task'[client'[c].task].stage \in {"queued", "build", "replay", "store", "send"}
             /\ task'[client'[c].task].key = client'[c].key
             /\ client'[c].task \in Task
      <3>1. TAKE c \in Client
      <3>2. HAVE client'[c].pc = "wait"
      <3>3. client'[c] = client[c] /\ client[c].pc = "wait" /\ client[c].task # t
        BY <1>4, <1>5, <1>11, <3>2
      <3>4. /\ client[c].task \in Task /\ task[client[c].task].key = client[c].key
            /\ task[client[c].task].stage \in {"queued", "build", "replay", "store", "send"}
        BY <3>3 DEF ServerInv, JobsTrue, NoOrphanJob
      <3>5. QED
        BY <1>6, <3>3, <3>4
    <2>4. QED
      BY <2>1, <2>2, <2>3 DEF JobsTrue, OneBuildPerKey, NoOrphanJob, Live
  <1>15. ReportsTrue'
    <2>1. \A c \in Client : client'[c].pc = "told" \/ client'[c].status = "expired" =>
             client'[c].key \in Reports'
      <3>1. TAKE c \in Client
      <3>2. client[c].pc = "told" \/ client[c].status = "expired" => client[c].key \in Reports
        BY DEF ServerInv, ReportsTrue, ReportThere, Reports, HasAnswer
      <3>3. CASE Waits(c)
        BY <1>4, <1>5, <1>8, <1>9, <1>12, <3>2, <3>3
      <3>4. CASE ~Waits(c)
        BY <1>4, <1>8, <3>2, <3>4
      <3>5. QED
        BY <3>3, <3>4
    <2>2. \A v \in Task : task'[v].stage \in {"send", "remove"} /\ task'[v].ok =>
             task'[v].key \in Reports'
      BY <1>1, <1>2, <1>6, <1>7, <1>8 DEF ServerInv, ReportsTrue, k
    <2>3. QED
      BY <2>1, <2>2 DEF ReportsTrue, ReportThere, Reports, HasAnswer
  <1>16. GateKept'
    <2>1. \A c \in Client : Gated(client'[c]) <=> Gated(client[c])
      BY <1>4, <1>5, <1>11 DEF Gated
    <2>2. \A v \in Task : Building(task'[v]) <=> Building(task[v])
      BY <1>1, <1>2, <1>6, <1>7 DEF Building
    <2>3. QED
      BY <1>3, <2>1, <2>2 DEF ServerInv, GateKept
  <1>17. QED
    BY <1>8, <1>13, <1>14, <1>15, <1>16 DEF ServerInv

\* It leaves the table; nobody waits for it any more.
LEMMA RemoveKeeps ==
    ASSUME ServerInv, NEW t \in Task, TaskRemove(t)
    PROVE  ServerInv'
  <1> DEFINE k == task[t].key
  <1>1. Typed /\ k \in Key /\ task[t].stage = "remove" /\ jobs[k] = t
    <2>1. Typed /\ k \in Key /\ task[t].stage = "remove"
      BY TaskRecsMade DEF ServerInv, TaskRemove
    <2>2. QED
      BY <2>1 DEF ServerInv, JobsTrue, OneBuildPerKey, Live
  <1>2. /\ task' = [task EXCEPT ![t] = Free] /\ jobs' = [jobs EXCEPT ![k] = NoTask]
        /\ gate' = gate /\ client' = client
        /\ answers' = answers /\ dropped' = dropped /\ built' = built /\ wanted' = wanted
    BY DEF TaskRemove
  <1>3. Free.stage = "free" /\ Free \in TaskRecs
    <2>1. (CHOOSE j \in Key : TRUE) \in Key
      BY ServerAssumption
    <2>2. Idle.key \in Key
      BY <2>1 DEF Idle
    <2>3. QED
      BY <2>2 DEF Free, TaskRecs
  <1> HIDE DEF k
  <1>4. /\ task'[t].stage = "free" /\ \A v \in Task : v # t => task'[v] = task[v]
        /\ jobs'[k] = NoTask /\ \A j \in Key : j # k => jobs'[j] = jobs[j]
    BY <1>1, <1>2, <1>3 DEF Typed
  <1>5. AnswersKept' /\ BuiltKept' /\ Reports' = Reports
    BY <1>1, <1>2, CachesUsed
  <1>6. Typed'
    BY <1>1, <1>2, <1>3 DEF Typed
  <1>7. JobsTrue'
    <2>1. \A v \in Task : task'[v].stage # "free" => jobs'[task'[v].key] = v
      <3>1. TAKE v \in Task
      <3>2. HAVE task'[v].stage # "free"
      <3>3. v # t /\ task'[v] = task[v] /\ task[v].key \in Key /\ jobs[task[v].key] = v
        BY <1>1, <1>4, <3>2 DEF ServerInv, JobsTrue, OneBuildPerKey, Live, Typed, TaskRecs
      <3>4. QED
        BY <1>1, <1>4, <3>3
    <2>2. \A j \in Key : jobs'[j] # NoTask =>
             task'[jobs'[j]].stage # "free" /\ task'[jobs'[j]].key = j
      <3>1. TAKE j \in Key
      <3>2. HAVE jobs'[j] # NoTask
      <3>3. /\ j # k /\ jobs'[j] = jobs[j] /\ jobs[j] \in Task
            /\ task[jobs[j]].stage # "free" /\ task[jobs[j]].key = j
        BY <1>1, <1>4, <3>2 DEF Typed, ServerInv, JobsTrue, NoOrphanJob, Live
      <3>4. jobs[j] # t
        BY <3>3 DEF k
      <3>5. QED
        BY <1>4, <3>3, <3>4
    <2>3. \A c \in Client : client'[c].pc = "wait" =>
             /\ task'[client'[c].task].stage \in {"queued", "build", "replay", "store", "send"}
             /\ task'[client'[c].task].key = client'[c].key
             /\ client'[c].task \in Task
      <3>1. TAKE c \in Client
      <3>2. HAVE client'[c].pc = "wait"
      <3>3. /\ client'[c] = client[c] /\ client[c].task \in Task
            /\ task[client[c].task].key = client[c].key
            /\ task[client[c].task].stage \in {"queued", "build", "replay", "store", "send"}
        BY <1>2, <3>2 DEF ServerInv, JobsTrue, NoOrphanJob
      <3>4. client[c].task # t
        BY <1>1, <3>3
      <3>5. QED
        BY <1>4, <3>3, <3>4
    <2>4. QED
      BY <2>1, <2>2, <2>3 DEF JobsTrue, OneBuildPerKey, NoOrphanJob, Live
  <1>8. ReportsTrue'
    <2>1. \A c \in Client : client'[c].pc = "told" \/ client'[c].status = "expired" =>
             client'[c].key \in Reports'
      BY <1>2, <1>5 DEF ServerInv, ReportsTrue, ReportThere, Reports, HasAnswer
    <2>2. \A v \in Task : task'[v].stage \in {"send", "remove"} /\ task'[v].ok =>
             task'[v].key \in Reports'
      BY <1>4, <1>5 DEF ServerInv, ReportsTrue
    <2>3. QED
      BY <2>1, <2>2 DEF ReportsTrue, ReportThere, Reports, HasAnswer
  <1>9. GateKept'
    <2>1. \A v \in Task : Building(task'[v]) <=> Building(task[v])
      BY <1>1, <1>4 DEF Building
    <2>2. QED
      BY <1>2, <2>1 DEF ServerInv, GateKept
  <1>10. QED
    BY <1>5, <1>6, <1>7, <1>8, <1>9 DEF ServerInv

\* No answers always fit.
LEMMA NoneFits ==
    ASSUME NEW s, Len(s) = 0, ToSet(s) = {}
    PROVE  Fits(s)
  <1>1. Bytes(s) = {}
    BY DEF Bytes
  <1>2. Cardinality(Bytes(s)) = 0
    BY <1>1, FS_EmptySet
  <1>3. AtMax \in Nat /\ Budget \in Nat
    BY ServerAssumption
  <1>4. QED
    BY <1>2, <1>3 DEF Fits

\* Time passes.
LEMMA TimeKeeps ==
    ASSUME ServerInv, Expire \/ DetachedEnds \/ UNCHANGED vars
    PROVE  ServerInv'
  <1>1. UNCHANGED <<client, task, jobs, gate>>
    BY DEF Expire, DetachedEnds, vars, shared
  <1>2. AnswersKept' /\ BuiltKept' /\ Reports \subseteq Reports'
    <2>1. CASE DetachedEnds \/ UNCHANGED vars
      BY <2>1 DEF DetachedEnds, vars, shared, ServerInv, AnswersKept, BuiltKept, Reports
    <2>2. CASE /\ answers # <<>> /\ answers' = Tail(answers)
               /\ dropped' = dropped \cup {Head(answers)} /\ UNCHANGED <<built, wanted>>
      <3>1. Line(answers, Key) /\ (Fits(answers) \/ Len(answers) = 1)
        BY DEF ServerInv, AnswersKept
      <3>2. /\ Line(Tail(answers), Key) /\ ToSet(Tail(answers)) = ToSet(answers) \ {Head(answers)}
            /\ Len(Tail(answers)) = Len(answers) - 1 /\ Len(answers) \in Nat
        BY <2>2, <3>1, TailLine, LineBasics
      <3>3. Fits(Tail(answers))
        <4>1. CASE Fits(answers)
          <5>1. ToSet(Tail(answers)) \subseteq ToSet(answers) /\ Len(Tail(answers)) <= Len(answers)
            BY <3>2
          <5>2. QED
            BY <3>1, <3>2, <4>1, <5>1, LessFits
        <4>2. CASE Len(answers) = 1
          <5>1. Len(Tail(answers)) = 0
            BY <3>2, <4>2
          <5>2. ToSet(Tail(answers)) = {}
            BY <3>2, <5>1, LineBasics
          <5>3. QED
            BY <5>1, <5>2, NoneFits
        <4>3. QED
          BY <3>1, <4>1, <4>2
      <3>4. AnswersKept'
        BY <2>2, <3>2, <3>3 DEF AnswersKept
      <3>5. BuiltKept'
        BY <2>2 DEF ServerInv, BuiltKept
      <3>6. ToSet(answers') = ToSet(answers) \ {Head(answers)}
        BY <2>2, <3>2
      <3>7. QED
        BY <2>2, <3>4, <3>5, <3>6 DEF Reports
    <2>3. CASE /\ wanted # <<>> /\ wanted' = Tail(wanted)
               /\ built' = Without(built, Head(wanted)) /\ UNCHANGED <<answers, dropped>>
      <3>1. Line(wanted, Key) /\ Line(built, Key) /\ ToSet(wanted) = ToSet(built)
            /\ Len(built) <= BuiltMax
        BY DEF ServerInv, BuiltKept
      <3>2. Line(Tail(wanted), Key) /\ ToSet(Tail(wanted)) = ToSet(wanted) \ {Head(wanted)}
        BY <2>3, <3>1, TailLine
      <3>3. /\ Line(Without(built, Head(wanted)), Key)
            /\ ToSet(Without(built, Head(wanted))) = ToSet(built) \ {Head(wanted)}
            /\ Len(Without(built, Head(wanted))) =
                 IF Head(wanted) \in ToSet(built) THEN Len(built) - 1 ELSE Len(built)
        BY <3>1, WithoutLine
      <3>4. Len(Without(built, Head(wanted))) <= BuiltMax
        <4>1. Len(built) \in Nat /\ BuiltMax \in Nat
          BY <3>1, LineBasics, ServerAssumption
        <4>2. QED
          BY <3>1, <3>3, <4>1
      <3>5. ToSet(wanted') = ToSet(built')
        BY <2>3, <3>1, <3>2, <3>3
      <3>6. BuiltKept'
        BY <2>3, <3>2, <3>3, <3>4, <3>5 DEF BuiltKept
      <3>7. AnswersKept' /\ Reports' = Reports
        BY <2>3 DEF ServerInv, AnswersKept, Reports
      <3>8. QED
        BY <3>6, <3>7
    <2>4. QED
      BY <2>1, <2>2, <2>3 DEF Expire
  <1>3. Typed' /\ GateKept'
    BY <1>1 DEF ServerInv, Typed, GateKept
  <1>4. JobsTrue'
    BY <1>1 DEF ServerInv, JobsTrue, OneBuildPerKey, NoOrphanJob, Live
  <1>5. ReportsTrue'
    <2>1. \A c \in Client : client'[c].pc = "told" \/ client'[c].status = "expired" =>
             client'[c].key \in Reports'
      BY <1>1, <1>2 DEF ServerInv, ReportsTrue, ReportThere, Reports, HasAnswer
    <2>2. \A v \in Task : task'[v].stage \in {"send", "remove"} /\ task'[v].ok =>
             task'[v].key \in Reports'
      BY <1>1, <1>2 DEF ServerInv, ReportsTrue
    <2>3. QED
      BY <2>1, <2>2 DEF ReportsTrue, ReportThere, Reports, HasAnswer
  <1>6. QED
    BY <1>2, <1>3, <1>4, <1>5 DEF ServerInv

\* Nobody asked yet, nothing is kept.
LEMMA ServerStart == Init => ServerInv
  <1> SUFFICES ASSUME Init PROVE ServerInv
    OBVIOUS
  <1>1. (CHOOSE j \in Key : TRUE) \in Key
    BY ServerAssumption
  <1> DEFINE k0 == CHOOSE j \in Key : TRUE
  <1>2. Idle = [pc |-> "idle", kind |-> "at", key |-> k0, task |-> NoTask, status |-> "none"]
    BY DEF Idle
  <1>3. k0 \in Key
    BY <1>1
  <1> HIDE DEF k0
  <1>4. Idle \in ClientRecs /\ Idle.pc = "idle" /\ Idle.status = "none" /\ Idle.key \in Key
    BY <1>2, <1>3 DEF ClientRecs, ClientPcs, Kinds
  <1>5. Free \in TaskRecs /\ Free.stage = "free"
    BY <1>4 DEF Free, TaskRecs
  <1>6. Typed
    BY <1>4, <1>5 DEF Init, Typed
  <1>7. \A S : Line(<<>>, S)
    BY DEF Line, IsInjective
  <1>8. ToSet(<<>>) = {} /\ Len(<<>>) = 0
    BY DEF ToSet
  <1>9. Fits(<<>>)
    BY <1>8, NoneFits
  <1>10. AnswersKept
    BY <1>7, <1>9 DEF Init, AnswersKept
  <1>11. BuiltKept
    BY <1>7, <1>8, ServerAssumption DEF Init, BuiltKept
  <1>12. GateKept
    BY <1>4, <1>5, <1>7, <1>8 DEF Init, GateKept, Gated, Building
  <1>13. JobsTrue
    BY <1>4, <1>5 DEF Init, JobsTrue, OneBuildPerKey, NoOrphanJob, Live
  <1>14. ReportsTrue
    BY <1>4, <1>5 DEF Init, ReportsTrue, ReportThere
  <1>15. QED
    BY <1>6, <1>10, <1>11, <1>12, <1>13, <1>14 DEF ServerInv

\* Every step keeps the invariant.
LEMMA ServerNext == ServerInv /\ [Next]_vars => ServerInv'
  <1> SUFFICES ASSUME ServerInv, [Next]_vars PROVE ServerInv'
    OBVIOUS
  <1>1. ASSUME NEW c \in Client, Ask(c) \/ Handle(c) \/ Disconnect(c) PROVE ServerInv'
    BY <1>1, AskKeeps, AtKeeps, BundleKeeps, JoinKeeps DEF Handle
  <1>2. ASSUME NEW t \in Task, Run(t) PROVE ServerInv'
    BY <1>2, BuildKeeps, SendKeeps, RemoveKeeps DEF Run
  <1>3. CASE Expire \/ DetachedEnds \/ UNCHANGED vars
    BY <1>3, TimeKeeps
  <1>4. QED
    BY <1>1, <1>2, <1>3 DEF Next

\* For any clients, questions and sizes of the caches, the gate and the answers,
\* whatever expires, fails or is cut off: a build is the only one of its bundle and
\* the one the table names, whoever waits waits for a build of their bundle that
\* will speak, whoever is told of a report finds it or it was dropped since, and
\* the gate holds exactly those who run or wait for it.
THEOREM SharedCorrect == Spec => []BuildsShared
  <1>1. Spec => []ServerInv
    BY ServerStart, ServerNext, PTL DEF Spec
  <1>2. QED
    BY <1>1, InvShared, PTL

-----------------------------------------------------------------------------
\* Sums over a finite set, one element at a time

Pick(s) == CHOOSE x \in s : TRUE

\* g is the sum of w over every subset of S.
Sums(g, w, S) ==
    /\ g = [s \in SUBSET S |-> g[s]]
    /\ g[{}] = 0
    /\ \A s \in SUBSET S : s # {} => g[s] = g[s \ {Pick(s)}] + w[Pick(s)]

\* A property of finite sets that fails, fails on one whose every smaller
\* subset has it.
LEMMA SmallestSet ==
    ASSUME NEW S, IsFiniteSet(S), NEW Bad \in SUBSET SUBSET S, Bad # {}
    PROVE  \E s \in Bad : \A x \in s : s \ {x} \notin Bad
  <1> DEFINE N == {Cardinality(s) : s \in Bad}
  <1>1. \A s \in Bad : IsFiniteSet(s) /\ Cardinality(s) \in Nat
    BY FS_Subset, FS_CardinalityType
  <1>2. N \in SUBSET Nat /\ N # {}
    BY <1>1
  <1>3. PICK n \in N : \A m \in N : n <= m
    <2> HIDE DEF N
    <2>1. QED
      BY <1>2, SmallestOf
  <1>4. PICK s \in Bad : n = Cardinality(s)
    BY <1>3
  <1>5. ASSUME NEW x \in s, s \ {x} \in Bad
        PROVE  FALSE
    <2>1. Cardinality(s \ {x}) = Cardinality(s) - 1
      BY <1>1, FS_RemoveElement
    <2>2. Cardinality(s \ {x}) \in N /\ n \in Nat
      BY <1>2, <1>3, <1>5
    <2>3. n <= Cardinality(s \ {x})
      BY <1>3, <2>2
    <2> HIDE DEF N
    <2>4. QED
      BY <1>4, <2>1, <2>2, <2>3
  <1>6. QED
    BY <1>5

AddsUp(g, w, S) == g = [s \in SUBSET S |-> IF s = {} THEN 0 ELSE g[s \ {Pick(s)}] + w[Pick(s)]]

\* Such a g there is: by size of the subset.
LEMMA SumsExist ==
    ASSUME NEW S, IsFiniteSet(S), NEW w
    PROVE  \E g : AddsUp(g, w, S)
  <1> DEFINE Upto(n) == {s \in SUBSET S : Cardinality(s) <= n}
             Body(g, s) == IF s = {} THEN 0 ELSE g[s \ {Pick(s)}] + w[Pick(s)]
             Good(g, n) == g = [s \in Upto(n) |-> Body(g, s)]
             Bad == {n \in Nat : \A g : ~Good(g, n)}
  <1>1. \A s \in SUBSET S : IsFiniteSet(s) /\ Cardinality(s) \in Nat
    BY FS_Subset, FS_CardinalityType
  <1>2. \A s \in SUBSET S : s # {} => Pick(s) \in s /\ Cardinality(s \ {Pick(s)}) = Cardinality(s) - 1
    BY <1>1, FS_RemoveElement DEF Pick
  <1>3. ASSUME Bad # {}
        PROVE  FALSE
    <2>1. PICK n \in Bad : \A m \in Bad : n <= m
      <3>1. Bad \in SUBSET Nat
        OBVIOUS
      <3> HIDE DEF Bad
      <3>2. QED
        BY <1>3, <3>1, SmallestOf
    <2>2. CASE n = 0
      <3> DEFINE g == [s \in {{}} |-> 0]
      <3>1. Upto(0) = {{}}
        <4>1. \A s \in SUBSET S : Cardinality(s) <= 0 <=> s = {}
          BY <1>1, FS_EmptySet
        <4>2. QED
          BY <4>1
      <3>2. Good(g, 0)
        BY <3>1
      <3>3. QED
        BY <2>1, <2>2, <3>2
    <2>3. CASE n # 0
      <3>1. n \in Nat /\ n - 1 \in Nat /\ n - 1 \notin Bad
        <4>1. n \in Nat /\ n - 1 \in Nat /\ ~(n <= n - 1)
          BY <2>1, <2>3
        <4> HIDE DEF Bad
        <4>2. QED
          BY <2>1, <4>1
      <3>2. PICK g : Good(g, n - 1)
        BY <3>1
      <3> DEFINE h == [s \in Upto(n) |-> IF s \in Upto(n - 1) THEN g[s] ELSE Body(g, s)]
      <3>3. ASSUME NEW s \in Upto(n)
            PROVE  h[s] = Body(h, s)
        <4>1. CASE s = {}
          <5>1. s \in Upto(n - 1)
            BY <4>1, <3>1, FS_EmptySet
          <5>2. QED
            BY <3>2, <4>1, <5>1
        <4>2. CASE s # {}
          <5> DEFINE t == s \ {Pick(s)}
          <5>1. t \in SUBSET S /\ Cardinality(t) = Cardinality(s) - 1 /\ Cardinality(s) \in Nat
            BY <1>1, <1>2, <4>2
          <5>2. t \in Upto(n - 1) /\ t \in Upto(n)
            BY <3>1, <5>1
          <5>3. h[t] = g[t]
            BY <5>2
          <5>4. h[s] = g[t] + w[Pick(s)]
            BY <3>2, <4>2
          <5>5. QED
            BY <4>2, <5>3, <5>4
        <4>3. QED
          BY <4>1, <4>2
      <3>4. Good(h, n)
        BY <3>3
      <3>5. QED
        BY <2>1, <3>4
    <2>4. QED
      BY <2>2, <2>3
  <1> DEFINE k == Cardinality(S)
  <1>4. k \in Nat /\ Upto(k) = SUBSET S
    <2>1. \A s \in SUBSET S : Cardinality(s) <= Cardinality(S)
      BY FS_Subset
    <2>2. QED
      BY <2>1, FS_CardinalityType
  <1>5. k \notin Bad
    BY <1>3
  <1>6. PICK g : Good(g, k)
    BY <1>4, <1>5
  <1>7. QED
    BY <1>4, <1>6 DEF AddsUp

\* What FoldSet adds up is such a sum.
SumOf(w, S) == FoldSet(LAMBDA x, n : n + w[x], 0, S)

LEMMA SumIs ==
    ASSUME NEW S, IsFiniteSet(S), NEW w
    PROVE  \E g : Sums(g, w, S) /\ SumOf(w, S) = g[S]
  <1> DEFINE g0 == CHOOSE g : AddsUp(g, w, S)
  <1>1. AddsUp(g0, w, S)
    BY SumsExist
  <1>2. SumOf(w, S) = g0[S]
    BY DEF SumOf, FoldSet, MapThenFoldSet, AddsUp, Pick
  <1> HIDE DEF g0
  <1>3. Sums(g0, w, S)
    BY <1>1 DEF Sums, AddsUp
  <1>4. QED
    BY <1>2, <1>3

LEMMA SumsType ==
    ASSUME NEW S, IsFiniteSet(S), NEW w, \A x \in S : w[x] \in Nat, NEW g, Sums(g, w, S)
    PROVE  \A s \in SUBSET S : g[s] \in Nat
  <1> DEFINE Bad == {s \in SUBSET S : g[s] \notin Nat}
  <1>1. ASSUME Bad # {}
        PROVE  FALSE
    <2>1. PICK s \in Bad : \A x \in s : s \ {x} \notin Bad
      <3>1. Bad \in SUBSET SUBSET S
        OBVIOUS
      <3> HIDE DEF Bad
      <3>2. QED
        BY <1>1, <3>1, SmallestSet
    <2>2. s # {}
      <3>1. g[s] \notin Nat
        BY <2>1
      <3>2. g[{}] \in Nat
        BY DEF Sums
      <3>3. QED
        BY <3>1, <3>2
    <2>3. Pick(s) \in s
      BY <2>2 DEF Pick
    <2>4. g[s \ {Pick(s)}] \in Nat /\ w[Pick(s)] \in Nat
      BY <2>1, <2>3
    <2>5. g[s] = g[s \ {Pick(s)}] + w[Pick(s)]
      BY <2>1, <2>2 DEF Sums
    <2>6. QED
      BY <2>1, <2>4, <2>5
  <1>2. QED
    BY <1>1

\* The order does not matter: any element may be added last.
LEMMA SumsRemove ==
    ASSUME NEW S, IsFiniteSet(S), NEW w, \A x \in S : w[x] \in Nat, NEW g, Sums(g, w, S)
    PROVE  \A s \in SUBSET S : \A x \in s : g[s] = g[s \ {x}] + w[x]
  <1> DEFINE AnyLast(s) == \A x \in s : g[s] = g[s \ {x}] + w[x]
             Bad == {s \in SUBSET S : ~AnyLast(s)}
  <1>1. ASSUME Bad # {}
        PROVE  FALSE
    <2>1. PICK s \in Bad : \A x \in s : s \ {x} \notin Bad
      <3>1. Bad \in SUBSET SUBSET S
        OBVIOUS
      <3> HIDE DEF Bad
      <3>2. QED
        BY <1>1, <3>1, SmallestSet
    <2>2. s \in SUBSET S /\ \A x \in s : AnyLast(s \ {x})
      BY <2>1
    <2>3. PICK x \in s : g[s] # g[s \ {x}] + w[x]
      BY <2>1
    <2> DEFINE p == Pick(s)
    <2>4. p \in s /\ g[s] = g[s \ {p}] + w[p]
      BY <2>2, <2>3 DEF Pick, Sums
    <2> HIDE DEF p, AnyLast, Bad
    <2>5. x # p
      BY <2>3, <2>4
    <2>6. g[s \ {p}] = g[(s \ {p}) \ {x}] + w[x]
      BY <2>2, <2>3, <2>4, <2>5 DEF AnyLast
    <2>7. g[s \ {x}] = g[(s \ {x}) \ {p}] + w[p]
      BY <2>2, <2>3, <2>4, <2>5 DEF AnyLast
    <2>8. (s \ {p}) \ {x} = (s \ {x}) \ {p}
      OBVIOUS
    <2>9. g[(s \ {x}) \ {p}] \in Nat /\ w[x] \in Nat /\ w[p] \in Nat
      BY <2>2, <2>3, <2>4, SumsType
    <2> DEFINE a == g[(s \ {x}) \ {p}]
    <2>10. g[s] = (a + w[x]) + w[p] /\ g[s \ {x}] = a + w[p]
      BY <2>4, <2>6, <2>7, <2>8, Zenon
    <2>11. a \in Nat
      BY <2>9
    <2> HIDE DEF a
    <2>12. QED
      BY <2>3, <2>9, <2>10, <2>11
  <1>2. QED
    BY <1>1

\* Weights that agree have the same sum.
LEMMA SumsAgree ==
    ASSUME NEW S, NEW S2, NEW T, IsFiniteSet(T), T \subseteq S, T \subseteq S2,
           NEW w, NEW w2, \A x \in T : w[x] = w2[x],
           NEW g, NEW g2, Sums(g, w, S), Sums(g2, w2, S2)
    PROVE  g[T] = g2[T]
  <1> DEFINE Bad == {s \in SUBSET T : g[s] # g2[s]}
  <1>1. ASSUME Bad # {}
        PROVE  FALSE
    <2>1. PICK s \in Bad : \A x \in s : s \ {x} \notin Bad
      <3>1. Bad \in SUBSET SUBSET T
        OBVIOUS
      <3> HIDE DEF Bad
      <3>2. QED
        BY <1>1, <3>1, SmallestSet
    <2>2. s # {}
      BY <2>1 DEF Sums
    <2>3. Pick(s) \in s
      BY <2>2 DEF Pick
    <2>4. g[s \ {Pick(s)}] = g2[s \ {Pick(s)}] /\ w[Pick(s)] = w2[Pick(s)]
      BY <2>1, <2>3
    <2>5. /\ g[s] = g[s \ {Pick(s)}] + w[Pick(s)]
          /\ g2[s] = g2[s \ {Pick(s)}] + w2[Pick(s)]
      BY <2>1, <2>2 DEF Sums
    <2>6. QED
      BY <2>1, <2>4, <2>5
  <1>2. QED
    BY <1>1

\* One more under one key, which may be new, is one more in the sum.
Bumped(w, w2, S, k) ==
    /\ \A x \in S : w[x] \in Nat
    /\ \A x \in S \ {k} : w2[x] = w[x]
    /\ w2[k] = (IF k \in S THEN w[k] ELSE 0) + 1

LEMMA SumGrows ==
    ASSUME NEW S, IsFiniteSet(S), NEW k, NEW w, NEW w2, Bumped(w, w2, S, k)
    PROVE  SumOf(w2, S \cup {k}) = SumOf(w, S) + 1
  <1> DEFINE S2 == S \cup {k}
             R == S \ {k}
  <1>1. /\ \A x \in S : w[x] \in Nat
        /\ \A x \in S \ {k} : w2[x] = w[x]
        /\ w2[k] = (IF k \in S THEN w[k] ELSE 0) + 1
    BY DEF Bumped
  <1>2. IsFiniteSet(S2) /\ IsFiniteSet(R)
    BY FS_AddElement, FS_Subset
  <1>3. \A x \in S2 : w2[x] \in Nat
    BY <1>1
  <1>4. PICK g : Sums(g, w, S) /\ SumOf(w, S) = g[S]
    BY SumIs
  <1>5. PICK g2 : Sums(g2, w2, S2) /\ SumOf(w2, S2) = g2[S2]
    BY <1>2, SumIs
  <1>6. g[R] = g2[R]
    BY <1>1, <1>2, <1>4, <1>5, SumsAgree
  <1>7. g2[S2] = g2[R] + w2[k]
    <2>1. S2 \ {k} = R /\ S2 \in SUBSET S2 /\ k \in S2
      OBVIOUS
    <2> HIDE DEF S2, R
    <2>2. QED
      BY <1>2, <1>3, <1>5, <2>1, SumsRemove
  <1>8. g[S] = g[R] + (IF k \in S THEN w[k] ELSE 0)
    <2>1. g[R] \in Nat
      BY <1>1, <1>4, SumsType
    <2>2. CASE k \in S
      BY <1>1, <1>4, <2>2, SumsRemove
    <2>3. CASE k \notin S
      <3>1. R = S
        BY <2>3
      <3>2. (IF k \in S THEN w[k] ELSE 0) = 0
        BY <2>3
      <3> HIDE DEF R
      <3>3. QED
        BY <2>1, <3>1, <3>2
    <2>4. QED
      BY <2>2, <2>3
  <1>9. g[R] \in Nat /\ (IF k \in S THEN w[k] ELSE 0) \in Nat
    BY <1>1, <1>4, SumsType
  <1>10. QED
    BY <1>1, <1>4, <1>5, <1>6, <1>7, <1>8, <1>9

-----------------------------------------------------------------------------
\* The folding

FlameSpec == FlameInit /\ [][FlameNext]_flVars

\* What makes FoldedTrue inductive: until the program re-enters a function, no
\* function is on the VM's stack twice, and the profiler's stack, made honest
\* for the next instruction, is the VM's.
InStep == IsInjective(calls) /\ (calls # <<>> => Stack = calls)

FlameInv ==
    /\ calls \in Seq(Functions) /\ self \in [Functions -> Nat] /\ odd \in BOOLEAN
    /\ total = [f \in Functions |-> total[f]] /\ under = [f \in Functions |-> under[f]]
    /\ IsFiniteSet(DOMAIN folded) /\ folded \in [DOMAIN folded -> Nat]
    /\ FoldedTrue
    /\ ~odd => InStep

SumsSame == SumOf(folded, DOMAIN folded) = SumOf(self, Functions)
StacksSame == ~odd => total = under /\ folded = truth

LEMMA FoldedIs == FoldedTrue <=> SumsSame /\ StacksSame
  BY DEF FoldedTrue, Executed, SumOf, SumsSame, StacksSame

LEMMA HereOnStack ==
    ASSUME calls \in Seq(Functions), calls # <<>>
    PROVE  /\ Len(calls) \in Nat \ {0} /\ Here = calls[Len(calls)]
           /\ Here \in Functions /\ Here \in Range(calls)
  <1>1. Len(calls) \in Nat \ {0} /\ DOMAIN calls = 1 .. Len(calls)
    OBVIOUS
  <1>2. QED
    BY <1>1 DEF Here, Last, Range

\* On a stack without repetition a function is once or not at all.
LEMMA TimesOnce ==
    ASSUME NEW stack \in Seq(Functions), IsInjective(stack), NEW f \in Functions
    PROVE  Times(f, stack) = (IF f \in Range(stack) THEN 1 ELSE 0)
  <1> DEFINE at == {h \in DOMAIN stack : stack[h] = f}
  <1>1. CASE f \in Range(stack)
    <2>1. PICK h \in DOMAIN stack : stack[h] = f
      BY <1>1 DEF Range
    <2>2. at = {h}
      BY <2>1 DEF IsInjective
    <2>3. QED
      BY <1>1, <2>2, FS_Singleton DEF Times
  <1>2. CASE f \notin Range(stack)
    <2>1. at = {}
      BY <1>2 DEF Range
    <2>2. QED
      BY <1>2, <2>1, FS_EmptySet DEF Times
  <1>3. QED
    BY <1>1, <1>2

\* Counting one instruction keeps the sums, and the ghosts in step.
LEMMA CountKeeps ==
    ASSUME FlameInv, calls # <<>>, NEW real, NEW kept, Count(real, kept),
           odd' \in BOOLEAN, odd => odd'
    PROVE  /\ self' \in [Functions -> Nat]
           /\ total' = [f \in Functions |-> total'[f]] /\ under' = [f \in Functions |-> under'[f]]
           /\ IsFiniteSet(DOMAIN folded') /\ folded' \in [DOMAIN folded' -> Nat]
           /\ FoldedTrue'
  <1> DEFINE stack == Stack
             D == DOMAIN folded
  <1>1. /\ self' = [self EXCEPT ![Here] = self[Here] + 1]
        /\ total' = [f \in Functions |-> total[f] + Times(f, stack)]
        /\ folded' = Tally(folded, stack)
        /\ under' = [f \in Functions |-> under[f] + (IF f \in Range(calls) THEN 1 ELSE 0)]
        /\ truth' = Tally(truth, calls)
    BY DEF Count
  <1>2. Here \in Functions
    BY HereOnStack DEF FlameInv
  <1>3. /\ self \in [Functions -> Nat] /\ IsFiniteSet(Functions)
        /\ IsFiniteSet(D) /\ folded \in [D -> Nat]
    BY FlameAssumption DEF FlameInv
  <1> HIDE DEF stack
  <1>4. /\ DOMAIN folded' = D \cup {stack}
        /\ \A st \in D \cup {stack} :
              folded'[st] = (IF st \in D THEN folded[st] ELSE 0) + (IF st = stack THEN 1 ELSE 0)
    BY <1>1 DEF Tally
  <1> HIDE DEF D
  <1>5. self' \in [Functions -> Nat]
    BY <1>1, <1>2, <1>3
  <1>6. IsFiniteSet(DOMAIN folded') /\ folded' \in [DOMAIN folded' -> Nat]
    <2>1. IsFiniteSet(D \cup {stack})
      BY <1>3, FS_AddElement
    <2>2. folded' = [st \in D \cup {stack} |-> folded'[st]]
      BY <1>1 DEF Tally, D
    <2>3. \A st \in D \cup {stack} : folded'[st] \in Nat
      BY <1>3, <1>4
    <2>4. QED
      BY <1>4, <2>1, <2>2, <2>3
  <1>7. SumOf(folded', DOMAIN folded') = SumOf(folded, D) + 1
    <2>1. \A st \in D : folded[st] \in Nat
      BY <1>3
    <2>2. \A st \in D \ {stack} : folded'[st] = folded[st]
      BY <1>4, <2>1
    <2>3. folded'[stack] = (IF stack \in D THEN folded[stack] ELSE 0) + 1
      BY <1>4
    <2>4. Bumped(folded, folded', D, stack)
      BY <2>1, <2>2, <2>3 DEF Bumped
    <2>5. SumOf(folded', D \cup {stack}) = SumOf(folded, D) + 1
      BY <1>3, <2>4, SumGrows
    <2>6. QED
      BY <1>4, <2>5
  <1>8. SumOf(self', Functions) = SumOf(self, Functions) + 1
    <2>1. \A f \in Functions : self[f] \in Nat
      BY <1>3
    <2>2. \A f \in Functions \ {Here} : self'[f] = self[f]
      BY <1>1, <1>3
    <2>3. self'[Here] = (IF Here \in Functions THEN self[Here] ELSE 0) + 1
      BY <1>1, <1>2, <1>3
    <2>4. Bumped(self, self', Functions, Here)
      BY <2>1, <2>2, <2>3 DEF Bumped
    <2>5. SumOf(self', Functions \cup {Here}) = SumOf(self, Functions) + 1
      BY <1>3, <2>4, SumGrows
    <2>6. Functions \cup {Here} = Functions
      BY <1>2
    <2>7. QED
      BY <2>5, <2>6
  <1>9. SumOf(folded, D) = SumOf(self, Functions)
    BY FoldedIs DEF FlameInv, SumsSame, D
  <1>10. ASSUME ~odd'
         PROVE  total' = under' /\ folded' = truth'
    <2>1. ~odd
      BY <1>10
    <2>2. stack = calls /\ IsInjective(calls) /\ calls \in Seq(Functions)
      BY <2>1 DEF FlameInv, InStep, stack
    <2>3. total = under /\ folded = truth
      BY <2>1, FoldedIs DEF FlameInv, StacksSame
    <2>4. \A f \in Functions : Times(f, calls) = (IF f \in Range(calls) THEN 1 ELSE 0)
      BY <2>2, TimesOnce
    <2>5. QED
      BY <1>1, <2>2, <2>3, <2>4
  <1>11. SumsSame' /\ StacksSame'
    BY <1>7, <1>8, <1>9, <1>10 DEF SumsSame, StacksSame, D
  <1>12. FoldedTrue'
    BY <1>11, FoldedIs, PTL
  <1>13. /\ total' = [f \in Functions |-> total'[f]]
         /\ under' = [f \in Functions |-> under'[f]]
    BY <1>1
  <1>14. QED
    BY <1>5, <1>6, <1>12, <1>13

\* A stack that ends where the program is, is honest.
LEMMA HonestThere ==
    ASSUME NEW stack, stack # <<>>, NEW here, Last(stack) = here
    PROVE  Honest(stack, here) = stack
  BY DEF Honest

\* A register call into a function not on the stack is pushed at its first
\* instruction.
LEMMA HonestEntered ==
    ASSUME NEW stack \in Seq(Functions), NEW g, g \notin Range(stack)
    PROVE  Honest(stack, g) = Append(stack, g)
  <1>1. {h \in DOMAIN stack : stack[h] = g} = {}
    BY DEF Range
  <1>2. Max({0} \cup {h \in DOMAIN stack : stack[h] = g}) = 0
    <2>1. {0} \cup {h \in DOMAIN stack : stack[h] = g} = {0}
      BY <1>1
    <2>2. Max({0}) = 0
      BY DEF Max
    <2>3. QED
      BY <2>1, <2>2
  <1>3. ~(stack # <<>> /\ Last(stack) = g)
    <2>1. ASSUME stack # <<>>
          PROVE  Last(stack) \in Range(stack)
      <3>1. Len(stack) \in DOMAIN stack
        BY <2>1
      <3>2. QED
        BY <3>1 DEF Last, Range
    <2>2. QED
      BY <2>1
  <1>4. QED
    BY <1>2, <1>3 DEF Honest

LEMMA FlameInitInv == FlameInit => FlameInv
  <1> SUFFICES ASSUME FlameInit PROVE FlameInv
    OBVIOUS
  <1>1. /\ calls = <<EntryPoint>> /\ folding = <<EntryPoint>>
        /\ self = Zero /\ total = Zero /\ under = Zero /\ folded = truth
        /\ folded = [st \in {} |-> 0]
    BY DEF FlameInit
  <1>2. calls \in Seq(Functions) /\ calls # <<>> /\ Last(calls) = EntryPoint
    BY <1>1, FlameAssumption DEF Last
  <1>3. InStep
    <2>1. IsInjective(calls)
      BY <1>1 DEF IsInjective
    <2>2. Stack = calls
      BY <1>1, <1>2, HonestThere DEF Stack, Here
    <2>3. QED
      BY <2>1, <2>2 DEF InStep
  <1>4. self \in [Functions -> Nat] /\ total = [f \in Functions |-> total[f]] /\ total = under
    BY <1>1 DEF Zero
  <1>5. IsFiniteSet(DOMAIN folded) /\ folded \in [DOMAIN folded -> Nat] /\ DOMAIN folded = {}
    BY <1>1, FS_EmptySet
  <1>6. odd \in BOOLEAN
    BY DEF FlameInit
  <1>7. SumOf(folded, DOMAIN folded) = 0
    <2>1. PICK g : Sums(g, folded, {}) /\ SumOf(folded, {}) = g[{}]
      BY FS_EmptySet, SumIs
    <2>2. QED
      BY <1>5, <2>1 DEF Sums
  <1>8. SumOf(self, Functions) = 0
    <2>1. PICK g : Sums(g, self, Functions) /\ SumOf(self, Functions) = g[Functions]
      BY FlameAssumption, SumIs
    <2>2. ASSUME g[Functions] # 0
          PROVE  FALSE
      <3> DEFINE Bad == {s \in SUBSET Functions : g[s] # 0}
      <3>1. PICK s \in Bad : \A x \in s : s \ {x} \notin Bad
        <4>1. Bad \in SUBSET SUBSET Functions /\ Bad # {}
          BY <2>2
        <4> HIDE DEF Bad
        <4>2. QED
          BY <4>1, FlameAssumption, SmallestSet
      <3>2. s # {}
        <4>1. g[s] # 0
          BY <3>1
        <4>2. g[{}] = 0
          BY <2>1 DEF Sums
        <4>3. QED
          BY <4>1, <4>2
      <3>3. Pick(s) \in s
        BY <3>2 DEF Pick
      <3>4. g[s \ {Pick(s)}] = 0 /\ self[Pick(s)] = 0
        BY <1>1, <3>1, <3>3 DEF Zero
      <3>5. g[s] = g[s \ {Pick(s)}] + self[Pick(s)]
        BY <2>1, <3>1, <3>2 DEF Sums
      <3>6. QED
        BY <3>1, <3>4, <3>5
    <2>3. QED
      BY <2>1, <2>2
  <1>9. FoldedTrue
    BY <1>1, <1>4, <1>7, <1>8, FoldedIs DEF SumsSame, StacksSame
  <1>10. QED
    BY <1>2, <1>3, <1>4, <1>5, <1>9, <1>6 DEF FlameInv

\* A step that counts, and leaves the two stacks in step unless it is odd.
LEMMA StepKeeps ==
    ASSUME FlameInv, calls # <<>>, NEW real \in Seq(Functions), NEW kept, Count(real, kept),
           odd' \in BOOLEAN, odd => odd',
           ~odd' => IsInjective(real) /\ (real # <<>> => Honest(kept, Last(real)) = real)
    PROVE  FlameInv'
  <1>1. calls' = real /\ folding' = kept
    BY DEF Count
  <1>2. ~odd' => InStep'
    BY <1>1 DEF InStep, Stack, Here
  <1>3. calls' \in Seq(Functions)
    BY <1>1
  <1>4. QED
    BY <1>2, <1>3, CountKeeps DEF FlameInv

LEMMA AppendApart ==
    ASSUME calls \in Seq(Functions), IsInjective(calls), NEW g \in Functions, g \notin Range(calls)
    PROVE  IsInjective(Append(calls, g))
  <1>1. /\ Len(Append(calls, g)) = Len(calls) + 1 /\ Len(calls) \in Nat
        /\ \A i \in 1 .. Len(calls) : Append(calls, g)[i] = calls[i]
        /\ Append(calls, g)[Len(calls) + 1] = g
        /\ DOMAIN Append(calls, g) = 1 .. Len(calls) + 1 /\ DOMAIN calls = 1 .. Len(calls)
    OBVIOUS
  <1>2. \A i \in 1 .. Len(calls) : calls[i] # g
    BY <1>1 DEF Range
  <1>3. \A i, j \in 1 .. Len(calls) : calls[i] = calls[j] => i = j
    BY <1>1 DEF IsInjective
  <1> DEFINE s == Append(calls, g)
  <1> HIDE DEF s
  <1>4. ASSUME NEW i \in 1 .. Len(calls) + 1, NEW j \in 1 .. Len(calls) + 1, s[i] = s[j]
        PROVE  i = j
    <2>1. CASE i = Len(calls) + 1 \/ j = Len(calls) + 1
      BY <1>1, <1>2, <1>4, <2>1 DEF s
    <2>2. CASE i # Len(calls) + 1 /\ j # Len(calls) + 1
      <3>1. i \in 1 .. Len(calls) /\ j \in 1 .. Len(calls)
        BY <1>1, <2>2
      <3>2. s[i] = calls[i] /\ s[j] = calls[j]
        BY <1>1, <3>1 DEF s
      <3>3. QED
        BY <1>3, <1>4, <3>1, <3>2
    <2>3. QED
      BY <2>1, <2>2
  <1>5. QED
    BY <1>1, <1>4 DEF IsInjective, s

LEMMA LastAppended ==
    ASSUME calls \in Seq(Functions), NEW g \in Functions
    PROVE  /\ Append(calls, g) \in Seq(Functions) /\ Append(calls, g) # <<>>
           /\ Last(Append(calls, g)) = g
  BY DEF Last

LEMMA FrontApart ==
    ASSUME calls \in Seq(Functions), calls # <<>>
    PROVE  /\ Front(calls) \in Seq(Functions)
           /\ IsInjective(calls) => IsInjective(Front(calls))
  <1>1. Len(calls) \in Nat \ {0} /\ DOMAIN calls = 1 .. Len(calls)
    OBVIOUS
  <1>2. /\ Front(calls) \in Seq(Functions) /\ DOMAIN Front(calls) = 1 .. Len(calls) - 1
        /\ \A i \in 1 .. Len(calls) - 1 : Front(calls)[i] = calls[i]
    BY <1>1 DEF Front
  <1>3. ASSUME IsInjective(calls)
        PROVE  IsInjective(Front(calls))
    BY <1>1, <1>2, <1>3 DEF IsInjective
  <1>4. QED
    BY <1>2, <1>3

LEMMA FlameStepInv == FlameInv /\ [FlameNext]_flVars => FlameInv'
  <1> SUFFICES ASSUME FlameInv, [FlameNext]_flVars PROVE FlameInv'
    OBVIOUS
  <1>1. /\ odd \in BOOLEAN /\ calls \in Seq(Functions)
        /\ ~odd => IsInjective(calls) /\ (calls # <<>> => Stack = calls)
    BY DEF FlameInv, InStep
  <1>2. ASSUME calls # <<>>, ~odd
        PROVE  Honest(calls, Last(calls)) = calls
    BY <1>2, HonestThere
  <1>3. CASE Plain
    <2>1. calls # <<>> /\ Count(calls, Stack) /\ odd' = odd
      BY <1>3 DEF Plain
    <2>2. ~odd' => Honest(Stack, Last(calls)) = calls
      BY <1>1, <1>2, <2>1
    <2>3. QED
      BY <1>1, <2>1, <2>2, StepKeeps
  <1>4. ASSUME NEW g \in Functions, CallImm(g)
        PROVE  FlameInv'
    <2>1. calls # <<>> /\ Count(Append(calls, g), Append(Stack, g)) /\ odd' = (odd \/ g \in Range(calls))
      BY <1>1, <1>4 DEF CallImm
    <2>2. ASSUME ~odd'
          PROVE  /\ IsInjective(Append(calls, g))
                 /\ Honest(Append(Stack, g), Last(Append(calls, g))) = Append(calls, g)
      <3>1. Stack = calls /\ IsInjective(calls) /\ g \notin Range(calls)
        BY <1>1, <2>1, <2>2
      <3>2. QED
        BY <1>1, <3>1, AppendApart, LastAppended, HonestThere
    <2>3. QED
      BY <1>1, <2>1, <2>2, LastAppended, StepKeeps
  <1>5. ASSUME NEW g \in Functions, CallReg(g)
        PROVE  FlameInv'
    <2>1. calls # <<>> /\ Count(Append(calls, g), Stack) /\ odd' = (odd \/ g \in Range(calls))
      BY <1>1, <1>5 DEF CallReg
    <2>2. ASSUME ~odd'
          PROVE  /\ IsInjective(Append(calls, g))
                 /\ Honest(Stack, Last(Append(calls, g))) = Append(calls, g)
      <3>1. Stack = calls /\ IsInjective(calls) /\ g \notin Range(calls)
        BY <1>1, <2>1, <2>2
      <3>2. QED
        BY <1>1, <3>1, AppendApart, LastAppended, HonestEntered
    <2>3. QED
      BY <1>1, <2>1, <2>2, LastAppended, StepKeeps
  <1>6. CASE Exit
    <2>1. calls # <<>> /\ Count(Front(calls), Front(Stack)) /\ odd' = odd
      BY <1>6 DEF Exit
    <2>2. ASSUME ~odd'
          PROVE  /\ IsInjective(Front(calls))
                 /\ Front(calls) # <<>> => Honest(Front(Stack), Last(Front(calls))) = Front(calls)
      BY <1>1, <2>1, <2>2, FrontApart, HonestThere
    <2>3. QED
      BY <1>1, <2>1, <2>2, FrontApart, StepKeeps
  <1>7. CASE UNCHANGED flVars
    <2>1. /\ calls' = calls /\ folding' = folding /\ self' = self /\ total' = total
          /\ folded' = folded /\ under' = under /\ truth' = truth /\ odd' = odd
      BY <1>7 DEF flVars
    <2>2. SumsSame' = SumsSame /\ StacksSame' = StacksSame
      BY <2>1 DEF SumsSame, StacksSame
    <2>3. FoldedTrue'
      <3>1. SumsSame' /\ StacksSame'
        BY <2>2, FoldedIs DEF FlameInv
      <3>2. QED
        BY <3>1, FoldedIs, PTL
    <2>4. QED
      BY <2>1, <2>3 DEF FlameInv, InStep, Stack, Here
  <1>8. QED
    BY <1>3, <1>4, <1>5, <1>6, <1>7, Zenon DEF FlameNext

\* Whatever a program does, every instruction of its register trace is counted
\* once, under one stack; and until it re-enters a function that is still open,
\* the stack is the VM's and the totals count every function open at the time
\* (profile_frame).
THEOREM FoldingCorrect == FlameSpec => []FoldedTrue
  <1>1. FlameInv => FoldedTrue
    BY DEF FlameInv
  <1>2. QED
    BY <1>1, FlameInitInv, FlameStepInv, PTL DEF FlameSpec

-----------------------------------------------------------------------------
\* Names

SymbolsSpec == SymbolsInit /\ [][SymbolsNext]_syVars

\* What makes StacksNamed inductive: a function still called function_<pc> is
\* the one at that pc, so a pass that renames such names alone confuses nobody.
NamesOwn ==
    loaded # <<>> =>
        /\ label = [pc \in Pcs |-> label[pc]]
        /\ \A pc \in Pcs : label[pc].kind = "function_" => label[pc] = Anon(pc)

SymbolsInv == NamesOwn /\ StacksNamed

LEMMA KindOf ==
    \A f : Sym(f).kind # "function_" /\ Like(f).kind # "function_" /\ Anon(f).kind = "function_"
  BY DEF Sym, Like, Anon

\* A renaming that no other function of the same old name shares leaves the
\* stacks and the functions named alike.
LEMMA RenameApart ==
    ASSUME stacks = label, label = [pc \in Pcs |-> label[pc]],
           NEW new, new = [pc \in Pcs |-> new[pc]], Rename(new),
           \A p, q \in Pcs : label[p] = label[q] /\ new[q] # label[q] => p = q
    PROVE  stacks' = label'
  <1>1. ASSUME NEW p \in Pcs
        PROVE  Renamed(stacks[p], new, label) = new[p]
    <2> DEFINE at == {q \in Pcs : label[q] = label[p] /\ new[q] # label[q]}
    <2>1. Renamed(stacks[p], new, label) = IF at = {} THEN label[p] ELSE new[Max(at)]
      BY DEF Renamed
    <2>2. CASE new[p] = label[p]
      <3>1. at = {}
        BY <2>2
      <3>2. QED
        BY <2>1, <2>2, <3>1
    <2>3. CASE new[p] # label[p]
      <3>1. at = {p}
        BY <2>3
      <3>2. p \in Nat
        BY SymbolsAssumption
      <3>3. Max({p}) = p
        BY <3>2 DEF Max
      <3>4. QED
        BY <2>1, <3>1, <3>3
    <2>4. QED
      BY <2>2, <2>3
  <1>2. stacks' = [pc \in Pcs |-> new[pc]]
    BY <1>1 DEF Rename
  <1>3. QED
    BY <1>2 DEF Rename

\* A new name is nobody's function_<pc>, and an old one is kept with its bearer.
LEMMA NamesStayOwn ==
    ASSUME NamesOwn, loaded # <<>>, loaded' = loaded, NEW new, Rename(new), 
           new = [pc \in Pcs |-> new[pc]],
           \A pc \in Pcs : new[pc].kind = "function_" => new[pc] = label[pc]
    PROVE  NamesOwn'
  <1>1. label' = [pc \in Pcs |-> label'[pc]]
    BY DEF Rename
  <1>2. ASSUME NEW pc \in Pcs, label'[pc].kind = "function_"
        PROVE  label'[pc] = Anon(pc)
    BY <1>2 DEF NamesOwn, Rename
  <1>3. QED
    BY <1>1, <1>2 DEF NamesOwn

LEMMA AfterCorpus ==
    ASSUME SymbolsInv, NEW c, ByCorpus(c)
    PROVE  SymbolsInv'
  <1> DEFINE new == [pc \in Pcs |-> CorpusName(c, ShapeAt(loaded, pc), label[pc])]
  <1>1. /\ loaded # <<>> /\ loaded' = loaded /\ Rename(new) /\ merged' = merged
        /\ label = [pc \in Pcs |-> label[pc]]
        /\ \A pc \in Pcs : label[pc].kind = "function_" => label[pc] = Anon(pc)
    BY DEF SymbolsInv, NamesOwn, ByCorpus, Pass
  <1>2. ASSUME NEW pc \in Pcs
        PROVE  /\ new[pc].kind = "function_" => new[pc] = label[pc]
               /\ new[pc] # label[pc] => label[pc].kind = "function_"
    BY KindOf DEF CorpusName
  <1>3. new = [pc \in Pcs |-> new[pc]]
    OBVIOUS
  <1> HIDE DEF new
  <1>4. NamesOwn'
    BY <1>1, <1>2, <1>3, NamesStayOwn DEF SymbolsInv
  <1>5. ASSUME NEW p \in Pcs, NEW q \in Pcs, label[p] = label[q], new[q] # label[q]
        PROVE  p = q
    <2>1. label[q] = Anon(q) /\ label[p] = Anon(p)
      BY <1>1, <1>2, <1>5
    <2>2. QED
      BY <2>1, <1>5 DEF Anon
  <1>6. StacksNamed'
    <2>1. SUFFICES ASSUME ~merged PROVE stacks' = label'
      BY <1>1 DEF StacksNamed
    <2>2. stacks = label
      BY <1>1, <2>1 DEF SymbolsInv, StacksNamed
    <2>3. QED
      BY <1>1, <1>3, <1>5, <2>2, RenameApart
  <1>7. QED
    BY <1>4, <1>6 DEF SymbolsInv

LEMMA AfterAddress ==
    ASSUME SymbolsInv, NEW b, Pass, ByAddress(b)
    PROVE  SymbolsInv'
  <1> DEFINE new == ExactMap(b)
  <1>1. /\ loaded # <<>> /\ loaded' = loaded /\ Rename(new)
        /\ label = [pc \in Pcs |-> label[pc]]
        /\ merged' = (merged \/ ~IsInjective(label))
    BY DEF SymbolsInv, NamesOwn, ByAddress, Pass
  <1>2. /\ new = [pc \in Pcs |-> new[pc]]
        /\ \A pc \in Pcs : new[pc].kind # "function_"
    BY KindOf DEF ExactMap
  <1> HIDE DEF new
  <1>3. NamesOwn'
    BY <1>1, <1>2, NamesStayOwn DEF SymbolsInv
  <1>4. StacksNamed'
    <2>1. SUFFICES ASSUME ~merged, IsInjective(label) PROVE stacks' = label'
      BY <1>1 DEF StacksNamed
    <2>2. stacks = label
      BY <1>1, <2>1 DEF SymbolsInv, StacksNamed
    <2>3. \A p, q \in Pcs : label[p] = label[q] => p = q
      BY <1>1, <2>1 DEF IsInjective
    <2>4. QED
      BY <1>1, <1>2, <2>2, <2>3, RenameApart
  <1>5. QED
    BY <1>3, <1>4 DEF SymbolsInv

LEMMA AfterShape ==
    ASSUME SymbolsInv, NEW b, NEW sh, NEW near \in BOOLEAN, Pass, ByShape(b, sh, near)
    PROVE  SymbolsInv'
  <1> DEFINE new == [pc \in Pcs |-> ShapeName(b, sh, near, pc)]
  <1>1. /\ loaded # <<>> /\ loaded' = loaded /\ Rename(new)
        /\ label = [pc \in Pcs |-> label[pc]]
        /\ \A pc \in Pcs : label[pc].kind = "function_" => label[pc] = Anon(pc)
        /\ merged' = (merged \/ \E p, q \in Entered : p # q)
    BY DEF SymbolsInv, NamesOwn, ByShape, Pass
  <1>2. ASSUME NEW pc \in Pcs
        PROVE  /\ new[pc].kind = "function_" => new[pc] = label[pc]
               /\ new[pc] # label[pc] => label[pc].kind = "function_" \/ label[pc] = EntryName
    BY KindOf DEF ShapeName
  <1>3. new = [pc \in Pcs |-> new[pc]]
    OBVIOUS
  <1> HIDE DEF new
  <1>4. NamesOwn'
    BY <1>1, <1>2, <1>3, NamesStayOwn DEF SymbolsInv
  <1>5. StacksNamed'
    <2>1. SUFFICES ASSUME ~merged, \A p, q \in Entered : p = q PROVE stacks' = label'
      BY <1>1 DEF StacksNamed
    <2>2. stacks = label
      BY <1>1, <2>1 DEF SymbolsInv, StacksNamed
    <2>3. ASSUME NEW p \in Pcs, NEW q \in Pcs, label[p] = label[q], new[q] # label[q]
          PROVE  p = q
      <3>1. CASE label[q] = EntryName
        BY <2>1, <2>3, <3>1 DEF Entered
      <3>2. CASE label[q].kind = "function_"
        <4>1. label[q] = Anon(q) /\ label[p] = Anon(p)
          BY <1>1, <2>3, <3>2
        <4>2. QED
          BY <4>1, <2>3 DEF Anon
      <3>3. QED
        BY <1>2, <2>3, <3>1, <3>2
    <2>4. QED
      BY <1>1, <1>3, <2>2, <2>3, RenameApart
  <1>6. QED
    BY <1>4, <1>5 DEF SymbolsInv

LEMMA AfterProfiled ==
    ASSUME NEW b, NEW sh, NEW exact \in BOOLEAN, NEW c, Profiled(b, sh, exact, c)
    PROVE  SymbolsInv'
  <1> DEFINE first(pc) == IF exact THEN ExactMap(b)[pc] ELSE IF pc = Entry THEN EntryName ELSE Anon(pc)
  <1>1. /\ label' = [pc \in Pcs |-> CorpusName(c, sh[b[pc]], first(pc))]
        /\ stacks' = label'
    BY DEF Profiled
  <1>2. ASSUME NEW pc \in Pcs, first(pc).kind = "function_"
        PROVE  first(pc) = Anon(pc)
    BY <1>2, KindOf DEF ExactMap, EntryName
  <1> HIDE DEF first
  <1>3. ASSUME NEW pc \in Pcs, label'[pc].kind = "function_"
        PROVE  label'[pc] = Anon(pc)
    <2>1. CorpusName(c, sh[b[pc]], first(pc)).kind = "function_"
      BY <1>1, <1>3
    <2>2. CorpusName(c, sh[b[pc]], first(pc)) = first(pc)
      BY <2>1, KindOf DEF CorpusName
    <2>3. QED
      BY <1>1, <1>2, <2>1, <2>2
  <1>4. label' = [pc \in Pcs |-> label'[pc]]
    BY <1>1
  <1>5. NamesOwn'
    BY <1>3, <1>4 DEF NamesOwn
  <1>6. QED
    BY <1>1, <1>5 DEF SymbolsInv, StacksNamed

LEMMA SymbolsInitInv == SymbolsInit => SymbolsInv
  BY DEF SymbolsInit, SymbolsInv, NamesOwn, StacksNamed

LEMMA SymbolsStepInv == SymbolsInv /\ [SymbolsNext]_syVars => SymbolsInv'
  <1> SUFFICES ASSUME SymbolsInv, [SymbolsNext]_syVars PROVE SymbolsInv'
    OBVIOUS
  <1>1. ASSUME NEW b \in Layouts, NEW sh \in ShapeMaps, NEW exact \in BOOLEAN, NEW c \in Corpora,
               Profiled(b, sh, exact, c)
        PROVE  SymbolsInv'
    BY <1>1, AfterProfiled
  <1>2. ASSUME NEW c \in Corpora, ByCorpus(c)
        PROVE  SymbolsInv'
    BY <1>2, AfterCorpus
  <1>3. ASSUME NEW b \in Layouts, Symbolize(b)
        PROVE  SymbolsInv'
    BY <1>3, AfterAddress DEF Symbolize
  <1>4. ASSUME NEW b \in Layouts, NEW sh \in ShapeMaps, NEW near \in BOOLEAN, FromBuild(b, sh, near)
        PROVE  SymbolsInv'
    <2>1. Pass /\ (ByAddress(b) \/ ByShape(b, sh, near))
      BY <1>4 DEF FromBuild
    <2>2. QED
      BY <2>1, AfterAddress, AfterShape
  <1>5. CASE UNCHANGED syVars
    BY <1>5 DEF syVars, SymbolsInv, NamesOwn, StacksNamed
  <1>6. QED
    BY <1>1, <1>2, <1>3, <1>4, <1>5 DEF SymbolsNext

\* However many passes name a program, in whatever order and from whatever
\* corpora, builds and symbol files, its folded stacks and its functions bear
\* the same names, until a pass meets two functions of one name it may change
\* (symbolize_map, symbolize_from_build, symbolize_from_corpus).
THEOREM NamesCorrect == SymbolsSpec => []StacksNamed
  <1>1. SymbolsInv => StacksNamed
    BY DEF SymbolsInv
  <1>2. QED
    BY <1>1, SymbolsInitInv, SymbolsStepInv, PTL DEF SymbolsSpec
=============================================================================
