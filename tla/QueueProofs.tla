----------------------------- MODULE QueueProofs -----------------------------
(*****************************************************************************)
(* The release queue, for every gap, every retention and any number of       *)
(* processes: the types, that the coverage a store claims is backed by the   *)
(* polls it knows of, whichever packs it could import, and that no polled    *)
(* version is skipped by a push.                                             *)
(* And the searches of the stream, for every past and every window: what is  *)
(* found is the last change, and nothing that changed is missed.             *)
(*****************************************************************************)
EXTENDS RecordQueue, HistoryStream, WellFoundedInduction, TLAPS

-----------------------------------------------------------------------------
\* Smallest and largest of a set of slots.

LEMMA SmallestSlot ==
    ASSUME NEW T \in SUBSET Nat, T # {}
    PROVE  \E i \in T : \A j \in T : i <= j
  <1> DEFINE R == {ss \in Nat \X Nat : ss[1] < ss[2]}
  <1>1. R = OpToRel(<, Nat)
    BY Zenon DEF OpToRel
  <1>2. IsWellFoundedOn(R, Nat)
    BY <1>1, NatLessThanWellFounded, Zenon
  <1>3. \E x \in T : \A y \in T : <<y, x>> \notin R
    <2> HIDE DEF R
    <2>1. T \subseteq Nat
      OBVIOUS
    <2>2. QED
      BY <1>2, <2>1, WFMin, Zenon
  <1>4. PICK i \in T : \A j \in T : <<j, i>> \notin R
    BY <1>3
  <1>5. \A j \in T : i <= j
    <2>1. TAKE j \in T
    <2>2. i \in Nat /\ j \in Nat
      OBVIOUS
    <2>3. <<j, i>> \notin R
      BY <1>4
    <2>4. ~(j < i)
      BY <2>2, <2>3
    <2>5. QED
      BY <2>2, <2>4
  <1>6. QED
    BY <1>5

LEMMA LargestSlot ==
    ASSUME NEW n \in Nat, NEW T \in SUBSET (0 .. n), T # {}
    PROVE  Max(T) \in T /\ \A j \in T : j <= Max(T)
  <1> DEFINE D == {d \in Nat : n - d \in T}
  <1>1. D # {}
    <2>1. PICK x \in T : TRUE
      OBVIOUS
    <2>2. n - x \in Nat /\ n - (n - x) = x
      OBVIOUS
    <2>3. QED
      BY <2>1, <2>2
  <1>2. PICK d \in D : \A e \in D : d <= e
    <2> HIDE DEF D
    <2>1. D \in SUBSET Nat
      BY DEF D
    <2>2. QED
      BY <1>1, <2>1, SmallestSlot
  <1>3. \A j \in T : n - d >= j
    <2>1. TAKE j \in T
    <2>2. n - j \in Nat /\ n - (n - j) = j
      OBVIOUS
    <2>3. d <= n - j
      BY <1>2, <2>2
    <2>4. QED
      BY <2>2, <2>3
  <1>4. \E x \in T : \A y \in T : x >= y
    BY <1>3
  <1>5. Max(T) \in T /\ \A y \in T : Max(T) >= y
    BY <1>4 DEF Max
  <1>6. QED
    BY <1>5

-----------------------------------------------------------------------------
\* Ranges and the polls behind them.

\* The range begins with a poll, or right after a cut, ends in a poll, and
\* in between no two are further apart than MaxGap.
Backed(P, g) ==
    /\ g.first <= g.last
    /\ g.first \in P \/ g.first - 1 \in P
    /\ g.last \in P
    /\ \A f \in g.first .. g.last :
          \E q \in P : f <= q /\ q <= f + MaxGap /\ q <= g.last

\* The ranges lie more than MaxGap apart.
Apart(ranges) ==
    \A g, h \in ranges : g = h \/ g.last + MaxGap < h.first
                               \/ h.last + MaxGap < g.first

\* More polls back what fewer did.
LEMMA BackedByMore ==
    ASSUME NEW P, NEW Q, P \subseteq Q, NEW g, Backed(P, g)
    PROVE  Backed(Q, g)
  BY DEF Backed

\* A backed range is backed from MaxGap slots before it on.
LEMMA BackedBefore ==
    ASSUME NEW P \in SUBSET Nat, NEW g \in Ranges(Nat), Backed(P, g),
           NEW f \in Nat, g.first <= f + MaxGap, f <= g.last
    PROVE  \E q \in P : f <= q /\ q <= f + MaxGap /\ q <= g.last
  <1> USE CoverageAssumption
  <1>1. g.first \in Nat /\ g.last \in Nat
    BY DEF Ranges
  <1>2. CASE g.first <= f
    BY <1>1, <1>2 DEF Backed
  <1>3. CASE f < g.first /\ g.first \in P
    BY <1>1, <1>3 DEF Backed
  <1>4. CASE f < g.first /\ g.first - 1 \in P
    <2>1. f <= g.first - 1 /\ g.first - 1 <= f + MaxGap /\ g.first - 1 <= g.last
      BY <1>1, <1>4 DEF Backed
    <2>2. QED
      BY <1>4, <2>1
  <1>5. QED
    BY <1>1, <1>2, <1>3, <1>4 DEF Backed

\* Coalescing joins ranges that lie apart, within the slots they came from.
\* What merge_coverage leaves is backed by the polls behind what it was given.
LEMMA MergedBacked ==
    ASSUME NEW n \in Nat, NEW S \in SUBSET Ranges(1 .. n), NEW P \in SUBSET Nat,
           \A g \in S : Backed(P, g)
    PROVE  /\ MergedRanges(S) \subseteq Ranges(1 .. n)
           /\ Apart(MergedRanges(S))
           /\ \A g \in MergedRanges(S) : Backed(P, g)
  <1> USE CoverageAssumption
  <1> DEFINE Opens(a) == \A g \in S : g.first < a => g.last + MaxGap < a
             starts == {g.first : g \in {h \in S : Opens(h.first)}}
             In(g, a) == a <= g.first /\ \A b \in starts : b <= a \/ g.first < b
             Ends(a) == {g.last : g \in {h \in S : In(h, a)}}
             Joined(a) == [first |-> a, last |-> Max(Ends(a))]
  <1>1. MergedRanges(S) = {Joined(a) : a \in starts}
    BY DEF MergedRanges
  <1>2. \A g \in S : g.first \in 1 .. n /\ g.last \in 1 .. n /\ g \in Ranges(Nat)
    BY DEF Ranges
  <1>3. \A a \in starts : /\ a \in 1 .. n
                          /\ \E g \in S : g.first = a /\ In(g, a)
                          /\ \A g \in S : g.first < a => g.last + MaxGap < a
    BY <1>2
  <1>4. \A a \in starts : /\ Max(Ends(a)) \in Ends(a)
                          /\ \A e \in Ends(a) : e <= Max(Ends(a))
                          /\ Ends(a) \subseteq 1 .. n
    <2>1. TAKE a \in starts
    <2>2. Ends(a) \subseteq 1 .. n /\ Ends(a) # {}
      BY <1>2, <1>3
    <2> HIDE DEF Ends, starts
    <2>3. Ends(a) \in SUBSET (0 .. n)
      BY <2>2
    <2>4. QED
      BY <2>2, <2>3, LargestSlot
  <1>5. \A a \in starts : Joined(a) \in Ranges(1 .. n)
    <2>1. TAKE a \in starts
    <2>2. a \in 1 .. n /\ Max(Ends(a)) \in 1 .. n
      <3> HIDE DEF Ends, starts
      <3> QED
        BY <1>3, <1>4
    <2> HIDE DEF Ends, starts
    <2>3. QED
      BY <2>2 DEF Ranges
  \* The range a group ends with, seen from the group.
  <1>6. \A a \in starts : \E k \in S : In(k, a) /\ k.last = Max(Ends(a))
    BY <1>4
  <1>7. \A a, b \in starts : a < b => Max(Ends(a)) + MaxGap < b
    <2>1. SUFFICES ASSUME NEW a \in starts, NEW b \in starts, a < b
                   PROVE  Max(Ends(a)) + MaxGap < b
      OBVIOUS
    <2>2. PICK k \in S : In(k, a) /\ k.last = Max(Ends(a))
      BY <1>6
    <2>3. k.first < b
      <3>1. \A c \in starts : c <= a \/ k.first < c
        BY <2>2
      <3>2. a \in Nat /\ b \in Nat
        <4> HIDE DEF starts
        <4> QED
          BY <1>3
      <3> HIDE DEF starts
      <3> QED
        BY <2>1, <3>1, <3>2
    <2>4. k.last + MaxGap < b
      <3> HIDE DEF starts
      <3> QED
        BY <1>3, <2>3
    <2>5. QED
      BY <2>2, <2>4
  <1>8. Apart(MergedRanges(S))
    <2>1. SUFFICES ASSUME NEW a \in starts, NEW b \in starts
                   PROVE  \/ Joined(a) = Joined(b)
                          \/ Joined(a).last + MaxGap < Joined(b).first
                          \/ Joined(b).last + MaxGap < Joined(a).first
      <3> HIDE DEF starts, Joined
      <3> QED
        BY <1>1 DEF Apart
    <2> HIDE DEF starts, Ends
    <2>2. a \in Nat /\ b \in Nat
      BY <1>3
    <2>3. CASE a = b
      BY <2>3
    <2>4. CASE a < b
      BY <1>7, <2>4
    <2>5. CASE b < a
      BY <1>7, <2>5
    <2>6. QED
      BY <2>2, <2>3, <2>4, <2>5
  <1>9. \A a \in starts : Backed(P, Joined(a))
    <2>1. TAKE a \in starts
    <2>2. PICK top : top = Max(Ends(a))
      OBVIOUS
    <2>3. PICK t \in S : In(t, a) /\ t.last = top
      BY <1>6, <2>2
    <2>4. PICK s \in S : s.first = a /\ In(s, a)
      BY <1>3
    <2>5. \A g \in S : In(g, a) => g.last <= top
      BY <1>4, <2>2
    <2>6. top \in Nat /\ a \in Nat /\ top \in P /\ (a \in P \/ a - 1 \in P)
      <3> HIDE DEF starts, In
      <3> QED
        BY <1>2, <2>3, <2>4 DEF Backed
    <2>7. a <= top
      <3>1. s.last <= top /\ s.first <= s.last
        <4> HIDE DEF In
        <4> QED
          BY <2>4, <2>5 DEF Backed
      <3> HIDE DEF starts, In
      <3> QED
        BY <1>2, <2>4, <2>6, <3>1
    <2>8. ASSUME NEW f \in a .. top
          PROVE  \E q \in P : f <= q /\ q <= f + MaxGap /\ q <= top
      <3> f \in Nat
        BY <2>6
      <3>1. CASE t.first <= f + MaxGap
        <4>1. t \in Ranges(Nat) /\ Backed(P, t) /\ f <= t.last
          <5> HIDE DEF starts, In
          <5> QED
            BY <1>2, <2>3, <2>6
        <4>2. \E q \in P : f <= q /\ q <= f + MaxGap /\ q <= t.last
          BY <3>1, <4>1, BackedBefore
        <4> HIDE DEF In
        <4> QED
          BY <4>2, <2>3
      <3>2. CASE ~(t.first <= f + MaxGap)
        <4> DEFINE Far == {g.first : g \in {h \in S : In(h, a) /\ f + MaxGap < h.first}}
        <4>1. Far \in SUBSET Nat /\ Far # {}
          <5>1. \A g \in S : g.first \in Nat
            BY <1>2
          <5>2. f + MaxGap < t.first
            BY <5>1, <3>2
          <5> HIDE DEF In
          <5> QED
            BY <5>1, <5>2, <2>3
        <4>2. PICK x \in Far : \A y \in Far : x <= y
          <5> HIDE DEF Far
          <5> QED
            BY <4>1, SmallestSlot
        <4>3. PICK k \in S : In(k, a) /\ f + MaxGap < k.first /\ k.first = x
          BY <4>2
        <4>4. a < k.first
          BY <1>2, <2>6, <4>3
        <4>5. k.first \notin starts
          BY <1>2, <2>6, <4>3, <4>4
        <4>6. PICK g \in S : g.first < k.first /\ k.first <= g.last + MaxGap
          <5>1. ~Opens(k.first)
            BY <4>5
          <5>2. PICK g \in S : g.first < k.first /\ ~(g.last + MaxGap < k.first)
            BY <5>1
          <5>3. g.last \in Nat /\ k.first \in Nat
            BY <1>2
          <5> QED
            BY <5>2, <5>3
        <4>7. a <= g.first
          <5>1. g.first < a => g.last + MaxGap < a
            <6> HIDE DEF starts
            <6> QED
              BY <1>3
          <5>2. QED
            BY <5>1, <4>4, <4>6, <1>2, <2>6
        <4>8. \A b \in starts : b <= a \/ g.first < b
          <5>1. \A b \in starts : b <= a \/ k.first < b
            BY <4>3
          <5>2. \A b \in starts : b \in Nat
            <6> HIDE DEF starts
            <6> QED
              BY <1>3
          <5> HIDE DEF starts
          <5>3. QED
            BY <5>1, <5>2, <4>6, <1>2, <2>6
        <4>9. In(g, a)
          BY <4>7, <4>8
        <4>10. g.first <= f + MaxGap
          <5>1. CASE f + MaxGap < g.first
            <6>1. g.first \in Far
              BY <5>1, <4>9
            <6>2. x <= g.first
              <7> HIDE DEF Far
              <7> QED
                BY <6>1, <4>2
            <6>3. QED
              BY <6>2, <4>3, <4>6, <1>2
          <5>2. QED
            BY <5>1, <1>2
        <4>11. f <= g.last /\ g.last <= top
          <5>1. g.last <= top
            BY <4>9, <2>5
          <5>2. g.last \in Nat /\ k.first \in Nat
            BY <1>2
          <5>3. f <= g.last
            <6> HIDE DEF In
            <6> QED
              BY <5>2, <4>3, <4>6
          <5> QED
            BY <5>1, <5>3
        <4>12. PICK q \in P : f <= q /\ q <= f + MaxGap /\ q <= g.last
          BY <4>10, <4>11, <1>2, BackedBefore
        <4>13. q <= top
          BY <4>11, <4>12, <1>2, <2>6
        <4>14. QED
          BY <4>12, <4>13
      <3>3. QED
        BY <3>1, <3>2
    <2> HIDE DEF starts, Ends
    <2>9. Joined(a) = [first |-> a, last |-> top]
      BY <2>2
    <2>10. QED
      BY <2>6, <2>7, <2>8, <2>9 DEF Backed
  <1>10. QED
    <2> HIDE DEF starts, Joined
    <2> QED
      BY <1>1, <1>5, <1>8, <1>9

\* A round extends the newest range over a short gap, or opens one beyond it.
LEMMA NotedBacked ==
    ASSUME NEW n \in Nat, NEW G \in SUBSET Ranges(1 .. n), NEW P \in SUBSET Nat,
           Apart(G), \A g \in G : Backed(P, g), NEW r \in 1 .. n
    PROVE  /\ NotedRanges(G, r) \subseteq Ranges(1 .. n)
           /\ Apart(NotedRanges(G, r))
           /\ \A g \in NotedRanges(G, r) : Backed(P \cup {r}, g)
  <1> USE CoverageAssumption
  <1>1. \A g \in G : /\ g.first \in 1 .. n /\ g.last \in 1 .. n /\ g.first <= g.last
                     /\ g = [first |-> g.first, last |-> g.last]
    BY DEF Ranges, Backed
  <1>2. \A g \in G : Backed(P \cup {r}, g)
    BY BackedByMore
  <1>3. CASE \E g \in G : g.last >= r
    BY <1>2, <1>3 DEF NotedRanges
  <1>4. CASE ~ \E g \in G : g.last >= r
    <2> DEFINE near == {g \in G : IsNewest(g, G) /\ r - g.last <= MaxGap}
               alone == [first |-> r, last |-> r]
    <2>1. \A g \in G : g.last < r
      BY <1>1, <1>4
    <2>2. CASE near = {}
      <3>1. NotedRanges(G, r) = G \cup {alone}
        BY <1>4, <2>2 DEF NotedRanges
      <3>2. ASSUME NEW h \in G
            PROVE  h.last + MaxGap < r
        <4> DEFINE L == {g.last : g \in G}
        <4>1. L \in SUBSET (0 .. n) /\ L # {}
          BY <1>1
        <4>2. Max(L) \in L /\ \A e \in L : e <= Max(L)
          <5> HIDE DEF L
          <5> QED
            BY <4>1, LargestSlot
        <4>3. PICK g \in G : g.last = Max(L)
          BY <4>2
        <4>4. IsNewest(g, G)
          BY <4>2, <4>3 DEF IsNewest
        <4>5. ~(r - g.last <= MaxGap)
          BY <2>2, <4>4
        <4>6. h.last <= g.last
          BY <4>4 DEF IsNewest
        <4>7. QED
          BY <1>1, <4>5, <4>6
      <3>3. Backed(P \cup {r}, alone)
        BY DEF Backed
      <3>4. alone \in Ranges(1 .. n)
        BY DEF Ranges
      <3>5. Apart(G \cup {alone})
        BY <3>2 DEF Apart
      <3>6. QED
        BY <1>2, <3>1, <3>3, <3>4, <3>5
    <2>3. CASE near # {}
      <3>1. PICK g \in G : IsNewest(g, G) /\ r - g.last <= MaxGap
        BY <2>3
      <3> DEFINE grown == [g EXCEPT !.last = r]
      <3>2. grown = [first |-> g.first, last |-> r]
        BY <1>1
      <3>3. \A h \in G : h # g => h.last + MaxGap < g.first
        <4>1. SUFFICES ASSUME NEW h \in G, h # g
                       PROVE  h.last + MaxGap < g.first
          OBVIOUS
        <4>2. h.last <= g.last
          BY <3>1 DEF IsNewest
        <4>3. \/ g.last + MaxGap < h.first
              \/ h.last + MaxGap < g.first
          BY <4>1 DEF Apart
        <4>4. QED
          BY <1>1, <4>2, <4>3
      <3>4. near = {g}
        <4>1. \A h \in G : IsNewest(h, G) => h = g
          <5>1. SUFFICES ASSUME NEW h \in G, IsNewest(h, G), h # g
                         PROVE  FALSE
            OBVIOUS
          <5>2. g.last <= h.last /\ h.last + MaxGap < g.first
            BY <3>3, <5>1 DEF IsNewest
          <5>3. QED
            BY <1>1, <5>2
        <4>2. QED
          BY <3>1, <4>1
      <3>5. NotedRanges(G, r) = (G \ {g}) \cup {grown}
        <4>1. {[h EXCEPT !.last = r] : h \in near} = {grown}
          BY <3>4
        <4> HIDE DEF grown
        <4>2. QED
          BY <1>4, <2>3, <3>4, <4>1 DEF NotedRanges
      <3>6. grown \in Ranges(1 .. n)
        BY <1>1, <3>2 DEF Ranges
      <3>7. Backed(P \cup {r}, grown)
        <4>1. \/ g.first \in P
              \/ g.first - 1 \in P
          BY DEF Backed
        <4>2. ASSUME NEW f \in g.first .. r
              PROVE  \E q \in P \cup {r} : f <= q /\ q <= f + MaxGap /\ q <= r
          <5>1. CASE f <= g.last
            <6>1. PICK q \in P : f <= q /\ q <= f + MaxGap /\ q <= g.last
              BY <1>1, <5>1 DEF Backed
            <6>2. q <= r
              BY <1>1, <2>1, <6>1
            <6>3. QED
              BY <6>1, <6>2
          <5>2. CASE ~(f <= g.last)
            <6>1. r <= f + MaxGap
              BY <1>1, <3>1, <5>2
            <6>2. QED
              BY <1>1, <6>1
          <5>3. QED
            BY <5>1, <5>2
        <4>3. g.first <= r
          BY <1>1, <2>1
        <4>4. QED
          <5> HIDE DEF grown
          <5> QED
            BY <3>2, <4>1, <4>2, <4>3 DEF Backed
      <3>8. Apart((G \ {g}) \cup {grown})
        <4>1. grown.first = g.first /\ grown.last = r
          BY <3>2
        <4> HIDE DEF grown
        <4>2. QED
          BY <3>3, <4>1 DEF Apart
      <3>9. QED
        <4> HIDE DEF grown, near
        <4> QED
          BY <1>2, <3>5, <3>6, <3>7, <3>8
    <2>4. QED
      BY <2>2, <2>3
  <1>5. QED
    BY <1>3, <1>4

\* A pack's ranges are backed by its own polls and its cut: what is clipped
\* begins right after the cut.
LEMMA ExportBacked ==
    ASSUME NEW n \in Nat, cov \in SUBSET Ranges(1 .. n), ver \in SUBSET (1 .. n),
           looked \in SUBSET (1 .. n), \A g \in cov : Backed(looked, g),
           NEW since \in Nat
    PROVE  /\ Export(since) \in [vers : SUBSET (1 .. n), cov : SUBSET Ranges(1 .. n),
                                 polls : SUBSET (1 .. n)]
           /\ \A g \in Export(since).cov : Backed(Export(since).polls, g)
  <1> USE CoverageAssumption
  <1> DEFINE ranges == ClippedRanges(cov, since)
             cut == {s \in {since} \ {0} : \E g \in ranges : g.first = s + 1}
             polls == {s \in looked : s > since} \cup cut
             vers == {s \in ver : s > since}
  <1>1. Export(since) = [vers |-> vers, cov |-> ranges, polls |-> polls]
    BY DEF Export
  <1>2. ASSUME NEW g \in ranges
        PROVE  /\ g \in Ranges(1 .. n)
               /\ g.first > since
               /\ \E h \in cov : /\ g.last = h.last /\ h.last > since
                                 /\ h.first <= g.first
                                 /\ g.first = h.first \/ (g.first = since + 1 /\ since # 0)
    <2>1. PICK h \in cov : /\ h.last > since
                           /\ g = [h EXCEPT !.first = IF @ > since THEN @ ELSE since + 1]
      BY DEF ClippedRanges
    <2>2. h.first \in 1 .. n /\ h.last \in 1 .. n /\ h = [first |-> h.first, last |-> h.last]
      BY DEF Ranges
    <2>3. g = [first |-> IF h.first > since THEN h.first ELSE since + 1, last |-> h.last]
      BY <2>1, <2>2
    <2>4. CASE h.first > since
      <3>1. g = h
        BY <2>2, <2>3, <2>4
      <3>2. QED
        BY <2>1, <2>2, <2>4, <3>1
    <2>5. CASE ~(h.first > since)
      <3>1. g = [first |-> since + 1, last |-> h.last]
        BY <2>3, <2>5
      <3>2. /\ since + 1 \in 1 .. n /\ since # 0 /\ h.first <= since + 1
            /\ h.last > since
        BY <2>1, <2>2, <2>5
      <3>3. g \in Ranges(1 .. n) /\ g.first > since
        BY <2>2, <3>1, <3>2 DEF Ranges
      <3>4. g.last = h.last /\ g.first = since + 1
        BY <3>1
      <3>5. QED
        BY <3>2, <3>3, <3>4
    <2>6. QED
      BY <2>4, <2>5
  <1>3. cut \subseteq 1 .. n
    <2>1. SUFFICES ASSUME NEW g \in ranges, since # 0, g.first = since + 1
                   PROVE  since \in 1 .. n
      <3> HIDE DEF ranges
      <3> QED
        OBVIOUS
    <2>2. g.first \in 1 .. n
      BY <1>2 DEF Ranges
    <2>3. QED
      BY <2>1, <2>2
  <1>4. ASSUME NEW g \in ranges
        PROVE  Backed(polls, g)
    <2>1. PICK h \in cov : /\ g.last = h.last /\ h.last > since
                           /\ h.first <= g.first
                           /\ g.first = h.first \/ (g.first = since + 1 /\ since # 0)
      BY <1>2
    <2>2. /\ g.first \in 1 .. n /\ g.last \in 1 .. n /\ g.first > since
          /\ h.first \in 1 .. n
      <3>1. g \in Ranges(1 .. n) /\ h \in Ranges(1 .. n) /\ g.first > since
        BY <1>2
      <3> HIDE DEF ranges
      <3>2. QED
        BY <3>1 DEF Ranges
    <2> HIDE DEF ranges
    <2>3. Backed(looked, h)
      OBVIOUS
    <2>4. \A q \in looked : q > since => q \in polls
      OBVIOUS
    <2>5. g.first - 1 = since /\ since # 0 => since \in polls
      BY <2>2
    <2>6. g.first \in polls \/ g.first - 1 \in polls
      <3> HIDE DEF polls
      <3>1. CASE g.first = since + 1 /\ since # 0
        BY <2>5, <3>1
      <3>2. CASE g.first = h.first /\ h.first \in looked
        BY <2>2, <2>4, <3>2
      <3>3. CASE g.first = h.first /\ h.first - 1 \in looked
        <4>1. g.first - 1 \in looked /\ g.first - 1 # 0
          BY <3>3
        <4>2. CASE g.first - 1 = since
          BY <2>5, <4>1, <4>2
        <4>3. CASE g.first - 1 # since
          BY <2>2, <2>4, <4>1, <4>3
        <4>4. QED
          BY <4>2, <4>3
      <3>4. QED
        BY <2>1, <2>3, <3>1, <3>2, <3>3 DEF Backed
    <2>7. g.first <= g.last
      <3>1. \/ g.first = h.first
            \/ g.first = since + 1
        BY <2>1
      <3>2. QED
        BY <1>2, <2>1, <2>2, <2>3, <3>1 DEF Backed
    <2>8. g.last \in polls
      BY <2>1, <2>2, <2>3, <2>4, <2>7 DEF Backed
    <2>9. ASSUME NEW f \in g.first .. g.last
          PROVE  \E q \in polls : f <= q /\ q <= f + MaxGap /\ q <= g.last
      <3>1. f \in h.first .. h.last
        BY <2>1, <2>2
      <3>2. PICK q \in looked : f <= q /\ q <= f + MaxGap /\ q <= h.last
        BY <2>3, <3>1 DEF Backed
      <3>3. q > since
        BY <2>2, <3>2
      <3>4. q \in polls
        BY <2>4, <3>3
      <3> HIDE DEF polls
      <3>5. QED
        BY <2>1, <3>2, <3>4
    <2>10. QED
      <3> HIDE DEF polls
      <3> QED
        BY <2>6, <2>7, <2>8, <2>9 DEF Backed
  <1>5. vers \subseteq 1 .. n /\ polls \subseteq 1 .. n
    <2> HIDE DEF cut
    <2> QED
      BY <1>3
  <1>6. ranges \subseteq Ranges(1 .. n)
    BY <1>2
  <1>7. QED
    <2> HIDE DEF ranges, polls, vers
    <2> QED
      BY <1>1, <1>4, <1>5, <1>6

-----------------------------------------------------------------------------
\* The inductive invariant: what the disk and every pack of the queue claim
\* to cover is backed by the polls they came with.

PacksPast ==
    \A m \in Assets : queue[m] \in [vers : SUBSET (1 .. now), cov : SUBSET Ranges(1 .. now),
                                    polls : SUBSET (1 .. now)]

CoverageHeld == \A g \in cov : Backed(looked, g)

PacksBacked == \A m \in Assets : \A g \in queue[m].cov : Backed(queue[m].polls, g)

QueueInv == TypeOK /\ PacksPast /\ CoverageHeld /\ PacksBacked

Recs == [pc : {"restore", "poll", "check", "push", "tidy", "stopped"},
         since : Slot, hour : Nat, stop : BOOLEAN, seen : Nat,
         tip : Slot, failed : BOOLEAN]

LEMMA RecOf ==
    ASSUME rec \in Recs
    PROVE  /\ rec.since \in Slot /\ rec.hour \in Nat /\ rec.stop \in BOOLEAN
           /\ rec.seen \in Nat /\ rec.tip \in Slot /\ rec.failed \in BOOLEAN
           /\ rec = [pc |-> rec.pc, since |-> rec.since, hour |-> rec.hour,
                     stop |-> rec.stop, seen |-> rec.seen, tip |-> rec.tip,
                     failed |-> rec.failed]
           /\ rec.pc \in {"restore", "poll", "check", "push", "tidy", "stopped"}
  BY DEF Recs

\* Its fields at the end of the loop.
LEMMA RecLooped ==
    ASSUME NEW r \in Recs
    PROVE  /\ NextLoop(r) \in Recs
           /\ NextLoop(r).pc = IF r.stop THEN "stopped" ELSE "poll"
           /\ NextLoop(r).tip = 0 /\ NextLoop(r).since = r.since /\ NextLoop(r).failed = r.failed
  <1>1. 0 \in Slot
    BY QueueAssumption DEF Slot
  <1>2. QED
    BY <1>1 DEF Recs, NextLoop

LEMMA HourInNat == ASSUME NEW m \in Minute PROVE Hour(m) \in Nat
  BY QueueAssumption DEF Hour, Minute

\* The parts that name the disk and the queue survive a step that leaves both
\* alone and lets the chain go on.
LEMMA QueueStays ==
    ASSUME QueueInv, UNCHANGED <<ver, cov, queue, looked, mine, restarts>>,
           now' \in Slot, now' >= now, minute' \in Minute, rec' \in Recs,
           stopping' \in BOOLEAN
    PROVE  QueueInv'
  <1> USE QueueAssumption DEF QueueInv
  <1>1. now \in Nat /\ now' \in Nat /\ 1 .. now \subseteq 1 .. now'
    BY DEF TypeOK, Slot
  <1>2. Ranges(1 .. now) \subseteq Ranges(1 .. now')
    BY <1>1 DEF Ranges
  <1>3. TypeOK'
    BY <1>1, <1>2 DEF TypeOK, Recs
  <1>4. PacksPast'
    BY <1>1, <1>2 DEF PacksPast, Assets
  <1>5. CoverageHeld' /\ PacksBacked'
    BY DEF CoverageHeld, PacksBacked, Assets
  <1>6. QED
    BY <1>3, <1>4, <1>5

LEMMA QueueInitInv == Init => QueueInv
  <1> SUFFICES ASSUME Init
               PROVE  QueueInv
    OBVIOUS
  <1> USE QueueAssumption
  <1>1. Assets = {}
    BY DEF Init, Assets
  <1>2. now \in Slot
    BY DEF Init, Slot
  <1>3. TypeOK
    <2>1. rec \in Recs
      BY DEF Init, Booting, Recs, Slot
    <2>2. queue \in [Minute -> PackType \cup {None}]
      BY DEF Init
    <2>3. minute = 0 /\ restarts = 0
      BY DEF Init
    <2>4. minute \in Minute /\ restarts \in 0 .. MaxRestarts
      BY <2>3 DEF Minute
    <2>5. stopping \in BOOLEAN
      BY Zenon DEF Init
    <2>6. ver = {} /\ cov = {} /\ looked = {} /\ mine = {}
      BY DEF Init
    <2>7. QED
      BY <1>2, <2>1, <2>2, <2>6, <2>4, <2>5, Zenon DEF TypeOK, Recs
  <1>4. QED
    BY <1>1, <1>3 DEF QueueInv, PacksPast, CoverageHeld, PacksBacked, Init

\* The types the steps use.
LEMMA QueueTypes ==
    ASSUME QueueInv
    PROVE  /\ now \in Nat /\ now \in Slot /\ Slot \subseteq Nat /\ rec \in Recs
           /\ minute \in Minute /\ stopping \in BOOLEAN
           /\ ver \in SUBSET (1 .. now) /\ looked \in SUBSET (1 .. now)
           /\ mine \in SUBSET (1 .. now) /\ 1 .. now \subseteq Slot
           /\ cov \in SUBSET Ranges(1 .. now) /\ Apart(cov)
           /\ queue \in [Minute -> PackType \cup {None}]
  BY QueueAssumption DEF QueueInv, TypeOK, Slot, Recs, Apart

LEMMA PushedRec ==
    ASSUME rec \in Recs, NEW ok \in BOOLEAN, Push(ok)
    PROVE  /\ rec' \in Recs /\ rec'.since = NextSince(ok) /\ rec'.tip \in {0, rec.tip}
           /\ rec'.pc \in {"tidy", "stopped", "poll"}
           /\ rec'.pc = "tidy" => ~rec'.stop
           /\ rec'.pc = "stopped" => (rec'.failed <=> ~ok)
  <1>1. NextSince(ok) \in Slot
    BY RecOf DEF NextSince
  <1>2. PICK failed \in BOOLEAN : failed = ~ok
    BY Zenon
  <1>3. PICK pushed : pushed = [rec EXCEPT !.since = NextSince(ok), !.failed = failed]
    OBVIOUS
  <1>4. \/ rec' = [pushed EXCEPT !.pc = "tidy"] /\ ~rec.stop
        \/ rec' = NextLoop(pushed)
    BY <1>2, <1>3, Zenon DEF Push
  <1>5. /\ pushed \in Recs /\ [pushed EXCEPT !.pc = "tidy"] \in Recs
        /\ pushed.tip = rec.tip /\ [pushed EXCEPT !.pc = "tidy"].tip = rec.tip
        /\ pushed.since = NextSince(ok) /\ pushed.failed = failed
        /\ [pushed EXCEPT !.pc = "tidy"].since = NextSince(ok)
        /\ [pushed EXCEPT !.pc = "tidy"].pc = "tidy"
        /\ [pushed EXCEPT !.pc = "tidy"].stop = rec.stop
    BY <1>1, <1>3 DEF Recs
  <1>6. CASE rec' = [pushed EXCEPT !.pc = "tidy"] /\ ~rec.stop
    BY <1>5, <1>6
  <1>7. CASE rec' = NextLoop(pushed)
    <2>1. /\ rec' \in Recs /\ rec'.since = NextSince(ok) /\ rec'.tip = 0
          /\ rec'.pc \in {"stopped", "poll"} /\ rec'.failed = failed
      BY <1>5, <1>7, RecLooped
    <2>2. rec'.failed <=> ~ok
      BY <1>2, <2>1, Zenon
    <2>3. QED
      BY <2>1, <2>2
  <1>8. QED
    BY <1>4, <1>6, <1>7

\* What goes on without the disk and the queue.
LEMMA QuietStep ==
    ASSUME QueueInv,
           \/ Advance \/ Tick \/ PollFails \/ CheckIdle
           \/ \E t \in Slot : CheckDue(t)
           \/ CheckDeferred \/ Stop
    PROVE  QueueInv'
  <1> USE QueueAssumption, QueueTypes
  <1>1. /\ rec.since \in Slot /\ rec.hour \in Nat /\ rec.stop \in BOOLEAN
        /\ rec.seen \in Nat /\ rec.tip \in Slot /\ rec.failed \in BOOLEAN
        /\ rec = [pc |-> rec.pc, since |-> rec.since, hour |-> rec.hour,
                  stop |-> rec.stop, seen |-> rec.seen, tip |-> rec.tip,
                  failed |-> rec.failed]
    BY RecOf
  <1>2. CASE Advance
    <2>1. now' \in Slot /\ now' >= now
      BY <1>2 DEF Advance, Slot
    <2>2. QED
      BY <1>2, <2>1, QueueStays DEF Advance
  <1>3. CASE Tick
    <2>1. minute' \in Minute
      BY <1>3 DEF Tick, Minute
    <2>2. QED
      BY <1>3, <2>1, QueueStays DEF Tick
  <1>4. CASE PollFails
    <2>1. rec' = [pc |-> "check", since |-> rec.since, hour |-> rec.hour,
                  stop |-> rec.stop, seen |-> rec.seen, tip |-> rec.tip,
                  failed |-> rec.failed]
      BY <1>1, <1>4 DEF PollFails
    <2>2. rec' \in Recs
      BY <1>1, <2>1 DEF Recs
    <2>3. QED
      BY <1>4, <2>2, QueueStays DEF PollFails
  <1>5. CASE CheckIdle
    <2>1. PICK pc \in {"stopped", "poll"} : rec' = [rec EXCEPT !.pc = pc]
      BY <1>5 DEF CheckIdle
    <2>2. rec' = [pc |-> pc, since |-> rec.since, hour |-> rec.hour,
                  stop |-> rec.stop, seen |-> rec.seen, tip |-> rec.tip,
                  failed |-> rec.failed]
      BY <1>1, <2>1
    <2>3. rec' \in Recs
      BY <1>1, <2>2 DEF Recs
    <2>4. QED
      BY <1>5, <2>3, QueueStays DEF CheckIdle
  <1>6. ASSUME NEW t \in Slot, CheckDue(t)
        PROVE  QueueInv'
    <2>1. rec' = [pc |-> "push", since |-> rec.since, hour |-> rec.hour,
                  stop |-> stopping, seen |-> Hour(minute), tip |-> t,
                  failed |-> rec.failed]
      BY <1>1, <1>6 DEF CheckDue
    <2>2. Hour(minute) \in Nat
      BY HourInNat
    <2>3. rec' \in Recs
      BY <1>1, <2>1, <2>2 DEF Recs
    <2>4. UNCHANGED <<now, minute, ver, cov, queue, stopping, restarts, looked, mine>>
      BY <1>6 DEF CheckDue
    <2>5. QED
      BY <2>3, <2>4, QueueStays
  <1>7. CASE CheckDeferred
    <2>1. PICK pc \in {"stopped", "poll"} :
            rec' = [rec EXCEPT !.pc = pc, !.hour = Hour(minute), !.failed = TRUE]
      BY <1>7 DEF CheckDeferred
    <2>2. rec' = [pc |-> pc, since |-> rec.since, hour |-> Hour(minute),
                  stop |-> rec.stop, seen |-> rec.seen, tip |-> rec.tip,
                  failed |-> TRUE]
      BY <1>1, <2>1
    <2>3. Hour(minute) \in Nat
      BY HourInNat
    <2>4. rec' \in Recs
      BY <1>1, <2>2, <2>3 DEF Recs
    <2>5. QED
      BY <1>7, <2>4, QueueStays DEF CheckDeferred
  <1>8. CASE Stop
    BY <1>8, QueueStays DEF Stop
  <1>9. QED
    BY <1>2, <1>3, <1>4, <1>5, <1>6, <1>7, <1>8

\* The queue keeps its packs: nothing but the disk moves.
LEMMA DiskStep ==
    ASSUME QueueInv, UNCHANGED <<now, minute, queue>>,
           ver' \in SUBSET (1 .. now), looked' \in SUBSET (1 .. now),
           mine' \in SUBSET (1 .. now), cov' \in SUBSET Ranges(1 .. now), Apart(cov)',
           \A g \in cov' : Backed(looked', g),
           rec' \in Recs, stopping' \in BOOLEAN, restarts' \in 0 .. MaxRestarts
    PROVE  QueueInv'
  <1>1. TypeOK'
    BY DEF QueueInv, TypeOK, Recs, Apart
  <1>2. PacksPast'
    BY DEF QueueInv, PacksPast, Assets
  <1>3. CoverageHeld' /\ PacksBacked'
    BY DEF QueueInv, CoverageHeld, PacksBacked, Assets
  <1>4. QED
    BY <1>1, <1>2, <1>3 DEF QueueInv

LEMMA RestoreStep ==
    ASSUME QueueInv, NEW whole \in SUBSET Assets, NEW torn \in SUBSET Assets,
           NEW t \in Slot, Restore(whole, torn, t)
    PROVE  QueueInv'
  <1> USE QueueTypes
  <1> DEFINE imported == whole \cup torn
             polls == looked \cup UNION {queue[m].polls : m \in imported}
             given == cov \cup UNION {queue[m].cov : m \in whole}
  <1>1. \A m \in Assets : /\ queue[m].vers \in SUBSET (1 .. now)
                          /\ queue[m].polls \in SUBSET (1 .. now)
                          /\ queue[m].cov \in SUBSET Ranges(1 .. now)
    BY DEF QueueInv, PacksPast
  <1>2. ver' \in SUBSET (1 .. now)
    BY <1>1 DEF Restore
  <1>3. polls \in SUBSET (1 .. now) /\ given \in SUBSET Ranges(1 .. now)
    BY <1>1
  <1>4. \A g \in given : Backed(polls, g)
    <2>1. ASSUME NEW g \in cov
          PROVE  Backed(polls, g)
      <3>1. Backed(looked, g)
        BY DEF QueueInv, CoverageHeld
      <3>2. QED
        BY <3>1, BackedByMore
    <2>2. ASSUME NEW m \in whole, NEW g \in queue[m].cov
          PROVE  Backed(polls, g)
      <3>1. Backed(queue[m].polls, g)
        BY DEF QueueInv, PacksBacked
      <3>2. queue[m].polls \subseteq polls
        OBVIOUS
      <3> HIDE DEF polls
      <3>3. QED
        BY <3>1, <3>2, BackedByMore
    <2> HIDE DEF polls
    <2>3. QED
      BY <2>1, <2>2
  <1>5. /\ cov' \in SUBSET Ranges(1 .. now)
        /\ Apart(cov')
        /\ \A g \in cov' : Backed(polls, g)
    <2>1. CASE whole = {}
      <3>1. cov' = cov
        BY <2>1 DEF Restore
      <3>2. \A g \in cov : Backed(polls, g)
        BY <1>4
      <3> HIDE DEF polls
      <3>3. QED
        BY <3>1, <3>2
    <2>2. CASE whole # {}
      <3>1. cov' = MergedRanges(given)
        BY <2>2 DEF Restore
      <3>2. polls \in SUBSET Nat
        BY <1>3
      <3> HIDE DEF given, polls
      <3>3. QED
        BY <1>3, <1>4, <3>1, <3>2, MergedBacked
    <2>3. QED
      BY <2>1, <2>2
  <1>6. looked' = polls
    BY DEF Restore
  <1>7. rec' \in Recs
    <2>1. /\ rec.stop \in BOOLEAN /\ rec.seen \in Nat /\ rec.tip \in Slot
          /\ rec.failed \in BOOLEAN
          /\ rec = [pc |-> rec.pc, since |-> rec.since, hour |-> rec.hour,
                    stop |-> rec.stop, seen |-> rec.seen, tip |-> rec.tip,
                    failed |-> rec.failed]
      BY RecOf
    <2>2. rec' = [pc |-> "poll", since |-> t, hour |-> Hour(minute),
                  stop |-> rec.stop, seen |-> rec.seen, tip |-> rec.tip,
                  failed |-> rec.failed]
      BY <2>1 DEF Restore
    <2>3. Hour(minute) \in Nat
      BY HourInNat
    <2>4. QED
      BY <2>1, <2>2, <2>3 DEF Recs
  <1>8. /\ UNCHANGED <<now, minute, queue, stopping, restarts, mine>>
        /\ restarts \in 0 .. MaxRestarts
    BY DEF Restore, QueueInv, TypeOK
  <1> HIDE DEF polls
  <1>9. QED
    BY <1>2, <1>3, <1>5, <1>6, <1>7, <1>8, DiskStep

LEMMA PollStep ==
    ASSUME QueueInv, NEW r \in 1 .. now, NEW differs \in BOOLEAN, Poll(r, differs)
    PROVE  QueueInv'
  <1> USE QueueTypes
  <1>1. /\ cov' \in SUBSET Ranges(1 .. now)
        /\ Apart(cov')
        /\ \A g \in cov' : Backed(looked \cup {r}, g)
    <2>1. \A g \in cov : Backed(looked, g)
      BY DEF QueueInv, CoverageHeld
    <2>2. cov' = NotedRanges(cov, r)
      BY DEF Poll
    <2>3. looked \in SUBSET Nat
      OBVIOUS
    <2>4. QED
      BY <2>1, <2>2, <2>3, NotedBacked
  <1>2. /\ ver' \in SUBSET (1 .. now) /\ mine' \in SUBSET (1 .. now)
        /\ looked' = looked \cup {r}
    BY DEF Poll
  <1>3. rec' \in Recs
    <2>1. /\ rec.since \in Slot /\ rec.hour \in Nat /\ rec.stop \in BOOLEAN
          /\ rec.seen \in Nat /\ rec.tip \in Slot /\ rec.failed \in BOOLEAN
          /\ rec = [pc |-> rec.pc, since |-> rec.since, hour |-> rec.hour,
                    stop |-> rec.stop, seen |-> rec.seen, tip |-> rec.tip,
                    failed |-> rec.failed]
      BY RecOf
    <2>2. rec' = [pc |-> "check", since |-> rec.since, hour |-> rec.hour,
                  stop |-> rec.stop, seen |-> rec.seen, tip |-> rec.tip,
                  failed |-> rec.failed]
      BY <2>1 DEF Poll
    <2>3. QED
      BY <2>1, <2>2 DEF Recs
  <1>4. /\ UNCHANGED <<now, minute, queue, stopping, restarts>>
        /\ restarts \in 0 .. MaxRestarts
    BY DEF Poll, QueueInv, TypeOK
  <1>5. QED
    BY <1>1, <1>2, <1>3, <1>4, DiskStep

LEMMA RestartStep ==
    ASSUME QueueInv, NEW wiped \in BOOLEAN, Restart(wiped)
    PROVE  QueueInv'
  <1> USE QueueTypes, QueueAssumption
  <1>1. Booting \in Recs
    BY DEF Booting, Recs, Slot
  <1>2. restarts' \in 0 .. MaxRestarts
    BY DEF Restart, QueueInv, TypeOK
  <1>3. \/ ver' = {} /\ cov' = {} /\ looked' = {}
        \/ ver' = ver /\ cov' = cov /\ looked' = looked
    BY DEF Restart
  <1>4. /\ rec' \in Recs /\ mine' = {} /\ UNCHANGED <<now, minute, queue>>
    BY <1>1 DEF Restart
  <1>5. stopping' \in BOOLEAN
    BY Zenon DEF Restart
  <1>6. \A g \in cov : Backed(looked, g)
    BY DEF QueueInv, CoverageHeld
  <1>7. Apart({})
    BY DEF Apart
  <1>8. CASE ver' = {} /\ cov' = {} /\ looked' = {}
    BY <1>2, <1>4, <1>5, <1>7, <1>8, DiskStep
  <1>9. CASE ver' = ver /\ cov' = cov /\ looked' = looked
    BY <1>2, <1>4, <1>5, <1>6, <1>9, DiskStep
  <1>10. QED
    BY <1>3, <1>8, <1>9

LEMMA StreamStep ==
    ASSUME QueueInv, NEW w \in Slot, StreamRecord(w)
    PROVE  QueueInv'
  <1> USE QueueTypes
  <1>1. ver' \in SUBSET (1 .. now)
    BY DEF StreamRecord
  <1>2. \A g \in cov : Backed(looked, g)
    BY DEF QueueInv, CoverageHeld
  <1>3. restarts \in 0 .. MaxRestarts
    BY DEF QueueInv, TypeOK
  <1>4. QED
    BY <1>1, <1>2, <1>3, DiskStep DEF StreamRecord

\* A push stores a pack that is sound, leaves the old one, or none.
LEMMA PushStep ==
    ASSUME QueueInv, NEW ok \in BOOLEAN, Push(ok)
    PROVE  QueueInv'
  <1> USE QueueTypes, QueueAssumption
  <1> DEFINE pack == Export(rec.since)
             Past == [vers : SUBSET (1 .. now), cov : SUBSET Ranges(1 .. now),
                      polls : SUBSET (1 .. now)]
  <1>1. rec.since \in Slot
    BY RecOf
  <1>2. pack \in Past /\ \A g \in pack.cov : Backed(pack.polls, g)
    <2>1. \A g \in cov : Backed(looked, g)
      BY DEF QueueInv, CoverageHeld
    <2>2. rec.since \in Nat
      BY <1>1
    <2>3. QED
      BY <2>1, <2>2, ExportBacked
  <1> HIDE DEF pack
  <1>3. PICK asset \in {queue[minute], None, pack} :
            queue' = [queue EXCEPT ![minute] = asset]
    BY DEF Push, pack
  <1>4. \A m \in Assets' : (m \in Assets /\ queue'[m] = queue[m]) \/ queue'[m] = pack
    BY <1>3 DEF Assets
  <1>5. Past \subseteq PackType
    <2>1. Ranges(1 .. now) \subseteq Ranges(Slot)
      BY DEF Ranges
    <2>2. QED
      BY <2>1 DEF PackType
  <1>6. queue' \in [Minute -> PackType \cup {None}]
    <2>1. asset \in PackType \cup {None}
      <3> HIDE DEF Past
      <3> QED
        BY <1>2, <1>3, <1>5
    <2>2. QED
      BY <1>3, <2>1
  <1>7. rec' \in Recs
    BY PushedRec
  <1>8. UNCHANGED <<now, minute, ver, cov, stopping, restarts, looked, mine>>
    BY DEF Push
  <1>9. TypeOK'
    BY <1>6, <1>7, <1>8 DEF QueueInv, TypeOK, Recs
  <1>10. PacksPast'
    <2>1. SUFFICES ASSUME NEW m \in Assets'
                   PROVE  queue'[m] \in [vers : SUBSET (1 .. now'),
                                          cov : SUBSET Ranges(1 .. now'),
                                          polls : SUBSET (1 .. now')]
      BY DEF PacksPast
    <2>2. CASE m \in Assets /\ queue'[m] = queue[m]
      BY <1>8, <2>2 DEF QueueInv, PacksPast
    <2>3. CASE queue'[m] = pack
      BY <1>2, <1>8, <2>3
    <2>4. QED
      BY <1>4, <2>2, <2>3
  <1>11. PacksBacked'
    <2>1. SUFFICES ASSUME NEW m \in Assets'
                   PROVE  \A g \in queue'[m].cov : Backed(queue'[m].polls, g)
      BY DEF PacksBacked
    <2>2. CASE m \in Assets /\ queue'[m] = queue[m]
      BY <2>2 DEF QueueInv, PacksBacked
    <2>3. CASE queue'[m] = pack
      BY <1>2, <2>3
    <2>4. QED
      BY <1>4, <2>2, <2>3
  <1>12. CoverageHeld'
    BY <1>8 DEF QueueInv, CoverageHeld
  <1>13. QED
    BY <1>9, <1>10, <1>11, <1>12 DEF QueueInv

\* Thinning forgets whole ranges, and expired assets go as a whole.
LEMMA HousekeepStep ==
    ASSUME QueueInv, NEW popped \in SUBSET Expired, NEW thinned \in BOOLEAN,
           Housekeep(popped, thinned)
    PROVE  QueueInv'
  <1> USE QueueTypes, QueueAssumption
  <1>1. queue' = [m \in Minute |-> IF m \in popped THEN None ELSE queue[m]]
    BY DEF Housekeep
  <1>2. \A m \in Assets' : m \in Assets /\ queue'[m] = queue[m]
    BY <1>1 DEF Assets
  <1>3. queue' \in [Minute -> PackType \cup {None}]
    BY <1>1
  <1>4. ver' \subseteq ver /\ mine' \subseteq mine
    BY DEF Housekeep
  <1>5. cov' \subseteq cov
    BY DEF Housekeep, RetainedRanges
  <1>6. rec' \in Recs
    BY RecLooped DEF Housekeep
  <1>7. UNCHANGED <<now, minute, stopping, restarts, looked>>
    BY DEF Housekeep
  <1>8. TypeOK'
    <2>1. ver' \subseteq 1 .. now /\ mine' \subseteq 1 .. now /\ cov' \subseteq Ranges(1 .. now)
      BY <1>4, <1>5
    <2>2. Apart(cov')
      BY <1>5 DEF Apart
    <2>3. QED
      BY <1>3, <1>6, <1>7, <2>1, <2>2 DEF QueueInv, TypeOK, Recs, Apart
  <1>9. PacksPast'
    BY <1>2, <1>7 DEF QueueInv, PacksPast
  <1>10. PacksBacked'
    BY <1>2 DEF QueueInv, PacksBacked
  <1>11. CoverageHeld'
    BY <1>5, <1>7 DEF QueueInv, CoverageHeld
  <1>12. QED
    BY <1>8, <1>9, <1>10, <1>11 DEF QueueInv

LEMMA QueueStepInv == QueueInv /\ [Next]_vars => QueueInv'
  <1> SUFFICES ASSUME QueueInv, [Next]_vars
               PROVE  QueueInv'
    OBVIOUS
  <1>1. CASE Advance
    BY <1>1, QuietStep
  <1>2. CASE Tick
    BY <1>2, QuietStep
  <1>3. CASE Recorder
    <2>1. ASSUME NEW whole \in SUBSET Assets, NEW torn \in SUBSET Assets, NEW t \in Slot,
                 Restore(whole, torn, t)
          PROVE  QueueInv'
      BY <2>1, RestoreStep
    <2>2. ASSUME NEW r \in 1 .. now, NEW differs \in BOOLEAN, Poll(r, differs)
          PROVE  QueueInv'
      BY <2>2, PollStep
    <2>3. ASSUME NEW ok \in BOOLEAN, Push(ok)
          PROVE  QueueInv'
      BY <2>3, PushStep
    <2>4. ASSUME NEW popped \in SUBSET Expired, NEW thinned \in BOOLEAN,
                 Housekeep(popped, thinned)
          PROVE  QueueInv'
      BY <2>4, HousekeepStep
    <2>5. CASE PollFails \/ CheckIdle \/ (\E t \in Slot : CheckDue(t)) \/ CheckDeferred
      BY <2>5, QuietStep
    <2>6. QED
      BY <1>3, <2>1, <2>2, <2>3, <2>4, <2>5 DEF Recorder
  <1>4. CASE Process
    <2>1. CASE Stop
      BY <2>1, QuietStep
    <2>2. ASSUME NEW wiped \in BOOLEAN, Restart(wiped)
          PROVE  QueueInv'
      BY <2>2, RestartStep
    <2>3. ASSUME NEW w \in Slot, StreamRecord(w)
          PROVE  QueueInv'
      BY <2>3, StreamStep
    <2>4. QED
      BY <1>4, <2>1, <2>2, <2>3 DEF Process
  <1>5. CASE UNCHANGED vars
    BY <1>5, QueueTypes, QueueStays DEF vars
  <1>6. QED
    BY <1>1, <1>2, <1>3, <1>4, <1>5 DEF Next

\* CoverageBacked: whatever packs were lost, whatever a restore could import,
\* however often a process started over, no slot is covered without a poll
\* (or the cut of an imported pack) within MaxGap after it, in its range.
THEOREM CoverageKept == QueueSpec => []CoverageBacked
  <1>1. QueueInv => CoverageBacked
    BY DEF QueueInv, CoverageHeld, Backed, CoverageBacked
  <1>2. QED
    BY <1>1, QueueInitInv, QueueStepInv, PTL DEF QueueSpec

-----------------------------------------------------------------------------
\* Nothing polled is skipped, as long as no asset replaces another.

\* What a process polled is on its disk; it has polled nothing before it
\* restored; and a push for the last time is not followed by housekeeping.
MineHeld == mine \subseteq ver
MineOwn == rec.pc = "restore" => mine = {}
TidyGoesOn == rec.pc = "tidy" => ~rec.stop

SkipInv == MineHeld /\ MineOwn /\ TidyGoesOn /\ PolledDurable /\ CleanStop

\* A step that leaves the queue, what was polled and last_push_slot alone.
LEMMA SkipStays ==
    ASSUME SkipInv, UNCHANGED <<queue, mine>>, ver \subseteq ver',
           rec'.since = rec.since, rec'.pc # "restore", rec'.pc # "tidy",
           rec'.pc = "stopped" => rec'.failed
    PROVE  SkipInv'
  <1>1. InQueue' = InQueue
    BY DEF InQueue, Assets
  <1>2. MineHeld' /\ MineOwn' /\ TidyGoesOn'
    BY DEF SkipInv, MineHeld, MineOwn, TidyGoesOn
  <1>3. PolledDurable'
    BY <1>1 DEF SkipInv, PolledDurable
  <1>4. CleanStop'
    BY DEF CleanStop
  <1>5. QED
    BY <1>2, <1>3, <1>4 DEF SkipInv

LEMMA SkipIdle ==
    ASSUME SkipInv, UNCHANGED <<queue, mine, rec>>, ver \subseteq ver'
    PROVE  SkipInv'
  <1>1. InQueue' = InQueue
    BY DEF InQueue, Assets
  <1>2. QED
    BY <1>1 DEF SkipInv, MineHeld, MineOwn, TidyGoesOn, PolledDurable, CleanStop

LEMMA SkipPush ==
    ASSUME QueueInv, SkipInv, NoReplacement, NEW ok \in BOOLEAN, Push(ok)
    PROVE  SkipInv'
  <1> USE QueueTypes, QueueAssumption
  <1> DEFINE pack == Export(rec.since)
  <1>1. rec.since \in Slot
    BY RecOf
  <1>2. mine' = mine /\ ver' = ver /\ minute' = minute
    BY DEF Push
  <1>3. PICK asset :
            /\ queue' = [queue EXCEPT ![minute] = asset]
            /\ asset \in IF IsEmpty(pack) THEN {queue[minute]}
                         ELSE IF ok THEN {pack} ELSE {queue[minute], None, pack}
    BY DEF Push
  <1>4. pack.vers = {s \in ver : s > rec.since}
    BY DEF Export
  <1>5. pack # None
    <2>1. pack \in [vers : SUBSET (1 .. now), cov : SUBSET Ranges(1 .. now),
                    polls : SUBSET (1 .. now)]
      BY <1>1, ExportBacked DEF QueueInv, CoverageHeld
    <2>2. pack \in PackType
      <3>1. Ranges(1 .. now) \subseteq Ranges(Slot)
        BY DEF Ranges
      <3> HIDE DEF pack
      <3>2. QED
        BY <2>1, <3>1 DEF PackType
    <2> HIDE DEF pack
    <2>3. QED
      BY <2>2, NoPackAssumption
  <1> HIDE DEF pack
  \* What was in the queue stays: only this minute's asset moves, and it is not expired.
  <1>6. minute \notin Expired
    <2>1. Day(minute) \in Nat
      BY DEF Day, Minute
    <2>2. QED
      BY <2>1 DEF Expired
  <1>7. \A m \in Assets : queue'[m] = queue[m]
    <2>1. TAKE m \in Assets
    <2>2. m \in Minute /\ queue[m] # None
      BY DEF Assets
    <2>3. CASE m = minute
      <3>1. queue'[m] = queue[m] \/ (queue'[m] = None /\ m \in Expired)
        BY <2>2 DEF NoReplacement
      <3>2. QED
        BY <1>6, <2>3, <3>1
    <2>4. CASE m # minute
      BY <1>3, <2>2, <2>4
    <2>5. QED
      BY <2>3, <2>4
  <1>8. InQueue \subseteq InQueue'
    BY <1>7 DEF InQueue, Assets
  \* A push that worked has put all of the rest there.
  <1>9. ASSUME ok, NEW s \in mine, s > rec.since
        PROVE  s \in InQueue'
    <2>1. s \in pack.vers
      BY <1>4, <1>9 DEF SkipInv, MineHeld
    <2>2. ~IsEmpty(pack)
      BY <2>1 DEF IsEmpty
    <2>3. queue'[minute] = pack
      BY <1>3, <1>9, <2>2
    <2>4. minute \in Assets'
      BY <1>5, <2>3 DEF Assets
    <2>5. QED
      BY <2>1, <2>3, <2>4 DEF InQueue
  <1>10. ASSUME NEW s \in mine, s <= rec.since
        PROVE  s \in InQueue'
    BY <1>8, <1>10 DEF SkipInv, PolledDurable
  <1>11. ok => mine \subseteq InQueue'
    <2>1. SUFFICES ASSUME ok, NEW s \in mine
                   PROVE  s \in InQueue'
      OBVIOUS
    <2>2. s \in Nat /\ rec.since \in Nat
      BY <1>1
    <2>3. s <= rec.since \/ s > rec.since
      BY <2>2
    <2>4. QED
      BY <1>9, <1>10, <2>1, <2>3
  <1>12. ~ok => NextSince(ok) = rec.since
    BY DEF NextSince
  <1>13. /\ rec'.since = NextSince(ok)
         /\ rec'.pc \in {"tidy", "stopped", "poll"}
         /\ rec'.pc = "tidy" => ~rec'.stop
         /\ rec'.pc = "stopped" => (rec'.failed <=> ~ok)
    BY PushedRec
  <1>14. PolledDurable'
    <2>1. CASE ok
      BY <1>2, <1>11, <2>1 DEF PolledDurable
    <2>2. CASE ~ok
      BY <1>2, <1>10, <1>12, <1>13, <2>2 DEF PolledDurable
    <2>3. QED
      BY <2>1, <2>2
  <1>15. CleanStop'
    BY <1>2, <1>11, <1>13, Zenon DEF CleanStop
  <1>16. MineHeld' /\ MineOwn' /\ TidyGoesOn'
    BY <1>2, <1>13 DEF SkipInv, MineHeld, MineOwn, TidyGoesOn
  <1>17. QED
    BY <1>14, <1>15, <1>16 DEF SkipInv

\* What is popped or thinned leaves the retention rules' account of it too.
LEMMA SkipHousekeep ==
    ASSUME QueueInv, SkipInv, NEW popped \in SUBSET Expired, NEW thinned \in BOOLEAN,
           Housekeep(popped, thinned)
    PROVE  SkipInv'
  <1> USE QueueTypes
  <1>1. PICK kept : /\ ver' = kept
                    /\ mine' = mine \ ((ver \ kept) \cup UNION {queue[m].vers : m \in popped})
    BY DEF Housekeep
  <1>2. queue' = [m \in Minute |-> IF m \in popped THEN None ELSE queue[m]]
    BY DEF Housekeep
  <1>3. MineHeld'
    BY <1>1 DEF SkipInv, MineHeld
  <1>4. rec' = NextLoop(rec) /\ ~rec.stop
    BY DEF Housekeep, SkipInv, TidyGoesOn
  <1>5. rec'.since = rec.since /\ rec'.pc = "poll"
    BY <1>4, RecLooped
  <1>6. MineOwn' /\ TidyGoesOn' /\ CleanStop'
    BY <1>5 DEF MineOwn, TidyGoesOn, CleanStop
  <1>7. PolledDurable'
    <2>1. SUFFICES ASSUME NEW s \in mine', s <= rec'.since
                   PROVE  s \in InQueue'
      BY DEF PolledDurable
    <2>2. s \in InQueue
      BY <1>1, <1>5, <2>1 DEF SkipInv, PolledDurable
    <2>3. PICK m \in Assets : s \in queue[m].vers
      BY <2>2 DEF InQueue
    <2>4. m \notin popped
      BY <1>1, <2>1, <2>3
    <2>5. m \in Assets' /\ queue'[m] = queue[m]
      BY <1>2, <2>4 DEF Assets
    <2>6. QED
      BY <2>3, <2>5 DEF InQueue
  <1>8. QED
    BY <1>3, <1>6, <1>7 DEF SkipInv

\* last_push_slot is a finalized slot, or none.
SinceFinal ==
    \A t \in {rec.since, rec.tip} : t = 0 \/ t + Finality <= now

LEMMA FinalStep == QueueInv /\ SinceFinal /\ [Next]_vars => SinceFinal'
  <1> SUFFICES ASSUME QueueInv, SinceFinal, [Next]_vars
               PROVE  SinceFinal'
    OBVIOUS
  <1> USE QueueTypes, QueueAssumption
  <1>1. rec \in Recs /\ rec.since \in Nat /\ rec.tip \in Nat
    BY RecOf
  <1>2. CASE Advance
    <2>1. now' = now + 1 /\ rec' = rec
      BY <1>2 DEF Advance
    <2>2. \A t \in {rec.since, rec.tip} : t \in Nat
      BY <1>1
    <2>3. QED
      BY <2>1, <2>2 DEF SinceFinal
  <1>3. CASE /\ now' = now
             /\ rec'.since \in {0, rec.since, rec.tip}
             /\ rec'.tip \in {0, rec.tip}
    BY <1>3 DEF SinceFinal
  <1>4. CASE Tick \/ Stop \/ UNCHANGED vars \/ \E w \in Slot : StreamRecord(w)
    BY <1>4 DEF SinceFinal, Tick, Stop, vars, StreamRecord
  <1>5. ASSUME NEW wiped \in BOOLEAN, Restart(wiped)
        PROVE  SinceFinal'
    BY <1>5 DEF SinceFinal, Restart, Booting
  <1>6. ASSUME NEW whole \in SUBSET Assets, NEW torn \in SUBSET Assets, NEW t \in Slot,
               Restore(whole, torn, t)
        PROVE  SinceFinal'
    <2>1. rec'.since = t /\ rec'.tip = rec.tip /\ now' = now
      BY <1>1, <1>6 DEF Restore, Recs
    <2>2. t = 0 \/ t + Finality <= now
      BY <1>6 DEF Restore, Finalized
    <2>3. QED
      BY <2>1, <2>2 DEF SinceFinal
  <1>7. ASSUME NEW t \in Slot, CheckDue(t)
        PROVE  SinceFinal'
    <2>1. rec'.since = rec.since /\ rec'.tip = t /\ now' = now
      BY <1>1, <1>7 DEF CheckDue, Recs
    <2>2. t + Finality <= now
      BY <1>7 DEF CheckDue, Finalized
    <2>3. QED
      BY <2>1, <2>2 DEF SinceFinal
  <1>8. ASSUME NEW r \in 1 .. now, NEW differs \in BOOLEAN, Poll(r, differs)
        PROVE  SinceFinal'
    <2>1. rec'.since = rec.since /\ rec'.tip = rec.tip /\ now' = now
      BY <1>1, <1>8 DEF Poll, Recs
    <2>2. QED
      BY <2>1, <1>3
  <1>9. CASE PollFails \/ CheckIdle \/ CheckDeferred
    <2>1. rec'.since = rec.since /\ rec'.tip = rec.tip /\ now' = now
      BY <1>1, <1>9 DEF PollFails, CheckIdle, CheckDeferred, Recs
    <2>2. QED
      BY <2>1, <1>3
  <1>10. ASSUME NEW ok \in BOOLEAN, Push(ok)
        PROVE  SinceFinal'
    <2>1. NextSince(ok) \in {rec.since, rec.tip} /\ now' = now
      BY <1>10 DEF NextSince, Push
    <2>2. rec'.since = NextSince(ok) /\ rec'.tip \in {0, rec.tip}
      BY <1>10, PushedRec
    <2>3. QED
      BY <1>3, <2>1, <2>2
  <1>11. ASSUME NEW popped \in SUBSET Expired, NEW thinned \in BOOLEAN,
                Housekeep(popped, thinned)
         PROVE  SinceFinal'
    <2>1. rec'.since = rec.since /\ rec'.tip = 0 /\ now' = now
      BY <1>1, <1>11, RecLooped DEF Housekeep
    <2>2. QED
      BY <2>1, <1>3
  <1>12. QED
    BY <1>2, <1>4, <1>5, <1>6, <1>7, <1>8, <1>9, <1>10, <1>11 DEF Next, Recorder, Process

LEMMA SkipStepInv ==
    ASSUME MaxLag < Finality,
           QueueInv, SinceFinal, SkipInv, [Next]_vars, [NoReplacement]_vars
    PROVE  SkipInv'
  <1> USE QueueTypes
  <1>1. rec \in Recs
    OBVIOUS
  <1>2. CASE Advance \/ Tick \/ Stop \/ UNCHANGED vars
    BY <1>2, SkipIdle DEF Advance, Tick, Stop, vars
  <1>3. ASSUME NEW w \in Slot, StreamRecord(w)
        PROVE  SkipInv'
    BY <1>3, SkipIdle DEF StreamRecord
  <1>4. ASSUME NEW wiped \in BOOLEAN, Restart(wiped)
        PROVE  SkipInv'
    <2>1. mine' = {} /\ rec' = Booting
      BY <1>4 DEF Restart
    <2>2. QED
      BY <2>1 DEF SkipInv, MineHeld, MineOwn, TidyGoesOn, PolledDurable, CleanStop, Booting
  <1>5. ASSUME NEW whole \in SUBSET Assets, NEW torn \in SUBSET Assets, NEW t \in Slot,
               Restore(whole, torn, t)
        PROVE  SkipInv'
    <2>1. mine' = {}
      BY <1>5 DEF Restore, SkipInv, MineOwn
    <2>2. rec'.pc = "poll"
      BY <1>1, <1>5 DEF Restore, Recs
    <2>3. QED
      BY <2>1, <2>2 DEF SkipInv, MineHeld, MineOwn, TidyGoesOn, PolledDurable, CleanStop
  <1>6. ASSUME NEW r \in 1 .. now, NEW differs \in BOOLEAN, Poll(r, differs)
        PROVE  SkipInv'
    <2>1. rec'.pc = "check" /\ rec'.since = rec.since
      BY <1>1, <1>6 DEF Poll, Recs
    <2>2. PICK new \in SUBSET {r} : ver' = ver \cup new /\ mine' = mine \cup new
      BY <1>6 DEF Poll
    <2>3. InQueue' = InQueue
      BY <1>6 DEF Poll, InQueue, Assets
    \* A poll is newer than what was finalized before it.
    <2>4. rec.since < r
      <3>1. r + MaxLag >= now
        BY <1>6 DEF Poll, Polled
      <3>2. rec.since = 0 \/ rec.since + Finality <= now
        BY DEF SinceFinal
      <3>3. rec.since \in Nat
        BY RecOf
      <3>4. QED
        BY <3>1, <3>2, <3>3, QueueAssumption
    <2>5. PolledDurable'
      <3>1. SUFFICES ASSUME NEW s \in mine', s <= rec'.since
                     PROVE  s \in InQueue'
        BY DEF PolledDurable
      <3>2. s # r
        <4>1. rec.since \in Nat
          BY RecOf
        <4>2. QED
          BY <2>1, <2>4, <3>1, <4>1
      <3>3. s \in mine
        BY <2>2, <3>1, <3>2
      <3>4. QED
        BY <2>1, <2>3, <3>1, <3>3 DEF SkipInv, PolledDurable
    <2>6. QED
      BY <2>1, <2>2, <2>5 DEF SkipInv, MineHeld, MineOwn, TidyGoesOn, CleanStop
  <1>7. CASE PollFails
    <2>1. rec'.pc = "check" /\ rec'.since = rec.since
      BY <1>1, <1>7 DEF PollFails, Recs
    <2>2. QED
      BY <1>7, <2>1, SkipStays DEF PollFails
  <1>8. CASE CheckIdle
    <2>1. rec'.pc = "poll" /\ rec'.since = rec.since
      BY <1>1, <1>8 DEF CheckIdle, Due, Recs
    <2>2. QED
      BY <1>8, <2>1, SkipStays DEF CheckIdle
  <1>9. ASSUME NEW t \in Slot, CheckDue(t)
        PROVE  SkipInv'
    <2>1. rec'.pc = "push" /\ rec'.since = rec.since
      BY <1>1, <1>9 DEF CheckDue, Recs
    <2>2. UNCHANGED <<queue, mine, ver>>
      BY <1>9 DEF CheckDue
    <2>3. QED
      BY <2>1, <2>2, SkipStays
  <1>10. CASE CheckDeferred
    <2>1. /\ rec'.pc \in {"stopped", "poll"} /\ rec'.since = rec.since
          /\ rec'.failed = TRUE
      BY <1>1, <1>10 DEF CheckDeferred, Recs
    <2>2. UNCHANGED <<queue, mine, ver>>
      BY <1>10 DEF CheckDeferred
    <2>3. QED
      BY <2>1, <2>2, SkipStays
  <1>11. ASSUME NEW ok \in BOOLEAN, Push(ok)
         PROVE  SkipInv'
    <2>1. NoReplacement
      BY DEF NoReplacement, vars
    <2>2. QED
      BY <1>11, <2>1, SkipPush
  <1>12. ASSUME NEW popped \in SUBSET Expired, NEW thinned \in BOOLEAN,
                Housekeep(popped, thinned)
         PROVE  SkipInv'
    BY <1>12, SkipHousekeep
  <1>13. QED
    BY <1>2, <1>3, <1>4, <1>5, <1>6, <1>7, <1>8, <1>9, <1>10, <1>11, <1>12
    DEF Next, Recorder, Process

\* NothingSkipped, as long as no upload replaces another of the same minute,
\* and a poll is never answered by a node that is behind what another one has
\* finalized: what this process polled up to last_push_slot is in the queue,
\* however many pushes failed or were deferred, and a recorder that stopped
\* without an error has pushed everything.
THEOREM PolledKept ==
    ASSUME MaxLag < Finality
    PROVE  QueueSpec /\ [][NoReplacement]_vars => []NothingSkipped
  <1>1. Init => SinceFinal /\ SkipInv
    <2>1. SUFFICES ASSUME Init
                   PROVE  SinceFinal /\ SkipInv
      OBVIOUS
    <2>2. mine = {} /\ rec = Booting
      BY <2>1 DEF Init
    <2>3. QED
      BY <2>2 DEF Booting, SinceFinal, SkipInv, MineHeld, MineOwn, TidyGoesOn,
                  PolledDurable, CleanStop
  <1>2. QueueInv /\ SinceFinal /\ SkipInv /\ [Next]_vars /\ [NoReplacement]_vars
          => SinceFinal' /\ SkipInv'
    BY FinalStep, SkipStepInv
  <1>3. QueueInv /\ SkipInv => NothingSkipped
    BY DEF QueueInv, SkipInv, NothingSkipped
  <1>4. QED
    BY <1>1, <1>2, <1>3, QueueInitInv, QueueStepInv, PTL DEF QueueSpec

-----------------------------------------------------------------------------
\* The search of the stream.  What it found and what it still looks for, on a
\* chain that does not change: ch is what the accounts changed at.

Spans(ch, a, from, to) == {n \in ch[a] : from <= n /\ n < to}
Told(ch, accounts, from, to) ==
    {<<a, Max(Spans(ch, a, from, to))>> : a \in {x \in accounts : Spans(ch, x, from, to) # {}}}
Names(found) == {v[1] : v \in found}

Groupings == [missing : SUBSET Tracked, to : 0 .. Target, width : Nat]
SearchRecs ==
    [stage : {"idle", "next", "slot", "asleep", "call", "over"}, groups : Seq(Groupings),
     ask : SUBSET Tracked, got : SUBSET (Tracked \X Nat), kept : SUBSET (Tracked \X Nat),
     found : SUBSET (Tracked \X Nat), key : Nat, tries : Nat, failed : BOOLEAN]

\* A version found is the last change before the target, and within the look-back.
ExactVersion(ch, v) ==
    /\ Spans(ch, v[1], Floor, Target) # {}
    /\ v[2] = Max(Spans(ch, v[1], 1, Target))

\* Who a group still misses has not changed since the end of its next window.
Passed(ch, g) == \A a \in g.missing : Spans(ch, a, g.to, Target) = {}

Sought(s) == UNION {s.groups[i].missing : i \in DOMAIN s.groups}

\* Unless something failed, whoever changed is found or still looked for.
Complete(ch, s) ==
    s.failed \/ \A a \in Tracked : Spans(ch, a, Floor, Target) # {} =>
                    a \in Names(s.found \cup s.kept) \/ a \in Sought(s)

\* A window under way has the answers of whom it does not ask for any more.
Windowed(ch, s) ==
    s.stage \in {"slot", "asleep", "call"} =>
        /\ s.groups # <<>> /\ Floor < s.groups[1].to /\ s.ask \subseteq s.groups[1].missing
        /\ s.got = Told(ch, s.groups[1].missing \ s.ask, From(s.groups[1]), s.groups[1].to)

SearchSound(ch, s) ==
    /\ \A v \in s.found \cup s.kept : ExactVersion(ch, v)
    /\ \A i \in DOMAIN s.groups : Passed(ch, s.groups[i])
    /\ s.groups = <<>> => s.kept = {}
    /\ s.stage = "over" => s.groups = <<>>
    /\ Complete(ch, s)
    /\ Windowed(ch, s)

Past == [Tracked -> SUBSET Nat]
Standing(ch, s) ==
    IF s.stage = "idle" THEN s.found = {} /\ s.kept = {}
    ELSE ch \in Past /\ SearchSound(ch, s)

StreamInv ==
    /\ search \in [Searches -> SearchRecs]
    /\ changed # <<>> => changed \in Past
    /\ \A t \in Searches : Standing(changed, search[t])

\* The larger of two numbers.
LEMMA MaxOfTwo ==
    ASSUME NEW x \in Nat, NEW y \in Nat
    PROVE  Max({x, y}) \in {x, y} /\ x <= Max({x, y}) /\ y <= Max({x, y})
  <1>1. \E z \in {x, y} : \A w \in {x, y} : z >= w
    <2>1. CASE x >= y
      BY <2>1
    <2>2. CASE y >= x
      BY <2>2
    <2>3. QED
      BY <2>1, <2>2
  <1>2. Max({x, y}) \in {x, y} /\ \A w \in {x, y} : Max({x, y}) >= w
    BY <1>1 DEF Max
  <1>3. QED
    BY <1>2

\* Where the windows of a group begin and end.
LEMMA WindowBounds ==
    /\ Floor \in Nat /\ 1 <= Floor /\ Target \in Nat
    /\ \A g \in Groupings : /\ From(g) \in Nat /\ Floor <= From(g)
                            /\ Floor < g.to => From(g) <= g.to
  <1>1. Target \in Nat /\ Deep \in Nat
    BY StreamAssumption
  <1>2. \A n, d \in Nat : Below(n, d) \in Nat /\ Below(n, d) <= n
    BY DEF Below
  <1>3. Floor \in Nat /\ 1 <= Floor
    <2>1. Below(Target, Deep) \in Nat
      BY <1>1, <1>2
    <2>2. QED
      BY <2>1, MaxOfTwo DEF Floor
  <1>4. ASSUME NEW g \in Groupings
        PROVE  /\ From(g) \in Nat /\ Floor <= From(g)
               /\ Floor < g.to => From(g) <= g.to
    <2>1. g.to \in Nat /\ g.width \in Nat
      BY <1>1 DEF Groupings
    <2>2. Below(g.to, g.width) \in Nat /\ Below(g.to, g.width) <= g.to
      BY <1>2, <2>1
    <2>3. QED
      BY <1>3, <2>1, <2>2, MaxOfTwo DEF From
  <1>5. QED
    BY <1>1, <1>3, <1>4

\* The last change of a window is the last of all, if none came after the window.
LEMMA LastAcross ==
    ASSUME NEW ch \in Past, NEW a \in Tracked, NEW from \in Nat, NEW to \in 0 .. Target, 1 <= from,
           Spans(ch, a, from, to) # {}, Spans(ch, a, to, Target) = {}
    PROVE  Max(Spans(ch, a, from, to)) = Max(Spans(ch, a, 1, Target))
  <1> DEFINE S == Spans(ch, a, from, to)
             T == Spans(ch, a, 1, Target)
  <1>1. Target \in Nat /\ to \in Nat /\ to <= Target /\ ch[a] \subseteq Nat
    BY StreamAssumption DEF Past
  <1>2. S \subseteq T /\ S \in SUBSET (0 .. Target) /\ T \in SUBSET (0 .. Target)
    BY <1>1 DEF Spans
  <1>3. T # {}
    BY <1>2
  <1>4. \A n \in T : n >= from => n \in S
    BY <1>1 DEF Spans
  <1>5. \A n \in S : n >= from
    BY <1>1 DEF Spans
  <1> HIDE DEF S, T
  <1>6. Max(S) \in S /\ \A j \in S : j <= Max(S)
    BY <1>1, <1>2, LargestSlot DEF S
  <1>7. Max(T) \in T /\ \A j \in T : j <= Max(T)
    BY <1>1, <1>2, <1>3, LargestSlot
  <1>8. Max(S) \in Nat /\ Max(T) \in Nat
    <2>1. \A n \in T : n \in Nat
      BY <1>1 DEF T, Spans
    <2>2. QED
      BY <1>2, <1>6, <1>7, <2>1
  <1>9. Max(S) <= Max(T)
    BY <1>2, <1>6, <1>7
  <1>10. Max(T) \in S
    BY <1>4, <1>5, <1>6, <1>7, <1>8, <1>9
  <1>11. Max(T) <= Max(S)
    BY <1>6, <1>10
  <1>12. QED
    BY <1>8, <1>9, <1>11 DEF S, T

\* The answers of two sets of accounts.
LEMMA ToldOfBoth ==
    ASSUME NEW ch, NEW A, NEW B, NEW from, NEW to
    PROVE  Told(ch, A \cup B, from, to) = Told(ch, A, from, to) \cup Told(ch, B, from, to)
  BY DEF Told

\* Who is named by the answers, and what each is.
LEMMA ToldOf ==
    ASSUME NEW ch \in Past, NEW A \in SUBSET Tracked, NEW from \in Nat, NEW to \in 0 .. Target
    PROVE  /\ Told(ch, A, from, to) \in SUBSET (Tracked \X Nat)
           /\ Names(Told(ch, A, from, to)) = {a \in A : Spans(ch, a, from, to) # {}}
           /\ \A v \in Told(ch, A, from, to) :
                 v[1] \in A /\ Spans(ch, v[1], from, to) # {} /\ v[2] = Max(Spans(ch, v[1], from, to))
  <1>1. ASSUME NEW a \in A, Spans(ch, a, from, to) # {} PROVE Max(Spans(ch, a, from, to)) \in Nat
    <2>1. Target \in Nat /\ to <= Target /\ ch[a] \subseteq Nat
      BY StreamAssumption DEF Past
    <2>2. Spans(ch, a, from, to) \in SUBSET (0 .. Target)
      BY <2>1 DEF Spans
    <2>3. Max(Spans(ch, a, from, to)) \in 0 .. Target
      BY <1>1, <2>1, <2>2, LargestSlot
    <2>4. QED
      BY <2>1, <2>3
  <1>2. \A v \in Told(ch, A, from, to) : \E a \in A :
           Spans(ch, a, from, to) # {} /\ v = <<a, Max(Spans(ch, a, from, to))>>
    BY DEF Told
  <1>3. \A a \in A : Spans(ch, a, from, to) # {} =>
           <<a, Max(Spans(ch, a, from, to))>> \in Told(ch, A, from, to)
    BY DEF Told
  <1>4. \A v \in Told(ch, A, from, to) :
           v[1] \in A /\ Spans(ch, v[1], from, to) # {} /\ v[2] = Max(Spans(ch, v[1], from, to))
    BY <1>2
  <1>5. Told(ch, A, from, to) \in SUBSET (Tracked \X Nat)
    BY <1>1, <1>2
  <1>6. Names(Told(ch, A, from, to)) = {a \in A : Spans(ch, a, from, to) # {}}
    <2>1. ASSUME NEW a \in A, Spans(ch, a, from, to) # {} PROVE a \in Names(Told(ch, A, from, to))
      <3>1. <<a, Max(Spans(ch, a, from, to))>> \in Told(ch, A, from, to)
        BY <1>3, <2>1
      <3>2. QED
        BY <3>1 DEF Names
    <2>2. \A a \in Names(Told(ch, A, from, to)) : a \in A /\ Spans(ch, a, from, to) # {}
      BY <1>4 DEF Names
    <2>3. QED
      BY <2>1, <2>2
  <1>7. QED
    BY <1>4, <1>5, <1>6

\* Nothing but where the call stands has changed.
LEMMA SameSearch ==
    ASSUME NEW ch, NEW s, NEW r, SearchSound(ch, s), s.stage \in {"slot", "asleep", "call"},
           r.stage \in {"slot", "asleep", "call"},
           r.groups = s.groups, r.ask = s.ask, r.got = s.got, r.kept = s.kept, r.found = s.found,
           r.failed = s.failed
    PROVE  SearchSound(ch, r)
  <1>1. Sought(r) = Sought(s)
    BY DEF Sought
  <1>2. Complete(ch, r)
    BY <1>1 DEF SearchSound, Complete
  <1>3. Windowed(ch, r)
    BY DEF SearchSound, Windowed
  <1>4. QED
    BY <1>2, <1>3 DEF SearchSound

\* The head of a list of groups and the rest of it.
LEMMA HeadGroup ==
    ASSUME NEW gs \in Seq(Groupings), gs # <<>>
    PROVE  /\ 1 \in DOMAIN gs /\ Head(gs) = gs[1] /\ gs[1] \in Groupings /\ Tail(gs) \in Seq(Groupings)
           /\ \A i \in DOMAIN Tail(gs) : i + 1 \in DOMAIN gs /\ Tail(gs)[i] = gs[i + 1]
           /\ \A i \in DOMAIN gs : i = 1 \/ (i - 1 \in DOMAIN Tail(gs) /\ Tail(gs)[i - 1] = gs[i])
  <1>1. Len(gs) \in Nat \ {0} /\ DOMAIN gs = 1 .. Len(gs)
    OBVIOUS
  <1>2. Tail(gs) \in Seq(Groupings) /\ DOMAIN Tail(gs) = 1 .. Len(gs) - 1
        /\ \A i \in 1 .. Len(gs) - 1 : Tail(gs)[i] = gs[i + 1]
    BY <1>1
  <1>3. 1 \in DOMAIN gs /\ Head(gs) = gs[1] /\ gs[1] \in Groupings
    BY <1>1
  <1>4. \A i \in 1 .. Len(gs) - 1 : i + 1 \in 1 .. Len(gs)
    BY <1>1
  <1>5. \A i \in 1 .. Len(gs) : i = 1 \/ (i - 1 \in 1 .. Len(gs) - 1 /\ (i - 1) + 1 = i)
    BY <1>1
  <1>6. QED
    BY <1>1, <1>2, <1>3, <1>4, <1>5

\* The group is over: all it looked for is found, or it looked back far enough, or
\* the search has failed.
LEMMA GroupOver ==
    ASSUME NEW ch \in Past, NEW s \in SearchRecs, NEW r \in SearchRecs, SearchSound(ch, s),
           s.groups # <<>>, r.groups = Tail(s.groups), r.found = s.found \cup s.kept, r.kept = {},
           r.stage = "next",
           \/ r.failed
           \/ r.failed = s.failed /\ (s.groups[1].missing = {} \/ s.groups[1].to <= Floor)
    PROVE  SearchSound(ch, r)
  <1>1. /\ 1 \in DOMAIN s.groups /\ s.groups[1] \in Groupings
        /\ \A i \in DOMAIN r.groups : i + 1 \in DOMAIN s.groups /\ r.groups[i] = s.groups[i + 1]
        /\ \A i \in DOMAIN s.groups : i = 1 \/ (i - 1 \in DOMAIN r.groups
                                               /\ r.groups[i - 1] = s.groups[i])
    <2>1. s.groups \in Seq(Groupings)
      BY DEF SearchRecs
    <2>2. QED
      BY <2>1, HeadGroup
  <1>2. r.found \cup r.kept = s.found \cup s.kept
    OBVIOUS
  <1>3. \A i \in DOMAIN r.groups : Passed(ch, r.groups[i])
    BY <1>1 DEF SearchSound
  <1>4. Complete(ch, r)
    <2>1. SUFFICES ASSUME ~r.failed, NEW a \in Tracked, Spans(ch, a, Floor, Target) # {},
                          a \notin Names(s.found \cup s.kept)
                   PROVE  a \in Sought(r)
      BY <1>2 DEF Complete
    <2>2. a \in Sought(s) /\ (s.groups[1].missing = {} \/ s.groups[1].to <= Floor)
      BY <2>1 DEF SearchSound, Complete
    <2>3. PICK i \in DOMAIN s.groups : a \in s.groups[i].missing
      BY <2>2 DEF Sought
    <2>4. i # 1
      <3>1. SUFFICES ASSUME i = 1 PROVE FALSE
        OBVIOUS
      <3>2. s.groups[1].to <= Floor /\ Spans(ch, a, s.groups[1].to, Target) = {}
        BY <1>1, <2>2, <2>3, <3>1 DEF SearchSound, Passed
      <3>3. PICK n \in ch[a] : Floor <= n /\ n < Target
        BY <2>1 DEF Spans
      <3>4. n \in Nat /\ Floor \in Nat /\ Target \in Nat /\ s.groups[1].to \in Nat
        BY <1>1, <2>1, WindowBounds DEF Past, Groupings
      <3>5. n \in Spans(ch, a, s.groups[1].to, Target)
        BY <3>2, <3>3, <3>4 DEF Spans
      <3>6. QED
        BY <3>2, <3>5
    <2>5. QED
      BY <1>1, <2>3, <2>4 DEF Sought
  <1>5. Windowed(ch, r)
    BY DEF Windowed
  <1>6. QED
    BY <1>2, <1>3, <1>4, <1>5 DEF SearchSound

\* A window is answered for all its accounts.
LEMMA WindowOver ==
    ASSUME NEW ch \in Past, NEW s \in SearchRecs, SearchSound(ch, s),
           s.groups # <<>>, Floor < s.groups[1].to,
           s.got = Told(ch, s.groups[1].missing, From(s.groups[1]), s.groups[1].to)
    PROVE  WindowDone(s) \in SearchRecs /\ SearchSound(ch, WindowDone(s)) /\ WindowDone(s).stage = "next"
  <1> DEFINE g == s.groups[1]
             known == Names(s.got)
             after == [missing |-> g.missing \ known, to |-> From(g), width |-> g.width * Widening]
             r == WindowDone(s)
  <1>1. s.groups \in Seq(Groupings)
    BY DEF SearchRecs
  <1>2. 1 \in DOMAIN s.groups /\ Head(s.groups) = g /\ g \in Groupings
    BY <1>1, HeadGroup
  <1>3. /\ Floor \in Nat /\ 1 <= Floor /\ Target \in Nat
        /\ From(g) \in Nat /\ Floor <= From(g) /\ From(g) <= g.to
        /\ g.to \in 0 .. Target /\ g.missing \in SUBSET Tracked /\ g.width \in Nat
    BY <1>2, WindowBounds DEF Groupings
  <1>4. after \in Groupings
    <2>1. g.width * Widening \in Nat
      BY <1>3 DEF Widening
    <2>2. From(g) \in 0 .. Target
      BY <1>3
    <2>3. QED
      BY <1>3, <2>1, <2>2 DEF Groupings
  <1>5. r = [s EXCEPT !.stage = "next", !.kept = s.kept \cup s.got, !.groups = [s.groups EXCEPT ![1] = after]]
    <2>1. r = [s EXCEPT !.stage = "next", !.kept = @ \cup s.got, !.groups[1] = after]
      BY <1>2 DEF WindowDone, Names
    <2> HIDE DEF after, r
    <2> DEFINE q == [s EXCEPT !.stage = "next", !.kept = s.kept \cup s.got]
    <2>2. r = [q EXCEPT !.groups[1] = after]
      BY <2>1 DEF SearchRecs
    <2>3. q.groups = s.groups /\ DOMAIN q = DOMAIN s /\ "groups" \in DOMAIN s
      BY DEF SearchRecs
    <2>4. [q EXCEPT !.groups = [s.groups EXCEPT ![1] = after]]
          = [s EXCEPT !.stage = "next", !.kept = s.kept \cup s.got,
                      !.groups = [s.groups EXCEPT ![1] = after]]
      BY DEF SearchRecs
    <2> HIDE DEF q
    <2>5. r = [q EXCEPT !.groups = [q.groups EXCEPT ![1] = after]]
      BY <2>2, <2>3
    <2>6. QED
      BY <2>3, <2>4, <2>5
  <1>6. /\ s.got \in SUBSET (Tracked \X Nat)
        /\ known = {a \in g.missing : Spans(ch, a, From(g), g.to) # {}}
        /\ \A v \in s.got : v[1] \in g.missing /\ Spans(ch, v[1], From(g), g.to) # {}
                            /\ v[2] = Max(Spans(ch, v[1], From(g), g.to))
    <2>1. s.got = Told(ch, g.missing, From(g), g.to)
      OBVIOUS
    <2> HIDE DEF g
    <2>2. /\ Told(ch, g.missing, From(g), g.to) \in SUBSET (Tracked \X Nat)
          /\ Names(Told(ch, g.missing, From(g), g.to)) = {a \in g.missing : Spans(ch, a, From(g), g.to) # {}}
          /\ \A v \in Told(ch, g.missing, From(g), g.to) :
                v[1] \in g.missing /\ Spans(ch, v[1], From(g), g.to) # {}
                /\ v[2] = Max(Spans(ch, v[1], From(g), g.to))
      BY <1>3, ToldOf
    <2>3. QED
      BY <2>1, <2>2
  <1> HIDE DEF g, known, after, r
  <1> DEFINE gs == [s.groups EXCEPT ![1] = after]
  <1>7. /\ gs \in Seq(Groupings) /\ DOMAIN gs = DOMAIN s.groups /\ gs[1] = after /\ gs # <<>>
        /\ \A i \in DOMAIN gs : i # 1 => gs[i] = s.groups[i]
    BY <1>1, <1>2, <1>4
  <1> HIDE DEF gs
  <1>8. /\ r \in SearchRecs /\ r.stage = "next" /\ r.groups = gs /\ r.kept = s.kept \cup s.got
        /\ r.found = s.found /\ r.failed = s.failed
    BY <1>5, <1>6, <1>7 DEF SearchRecs, gs
  <1>9. \A a \in g.missing : Spans(ch, a, g.to, Target) = {}
    BY <1>2 DEF SearchSound, Passed, g
  <1>10. \A v \in s.got : ExactVersion(ch, v)
    <2>1. TAKE v \in s.got
    <2>2. v[1] \in Tracked /\ Spans(ch, v[1], From(g), g.to) # {} /\ Spans(ch, v[1], g.to, Target) = {}
          /\ v[2] = Max(Spans(ch, v[1], From(g), g.to))
      BY <1>3, <1>6, <1>9
    <2>3. 1 <= From(g)
      BY <1>3
    <2>4. v[2] = Max(Spans(ch, v[1], 1, Target))
      BY <1>3, <2>2, <2>3, LastAcross
    <2>5. Spans(ch, v[1], Floor, Target) # {}
      <3>1. PICK n \in ch[v[1]] : From(g) <= n /\ n < g.to
        BY <2>2 DEF Spans
      <3>2. n \in Nat
        BY <2>2 DEF Past
      <3>3. n \in Spans(ch, v[1], Floor, Target)
        BY <1>3, <3>1, <3>2 DEF Spans
      <3>4. QED
        BY <3>3
    <2>6. QED
      BY <2>4, <2>5 DEF ExactVersion
  <1>11. Passed(ch, after)
    <2>1. SUFFICES ASSUME NEW a \in g.missing, a \notin known, NEW n \in ch[a], From(g) <= n, n < Target
                   PROVE  FALSE
      BY DEF Passed, Spans, after
    <2>2. n \in Nat
      BY <1>3, <2>1 DEF Past
    <2>3. Spans(ch, a, From(g), g.to) = {} /\ Spans(ch, a, g.to, Target) = {}
      BY <1>6, <1>9, <2>1
    <2>4. ~(n < g.to) /\ ~(g.to <= n)
      BY <2>1, <2>3 DEF Spans
    <2>5. QED
      BY <1>3, <2>2, <2>4
  <1>12. \A i \in DOMAIN gs : Passed(ch, gs[i])
    BY <1>7, <1>11 DEF SearchSound
  <1>13. Complete(ch, r)
    <2>1. SUFFICES ASSUME ~s.failed, NEW a \in Tracked, Spans(ch, a, Floor, Target) # {}
                   PROVE  a \in Names(s.found \cup (s.kept \cup s.got)) \/ a \in Sought(r)
      BY <1>8 DEF Complete
    <2>2. a \in Names(s.found \cup s.kept) \/ a \in Sought(s)
      BY <2>1 DEF SearchSound, Complete
    <2>3. CASE a \in Names(s.found \cup s.kept)
      BY <2>3 DEF Names
    <2>4. CASE a \in Sought(s)
      <3>1. PICK i \in DOMAIN s.groups : a \in s.groups[i].missing
        BY <2>4 DEF Sought
      <3>2. CASE i # 1
        BY <1>7, <1>8, <3>1, <3>2 DEF Sought
      <3>3. CASE i = 1 /\ a \in known
        BY <3>3 DEF known, Names
      <3>4. CASE i = 1 /\ a \notin known
        <4>1. a \in after.missing
          BY <3>1, <3>4 DEF after, g
        <4>2. QED
          BY <1>2, <1>7, <1>8, <4>1 DEF Sought
      <3>5. QED
        BY <3>2, <3>3, <3>4
    <2>5. QED
      BY <2>2, <2>3, <2>4
  <1>14. Windowed(ch, r)
    BY <1>8 DEF Windowed
  <1>15. \A v \in r.found \cup r.kept : ExactVersion(ch, v)
    BY <1>8, <1>10 DEF SearchSound
  <1>16. SearchSound(ch, r)
    BY <1>7, <1>8, <1>12, <1>13, <1>14, <1>15 DEF SearchSound
  <1>17. QED
    BY <1>8, <1>16 DEF r

\* Some of the accounts of the window are answered, and more are to be asked for.
LEMMA BatchSound ==
    ASSUME NEW ch \in Past, NEW s \in SearchRecs, SearchSound(ch, s), s.stage = "call",
           NEW batch \in SUBSET s.ask, NEW r \in SearchRecs,
           r.ask = s.ask \ batch,
           r.got = s.got \cup Told(ch, batch, From(s.groups[1]), s.groups[1].to),
           r.groups = s.groups, r.kept = s.kept, r.found = s.found, r.failed = s.failed,
           r.stage \in {"slot", "call"}
    PROVE  SearchSound(ch, r) /\ r.groups # <<>> /\ Floor < r.groups[1].to
           /\ r.got = Told(ch, r.groups[1].missing \ r.ask, From(r.groups[1]), r.groups[1].to)
  <1> DEFINE g == s.groups[1]
  <1>1. /\ s.groups # <<>> /\ Floor < g.to /\ s.ask \subseteq g.missing
        /\ s.got = Told(ch, g.missing \ s.ask, From(g), g.to)
    BY DEF SearchSound, Windowed
  <1>2. g.missing \ r.ask = (g.missing \ s.ask) \cup batch
    BY <1>1
  <1> HIDE DEF g
  <1>3. r.got = Told(ch, g.missing \ r.ask, From(g), g.to)
    BY <1>1, <1>2, ToldOfBoth DEF g
  <1>4. Sought(r) = Sought(s)
    BY DEF Sought
  <1>5. Complete(ch, r)
    BY <1>4 DEF SearchSound, Complete
  <1>6. Windowed(ch, r)
    BY <1>1, <1>3 DEF Windowed, g
  <1>7. QED
    BY <1>1, <1>3, <1>5, <1>6 DEF SearchSound, g

-----------------------------------------------------------------------------
\* The steps.

\* One search goes on; the chain and the others stay.
LEMMA SearchGoes ==
    ASSUME StreamInv, NEW t \in Searches, NEW r \in SearchRecs, changed' = changed,
           search' = [search EXCEPT ![t] = r], Standing(changed, r)
    PROVE  StreamInv'
  <1>1. search \in [Searches -> SearchRecs]
    BY DEF StreamInv
  <1>2. search' \in [Searches -> SearchRecs]
    BY <1>1
  <1>3. ASSUME NEW u \in Searches PROVE Standing(changed', search'[u])
    <2>1. CASE u = t
      BY <1>1, <2>1
    <2>2. CASE u # t
      BY <1>1, <2>2 DEF StreamInv
    <2>3. QED
      BY <2>1, <2>2
  <1>4. QED
    BY <1>2, <1>3 DEF StreamInv

\* The slot is freed; whoever is woken searches for what it did.
LEMMA FreedGoes ==
    ASSUME StreamInv, NEW t \in Searches, NEW r \in SearchRecs, changed' = changed,
           search[t].stage = "call", Freed(t, r), Standing(changed, r)
    PROVE  StreamInv'
  <1>1. search \in [Searches -> SearchRecs]
    BY DEF StreamInv
  <1>2. CASE search' = [search EXCEPT ![t] = r]
    BY <1>2, SearchGoes
  <1>3. CASE \E u \in Searches : search[u].stage = "asleep" /\ search' = [search EXCEPT ![t] = r, ![u].stage = "slot"]
    <2>1. PICK u \in Searches : search[u].stage = "asleep"
                               /\ search' = [search EXCEPT ![t] = r, ![u].stage = "slot"]
      BY <1>3
    <2> DEFINE q == [search[u] EXCEPT !.stage = "slot"]
    <2>2. u # t
      BY <2>1
    <2>3. search[u] \in SearchRecs
      BY <1>1
    <2>4. /\ q \in SearchRecs /\ q.stage = "slot" /\ q.groups = search[u].groups /\ q.ask = search[u].ask
          /\ q.got = search[u].got /\ q.kept = search[u].kept /\ q.found = search[u].found
          /\ q.failed = search[u].failed
      BY <2>3 DEF SearchRecs
    <2>5. search' = [search EXCEPT ![t] = r, ![u] = q]
      BY <1>1, <2>1, <2>2
    <2> HIDE DEF q
    <2>6. changed \in Past /\ SearchSound(changed, search[u])
      BY <2>1 DEF StreamInv, Standing
    <2>7. Standing(changed, q)
      BY <2>1, <2>4, <2>6, SameSearch DEF Standing
    <2>8. search' \in [Searches -> SearchRecs]
      BY <1>1, <2>4, <2>5
    <2>9. ASSUME NEW v \in Searches PROVE Standing(changed', search'[v])
      <3>1. CASE v = t
        BY <1>1, <2>2, <2>5, <3>1
      <3>2. CASE v = u
        BY <1>1, <2>5, <2>7, <3>2
      <3>3. CASE v # t /\ v # u
        BY <1>1, <2>5, <3>3 DEF StreamInv
      <3>4. QED
        BY <3>1, <3>2, <3>3
    <2>10. QED
      BY <2>8, <2>9 DEF StreamInv
  <1>4. QED
    BY <1>2, <1>3 DEF Freed

\* The record of a search, and one that changes where it stands only.
LEMMA SearchRec ==
    ASSUME StreamInv, NEW t \in Searches
    PROVE  /\ search[t] \in SearchRecs /\ search[t].groups \in Seq(Groupings)
           /\ search[t].stage # "idle" => changed \in Past /\ SearchSound(changed, search[t])
           /\ search[t].stage = "idle" => search[t].found = {} /\ search[t].kept = {}
  <1>1. search[t] \in SearchRecs
    BY DEF StreamInv
  <1>2. Standing(changed, search[t])
    BY DEF StreamInv
  <1>3. QED
    BY <1>1, <1>2 DEF Standing, SearchRecs

\* A chain is chosen: nobody has begun.
LEMMA ChainKeeps == ASSUME StreamInv, NEW ch \in Chains, Chain(ch) PROVE StreamInv'
  <1>1. changed = <<>> /\ changed' = ch /\ search' = search /\ ch \in Past
    BY StreamAssumption DEF Chain, Tracked, Past
  <1>2. ASSUME NEW t \in Searches PROVE Standing(changed', search'[t])
    <2>1. search[t] \in SearchRecs /\ Standing(changed, search[t])
      BY DEF StreamInv
    <2>2. CASE search[t].stage = "idle"
      BY <1>1, <2>1, <2>2 DEF Standing
    <2>3. CASE search[t].stage # "idle"
      <3>1. changed \in Past /\ SearchSound(changed, search[t])
        BY <2>1, <2>3 DEF Standing
      <3>2. Tracked = {}
        BY <1>1, <3>1 DEF Past
      <3>3. changed' = changed
        BY <1>1, <3>2 DEF Past
      <3>4. QED
        BY <1>1, <2>1, <3>3
    <2>4. QED
      BY <2>2, <2>3
  <1>3. QED
    BY <1>1, <1>2 DEF StreamInv

\* A search begins with all its groups.
LEMMA BeginKeeps == ASSUME StreamInv, NEW t \in Searches, Begin(t) PROVE StreamInv'
  <1> DEFINE s == search[t]
             r == [s EXCEPT !.stage = "next", !.groups = Groups]
  <1>1. s \in SearchRecs /\ s.found = {} /\ s.kept = {} /\ changed \in Past
    BY SearchRec DEF Begin, StreamInv
  <1>2. search' = [search EXCEPT ![t] = r] /\ changed' = changed
    BY <1>1 DEF Begin, StreamInv, SearchRecs
  <1>3. Groups \in Seq(Groupings) /\ DOMAIN Groups = 1 .. 2 /\ Groups # <<>>
        /\ Groups[1].missing = Small /\ Groups[2].missing = Large
        /\ Groups[1].to = Target /\ Groups[2].to = Target
    <2>1. Group(Small, FirstSmall) \in Groupings /\ Group(Large, FirstLarge) \in Groupings
      BY StreamAssumption DEF Group, Groupings, Tracked
    <2>2. QED
      BY <2>1 DEF Groups, Group
  <1>4. /\ r \in SearchRecs /\ r.stage = "next" /\ r.groups = Groups /\ r.found = {} /\ r.kept = {}
    BY <1>1, <1>3 DEF SearchRecs
  <1> HIDE DEF s, r
  <1>5. \A i \in DOMAIN r.groups : Passed(changed, r.groups[i])
    <2>1. Target \in Nat /\ \A a \in Tracked : changed[a] \subseteq Nat
      BY <1>1, StreamAssumption DEF Past
    <2>2. \A a \in Tracked : Spans(changed, a, Target, Target) = {}
      BY <2>1 DEF Spans
    <2>3. QED
      BY <1>3, <1>4, <2>2 DEF Passed, Tracked
  <1>6. Complete(changed, r)
    <2>1. \A a \in Tracked : a \in Sought(r)
      BY <1>3, <1>4 DEF Sought, Tracked
    <2>2. QED
      BY <2>1 DEF Complete
  <1>7. SearchSound(changed, r)
    BY <1>3, <1>4, <1>5, <1>6 DEF SearchSound, Windowed
  <1>8. QED
    BY <1>1, <1>2, <1>4, <1>7, SearchGoes DEF Standing

\* The loop: a group is over, or its next window starts.
LEMMA TurnKeeps == ASSUME StreamInv, NEW t \in Searches, Turn(t) PROVE StreamInv'
  <1> DEFINE s == search[t]
  <1>1. s \in SearchRecs /\ s.groups \in Seq(Groupings) /\ changed \in Past
        /\ SearchSound(changed, s) /\ s.stage = "next"
    BY SearchRec DEF Turn
  <1>2. changed' = changed
    BY DEF Turn
  <1>3. CASE s.groups = <<>> /\ search' = [search EXCEPT ![t] = [s EXCEPT !.stage = "over"]]
    <2> DEFINE r == [s EXCEPT !.stage = "over"]
    <2>1. /\ r \in SearchRecs /\ r.stage = "over" /\ r.groups = s.groups /\ r.found = s.found
          /\ r.kept = s.kept /\ r.failed = s.failed
      BY <1>1 DEF SearchRecs
    <2> HIDE DEF r
    <2>2. Sought(r) = Sought(s)
      BY <2>1 DEF Sought
    <2>3. SearchSound(changed, r)
      BY <1>1, <1>3, <2>1, <2>2 DEF SearchSound, Complete, Windowed
    <2>4. QED
      BY <1>1, <1>2, <1>3, <2>1, <2>3, SearchGoes DEF Standing, r
  <1>4. CASE /\ s.groups # <<>> /\ (Head(s.groups).missing = {} \/ Head(s.groups).to <= Floor)
             /\ search' = [search EXCEPT ![t] = NextGroup(s)]
    <2> DEFINE r == NextGroup(s)
    <2>1. Tail(s.groups) \in Seq(Groupings) /\ Head(s.groups) = s.groups[1]
      BY <1>1, <1>4, HeadGroup
    <2>2. /\ r \in SearchRecs /\ r.stage = "next" /\ r.groups = Tail(s.groups)
          /\ r.found = s.found \cup s.kept /\ r.kept = {} /\ r.failed = s.failed
      BY <1>1, <2>1 DEF SearchRecs, NextGroup
    <2> HIDE DEF r
    <2>3. SearchSound(changed, r)
      BY <1>1, <1>4, <2>1, <2>2, GroupOver
    <2>4. QED
      BY <1>1, <1>2, <1>4, <2>2, <2>3, SearchGoes DEF Standing, r
  <1>5. CASE /\ s.groups # <<>> /\ ~(Head(s.groups).to <= Floor)
             /\ search' = [search EXCEPT ![t] = [s EXCEPT !.stage = "slot", !.ask = Head(s.groups).missing,
                                                        !.got = {}]]
    <2> DEFINE r == [s EXCEPT !.stage = "slot", !.ask = Head(s.groups).missing, !.got = {}]
               g == s.groups[1]
    <2>1. Head(s.groups) = g /\ g \in Groupings
      BY <1>1, <1>5, HeadGroup
    <2>2. g.missing \in SUBSET Tracked /\ g.to \in Nat /\ Floor \in Nat
      BY <2>1, WindowBounds DEF Groupings
    <2>3. /\ r \in SearchRecs /\ r.stage = "slot" /\ r.groups = s.groups /\ r.found = s.found
          /\ r.kept = s.kept /\ r.failed = s.failed /\ r.ask = g.missing /\ r.got = {}
      BY <1>1, <2>1, <2>2 DEF SearchRecs
    <2> HIDE DEF r
    <2>4. Floor < g.to
      BY <1>5, <2>1, <2>2
    <2>5. Windowed(changed, r)
      <3>1. r.got = Told(changed, g.missing \ r.ask, From(g), g.to)
        BY <2>3 DEF Told
      <3>2. QED
        BY <1>5, <2>3, <2>4, <3>1 DEF Windowed
    <2>6. Sought(r) = Sought(s)
      BY <2>3 DEF Sought
    <2>7. SearchSound(changed, r)
      BY <1>1, <2>3, <2>5, <2>6 DEF SearchSound, Complete
    <2>8. QED
      BY <1>1, <1>2, <1>5, <2>3, <2>7, SearchGoes DEF Standing, r
  <1>6. QED
    BY <1>3, <1>4, <1>5 DEF Turn

\* A search under way is only moved: it gets its slot or sleeps, or tries again.
LEMMA MovedKeeps ==
    ASSUME StreamInv, NEW t \in Searches, NEW r \in SearchRecs, changed' = changed,
           search' = [search EXCEPT ![t] = r],
           search[t].stage \in {"slot", "call"}, r.stage \in {"slot", "asleep", "call"},
           r.groups = search[t].groups, r.ask = search[t].ask, r.got = search[t].got,
           r.kept = search[t].kept, r.found = search[t].found, r.failed = search[t].failed
    PROVE  StreamInv'
  <1>1. changed \in Past /\ SearchSound(changed, search[t])
    BY SearchRec
  <1>2. SearchSound(changed, r)
    BY <1>1, SameSearch
  <1>3. QED
    BY <1>1, <1>2, SearchGoes DEF Standing

\* It gets a stream slot, or sleeps.
LEMMA AcquireKeeps == ASSUME StreamInv, NEW t \in Searches, Acquire(t) PROVE StreamInv'
  <1> DEFINE s == search[t]
             called == [s EXCEPT !.stage = "call", !.key = 1, !.tries = 0]
             asleep == [s EXCEPT !.stage = "asleep"]
  <1>1. s \in SearchRecs /\ s.stage = "slot" /\ changed' = changed
    BY SearchRec DEF Acquire
  <1>2. search \in [Searches -> SearchRecs]
    BY DEF StreamInv
  <1>3. CASE search' = [search EXCEPT ![t].stage = "call", ![t].key = 1, ![t].tries = 0]
    <2>1. search' = [search EXCEPT ![t] = called]
      BY <1>1, <1>2, <1>3 DEF SearchRecs
    <2>2. /\ called \in SearchRecs /\ called.stage = "call" /\ called.groups = s.groups
          /\ called.ask = s.ask /\ called.got = s.got /\ called.kept = s.kept
          /\ called.found = s.found /\ called.failed = s.failed
      BY <1>1 DEF SearchRecs
    <2> HIDE DEF called
    <2>3. QED
      BY <1>1, <2>1, <2>2, MovedKeeps
  <1>4. CASE search' = [search EXCEPT ![t].stage = "asleep"]
    <2>1. search' = [search EXCEPT ![t] = asleep]
      BY <1>1, <1>2, <1>4 DEF SearchRecs
    <2>2. /\ asleep \in SearchRecs /\ asleep.stage = "asleep" /\ asleep.groups = s.groups
          /\ asleep.ask = s.ask /\ asleep.got = s.got /\ asleep.kept = s.kept
          /\ asleep.found = s.found /\ asleep.failed = s.failed
      BY <1>1 DEF SearchRecs
    <2> HIDE DEF asleep
    <2>3. QED
      BY <1>1, <2>1, <2>2, MovedKeeps
  <1>5. QED
    BY <1>3, <1>4 DEF Acquire

\* The key a search turns to has a number.
LEMMA KeyInNat == ASSUME NEW s \in SearchRecs PROVE KeyOf(s) \in Nat
  <1> DEFINE left == {k \in s.key .. Len(Keys) : Keys[k] \notin backedOff}
  <1>1. s.key \in Nat /\ Len(Keys) \in Nat
    BY StreamAssumption DEF SearchRecs
  <1>2. left \in SUBSET Nat
    BY <1>1
  <1>3. CASE left # {}
    <2>1. PICK i \in left : \A j \in left : i <= j
      <3> HIDE DEF left
      <3>1. QED
        BY <1>2, <1>3, SmallestSlot
    <2>2. Min(left) \in left
      BY <2>1 DEF Min
    <2>3. QED
      BY <1>1, <1>2, <2>2 DEF KeyOf
  <1>4. CASE left = {}
    BY <1>1, <1>4 DEF KeyOf
  <1>5. QED
    BY <1>3, <1>4

\* A call is refused.
LEMMA RefusedKeeps ==
    ASSUME StreamInv, NEW t \in Searches, NEW why, Refused(t, why) PROVE StreamInv'
  <1> DEFINE s == search[t]
             again == s.tries < LimitRetries /\ why # "quota"
             k == KeyOf(s)
             key == IF again THEN k ELSE k + 1
             tries == IF ~again THEN 0 ELSE IF why = "limit" THEN s.tries + 1 ELSE LimitRetries
             r == [s EXCEPT !.key = key, !.tries = tries]
  <1>1. s \in SearchRecs /\ s.stage = "call" /\ changed' = changed
    BY SearchRec DEF Refused
  <1>2. search \in [Searches -> SearchRecs]
    BY DEF StreamInv
  <1>3. k \in Nat /\ LimitRetries \in Nat /\ s.tries \in Nat
    BY <1>1, KeyInNat, StreamAssumption DEF SearchRecs
  <1> HIDE DEF k, again
  <1>4. key \in Nat /\ tries \in Nat
    BY <1>3
  <1>5. search' = [search EXCEPT ![t].key = key, ![t].tries = tries]
    BY DEF Refused, k, again
  <1> HIDE DEF key, tries
  <1>6. search' = [search EXCEPT ![t] = r]
    BY <1>1, <1>2, <1>5 DEF SearchRecs
  <1>7. /\ r \in SearchRecs /\ r.stage = "call" /\ r.groups = s.groups
        /\ r.ask = s.ask /\ r.got = s.got /\ r.kept = s.kept
        /\ r.found = s.found /\ r.failed = s.failed
    BY <1>1, <1>4 DEF SearchRecs
  <1> HIDE DEF r
  <1>8. QED
    BY <1>1, <1>6, <1>7, MovedKeeps

\* No key is left: the group is over, and the search is known to have failed.
LEMMA OutOfKeysKeeps == ASSUME StreamInv, NEW t \in Searches, OutOfKeys(t) PROVE StreamInv'
  <1> DEFINE s == search[t]
             r == [NextGroup(s) EXCEPT !.stage = "next", !.failed = TRUE]
  <1>1. s \in SearchRecs /\ s.groups \in Seq(Groupings) /\ s.stage = "call" /\ changed' = changed
        /\ changed \in Past /\ SearchSound(changed, s) /\ s.groups # <<>>
    BY SearchRec DEF OutOfKeys, SearchSound, Windowed
  <1>2. Tail(s.groups) \in Seq(Groupings)
    BY <1>1, HeadGroup
  <1>3. /\ r \in SearchRecs /\ r.stage = "next" /\ r.groups = Tail(s.groups)
        /\ r.found = s.found \cup s.kept /\ r.kept = {} /\ r.failed
    BY <1>1, <1>2 DEF SearchRecs, NextGroup
  <1>4. Freed(t, r)
    BY DEF OutOfKeys
  <1> HIDE DEF r
  <1>5. SearchSound(changed, r)
    BY <1>1, <1>3, GroupOver
  <1>6. QED
    BY <1>1, <1>3, <1>4, <1>5, FreedGoes DEF Standing

\* A batch is answered, perhaps the window's last.
LEMMA StreamedKeeps == ASSUME StreamInv, NEW t \in Searches, Streamed(t) PROVE StreamInv'
  <1> DEFINE s == search[t]
             g == s.groups[1]
  <1>1. s \in SearchRecs /\ s.groups \in Seq(Groupings) /\ s.stage = "call" /\ changed' = changed
        /\ changed \in Past /\ SearchSound(changed, s)
        /\ s.groups # <<>> /\ s.ask \subseteq g.missing
    BY SearchRec DEF Streamed, SearchSound, Windowed
  <1>2. Head(s.groups) = g /\ g \in Groupings
    BY <1>1, HeadGroup
  <1>3. PICK batch \in SUBSET s.ask :
          LET q == [s EXCEPT !.ask = @ \ batch, !.got = @ \cup Answer(batch, From(g), g.to)]
          IN  Freed(t, IF s.ask = batch THEN WindowDone(q) ELSE [q EXCEPT !.stage = "slot"])
    BY <1>2 DEF Streamed
  <1> DEFINE q == [s EXCEPT !.ask = @ \ batch, !.got = @ \cup Answer(batch, From(g), g.to)]
             p == [q EXCEPT !.stage = "slot"]
  <1>4. Answer(batch, From(g), g.to) = Told(changed, batch, From(g), g.to)
    BY DEF Answer, ChangesIn, Told, Spans
  <1>5. Answer(batch, From(g), g.to) \in SUBSET (Tracked \X Nat)
    <2>1. batch \in SUBSET Tracked /\ From(g) \in Nat /\ g.to \in 0 .. Target
      BY <1>1, <1>2, WindowBounds DEF Groupings
    <2> HIDE DEF g
    <2>2. Told(changed, batch, From(g), g.to) \in SUBSET (Tracked \X Nat)
      BY <1>1, <2>1, ToldOf
    <2>3. QED
      BY <1>4, <2>2
  <1> DEFINE answer == Answer(batch, From(g), g.to)
  <1> HIDE DEF answer
  <1>6. q = [s EXCEPT !.ask = s.ask \ batch, !.got = s.got \cup answer]
    BY DEF answer
  <1>7. /\ q \in SearchRecs /\ q.stage = "call" /\ q.ask = s.ask \ batch /\ q.got = s.got \cup answer
        /\ q.groups = s.groups /\ q.kept = s.kept /\ q.found = s.found /\ q.failed = s.failed
    <2>1. s.ask \ batch \in SUBSET Tracked /\ s.got \cup answer \in SUBSET (Tracked \X Nat)
      BY <1>1, <1>5 DEF SearchRecs, answer
    <2> HIDE DEF q
    <2>2. QED
      BY <1>1, <1>6, <2>1 DEF SearchRecs
  <1>8. answer = Told(changed, batch, From(s.groups[1]), s.groups[1].to)
    BY <1>4 DEF answer
  <1> HIDE DEF q, g, s
  <1>9. CASE s.ask = batch
    <2>1. SearchSound(changed, q) /\ q.groups # <<>> /\ Floor < q.groups[1].to
          /\ q.got = Told(changed, q.groups[1].missing \ q.ask, From(q.groups[1]), q.groups[1].to)
      BY <1>1, <1>7, <1>8, BatchSound
    <2>2. q.groups[1].missing \ q.ask = q.groups[1].missing
      BY <1>7, <1>9
    <2>3. WindowDone(q) \in SearchRecs /\ SearchSound(changed, WindowDone(q)) /\ WindowDone(q).stage = "next"
      BY <1>1, <1>7, <2>1, <2>2, WindowOver
    <2>4. Freed(t, WindowDone(q))
      BY <1>3, <1>9 DEF q, s
    <2>5. PICK r \in SearchRecs : r = WindowDone(q)
      BY <2>3
    <2>6. QED
      BY <1>1, <2>3, <2>4, <2>5, FreedGoes DEF Standing, s
  <1>10. CASE s.ask # batch
    <2>1. /\ p \in SearchRecs /\ p.stage = "slot" /\ p.ask = s.ask \ batch /\ p.got = s.got \cup answer
          /\ p.groups = s.groups /\ p.kept = s.kept /\ p.found = s.found /\ p.failed = s.failed
      BY <1>7 DEF SearchRecs
    <2>2. Freed(t, p)
      BY <1>3, <1>10 DEF q, s
    <2> HIDE DEF p
    <2>3. SearchSound(changed, p)
      BY <1>1, <1>8, <2>1, BatchSound
    <2>4. QED
      BY <1>1, <2>1, <2>2, <2>3, FreedGoes DEF Standing, s
  <1>11. QED
    BY <1>9, <1>10

\* Every step keeps it.
LEMMA StreamStepInv == StreamInv /\ [StreamNext]_streamVars => StreamInv'
  <1> SUFFICES ASSUME StreamInv, [StreamNext]_streamVars PROVE StreamInv'
    OBVIOUS
  <1>1. CASE UNCHANGED <<changed, search>>
    BY <1>1 DEF StreamInv
  <1>2. CASE \E ch \in Chains : Chain(ch)
    BY <1>2, ChainKeeps
  <1>3. CASE \E t \in Searches : SearchStep(t)
    BY <1>3, BeginKeeps, TurnKeeps, AcquireKeeps, StreamedKeeps, OutOfKeysKeeps, RefusedKeeps
       DEF SearchStep
  <1>4. QED
    BY <1>1, <1>2, <1>3 DEF StreamNext, streamVars, KeyBack

\* What the run checks follows.
LEMMA InvSearch == StreamInv => SearchExact
  <1> SUFFICES ASSUME StreamInv, NEW t \in Searches, search[t].stage = "over"
               PROVE  /\ \A v \in search[t].found : v[2] = Max(ChangesIn(v[1], 1, Target))
                      /\ ~search[t].failed => {v[1] : v \in search[t].found}
                            = {a \in Tracked : ChangesIn(a, Floor, Target) # {}}
    BY DEF SearchExact
  <1> DEFINE s == search[t]
  <1>1. s \in SearchRecs /\ SearchSound(changed, s) /\ s.stage = "over"
    BY SearchRec
  <1>2. s.groups = <<>> /\ s.kept = {} /\ Sought(s) = {}
    BY <1>1 DEF SearchSound, Sought
  <1>3. \A a, from, to : ChangesIn(a, from, to) = Spans(changed, a, from, to)
    BY DEF ChangesIn, Spans
  <1>4. \A v \in s.found : ExactVersion(changed, v)
    BY <1>1 DEF SearchSound
  <1>5. \A v \in s.found : v[1] \in Tracked
    BY <1>1 DEF SearchRecs
  <1> HIDE DEF s
  <1>6. \A v \in s.found : v[2] = Max(ChangesIn(v[1], 1, Target))
    BY <1>3, <1>4 DEF ExactVersion
  <1>7. Names(s.found) \subseteq {a \in Tracked : ChangesIn(a, Floor, Target) # {}}
    BY <1>3, <1>4, <1>5 DEF ExactVersion, Names
  <1>8. ASSUME ~s.failed, NEW a \in Tracked, ChangesIn(a, Floor, Target) # {} PROVE a \in Names(s.found)
    <2>1. s.found \cup s.kept = s.found
      BY <1>2
    <2>2. QED
      BY <1>1, <1>2, <1>3, <1>8, <2>1 DEF SearchSound, Complete
  <1>9. QED
    BY <1>6, <1>7, <1>8 DEF Names, s

\* At first nobody searches.
LEMMA StreamStart == StreamInit => StreamInv
  <1> SUFFICES ASSUME StreamInit PROVE StreamInv
    OBVIOUS
  <1> DEFINE r == [stage |-> "idle", groups |-> <<>>, ask |-> {}, got |-> {}, kept |-> {},
                   found |-> {}, key |-> 1, tries |-> 0, failed |-> FALSE]
  <1>1. search = [t \in Searches |-> r] /\ changed = <<>>
    BY DEF StreamInit
  <1>2. r \in SearchRecs /\ r.stage = "idle" /\ r.found = {} /\ r.kept = {}
    BY DEF SearchRecs
  <1> HIDE DEF r
  <1>3. QED
    BY <1>1, <1>2 DEF StreamInv, Standing

\* For any accounts, any past of theirs, any windows, batches and keys, and whatever
\* is refused: a version that a search of the stream found is the last change of its
\* account before the target, and a search that met no failure found every account
\* that changed within the look-back (latest_before_sized).
THEOREM SearchCorrect == StreamInit /\ [][StreamNext]_streamVars => []SearchExact
  <1>1. StreamInit /\ [][StreamNext]_streamVars => []StreamInv
    BY StreamStart, StreamStepInv, PTL
  <1>2. QED
    BY <1>1, InvSearch, PTL

=============================================================================
