---------------------------- MODULE VersionChain ----------------------------
(***************************************************************************)
(* One account's log as svmScope encodes it (src/src/records.rs): a chain  *)
(* of records, each a full snapshot, a diff against the record before it,  *)
(* or the mark of an absent account; and the index over it.                *)
(*                                                                         *)
(* Data abstraction: a state is a sequence of cells; lamports and owner    *)
(* ride with it, since a diff carries both whole.  An offset in the file   *)
(* is the number of records before it, as if all records were equally      *)
(* long, so an offset that is off reads another record rather than noise.  *)
(***************************************************************************)
EXTENDS Naturals, SequencesExt

CONSTANTS
    Absent,         \* no account at the address
    Bad,            \* what a read gives that errors, or decodes noise
    FullEvery       \* FULL_EVERY

ASSUME ChainAssumption ==
    /\ FullEvery \in Nat
    /\ Absent # Bad

Kinds == {"full", "diff", "absent"}

\* changed_ranges
Changed(old, new) == {c \in DOMAIN new : old[c] # new[c]}

\* encode_diff gives None unless both are as long and under half is changed.
WorthDiff(base, s) ==
    /\ Len(base) = Len(s)
    /\ 2 * Cardinality(Changed(base, s)) < Len(s)

Payload(kind, base, s) ==
    CASE kind = "absent" -> <<>>
      [] kind = "full"   -> s
      [] kind = "diff"   -> [c \in Changed(base, s) |-> s[c]]

\* How state s is written after base, sinceFull records after a full one.
KindOf(s, base, sinceFull) ==
    IF s = Absent THEN "absent"
    ELSE IF base # Absent /\ sinceFull < FullEvery /\ WorthDiff(base, s)
         THEN "diff"
         ELSE "full"

\* mutant: the balance-unknown flag is never set
EncodedObserved(slot, s, base, sinceFull, known) ==
    LET kind == KindOf(s, base, sinceFull)
    IN  [slot |-> slot, kind |-> kind, pay |-> Payload(kind, base, s),
         known |-> TRUE, torn |-> FALSE]

Encoded(slot, s, base, sinceFull, known) ==
    LET kind == KindOf(s, base, sinceFull)
    IN  [slot |-> slot, kind |-> kind, pay |-> Payload(kind, base, s),
         known |-> known \/ kind = "absent", torn |-> FALSE]

\* decode_full and apply_diff: what a payload of a kind gives after base.
Decoded(kind, pay, base) ==
    CASE base = Bad -> Bad
      [] base # Bad /\ kind = "absent" -> Absent
      [] base # Bad /\ kind = "full" -> pay
      [] base # Bad /\ kind = "diff" ->
            IF base = Absent \/ ~(DOMAIN pay \subseteq DOMAIN base) THEN Bad
            ELSE [c \in DOMAIN base |->
                    IF c \in DOMAIN pay THEN pay[c] ELSE base[c]]

-----------------------------------------------------------------------------
(* Files and indexes.  An entry is what index_of keeps of one record.      *)

Entry(r, pos) == [slot |-> r.slot, kind |-> r.kind, known |-> r.known, pos |-> pos]

\* mutant: a torn tail is indexed like any record
IndexWithTorn(file) == [p \in DOMAIN file |-> Entry(file[p], p)]

\* index_of: a torn record at the end is left out.  One with records after
\* it swallows their first bytes as its payload, and the scan is lost.
IndexOf(file) ==
    LET torn == {p \in DOMAIN file : file[p].torn}
        readable == {p \in DOMAIN file :
                        /\ \A q \in torn : p <= q
                        /\ p \in torn => p < Len(file)}
    IN  [p \in readable |-> Entry(file[p], p)]

\* The bytes of entry e in a file are a payload of e's kind, or noise.
HoldsEntry(file, e) ==
    /\ e.pos \in DOMAIN file
    /\ file[e.pos].kind = e.kind
    /\ ~file[e.pos].torn

DecodedAt(file, e, base) ==
    IF HoldsEntry(file, e) THEN Decoded(e.kind, file[e.pos].pay, base) ELSE Bad

\* What the entries from start to pos decode to, one after the other.
StatesFrom(idx, file, start, pos) ==
    LET state[p \in start - 1 .. pos] ==
            IF p < start THEN Absent ELSE DecodedAt(file, idx[p], state[p - 1])
    IN  state

\* for_each_version: every version of the file in order.
Versions(file) ==
    LET idx == IndexOf(file)
        state == StatesFrom(idx, file, 1, Len(idx))
    IN  [p \in 1 .. Len(idx) |-> [slot |-> idx[p].slot, val |-> state[p]]]

\* ChainWriter: a chain of the given versions that stands on its own.  The
\* balance-unknown flag is not written.
Prev(versions, p) == IF p = 1 THEN Absent ELSE versions[p - 1].val

SinceFull(versions) ==
    LET since[p \in 0 .. Len(versions)] ==
            IF p = 0 THEN 0
            ELSE IF KindOf(versions[p].val, Prev(versions, p), since[p - 1]) = "full"
                 THEN 0 ELSE since[p - 1] + 1
    IN  since

ChainOf(versions) ==
    [p \in 1 .. Len(versions) |->
        Encoded(versions[p].slot, versions[p].val, Prev(versions, p),
                SinceFull(versions)[p - 1], TRUE)]

-----------------------------------------------------------------------------
(* Lookups.                                                                *)

\* mutant: strictly before
StrictlyBefore(idx, slot) == {p \in DOMAIN idx : idx[p].slot < slot}

Before(idx, slot) == {p \in DOMAIN idx : idx[p].slot <= slot}

\* mutant: the walk goes back one diff only
StartNear(idx, pos) ==
    LET starts == {p \in 1 .. pos : p \in {1, pos - 1} \/ idx[p].kind # "diff"}
    IN  Max(starts)

\* The full (or absent) record the diffs up to pos rest on.
StartOf(idx, pos) ==
    LET starts == {p \in 1 .. pos : p = 1 \/ idx[p].kind # "diff"}
    IN  Max(starts)

\* version_at, with the index as read and the file as read after it.
VersionAt(idx, file, slot) ==
    LET pos == Max(Before(idx, slot))
        target == idx[pos]
    IN  IF Before(idx, slot) = {} THEN [slot |-> 0, val |-> Absent, known |-> TRUE]
        ELSE IF target.kind = "absent"
        THEN [slot |-> target.slot, val |-> Absent, known |-> TRUE]
        ELSE [slot |-> target.slot, known |-> target.known,
              val |-> StatesFrom(idx, file, StartOf(idx, pos), pos)[pos]]

\* How many diffs the log ends with: since_full of record_with_balance.
TrailingDiffs(idx) ==
    Cardinality({p \in DOMAIN idx :
                    \A q \in p .. Len(idx) : idx[q].kind = "diff"})

-----------------------------------------------------------------------------
(* Chains made of versions.                                                *)

SlotsIn(versions) == {versions[p].slot : p \in DOMAIN versions}

\* The numbers of S in ascending order.
Ascending(S) ==
    CHOOSE q \in [1 .. Cardinality(S) -> S] :
        \A i, j \in 1 .. Cardinality(S) : i < j => q[i] < q[j]

\* Versions as a log has them: by slot, of each slot one.
InOrder(V) ==
    LET at == Ascending({v.slot : v \in V})
    IN  [p \in DOMAIN at |-> CHOOSE v \in V : v.slot = at[p]]

\* import_pack's overlap: two chains walked in slot order, the version already
\* here standing in a tie.
Merged(here, there) ==
    InOrder(ToSet(here) \cup {v \in ToSet(there) : v.slot \notin SlotsIn(here)})
=============================================================================
