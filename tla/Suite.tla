------------------------------- MODULE Suite -------------------------------
(***************************************************************************)
(* What-if suites: run_suite of src/src/replay.rs with everything it calls *)
(* and the scenarios of src/src/check.rs and src/src/spec.rs.  Every       *)
(* mutation of every scenario is validated, alone and against the loaded   *)
(* world, before anything runs; then each scenario prepares a fresh SVM    *)
(* and the transaction its instruction mutations ask for, sends it, and    *)
(* judges what came out.                                                   *)
(*                                                                         *)
(* An account's data is a sequence of bytes, a byte one of 0 .. Base - 1;  *)
(* a word, what a u64 is to the code, is WordSize of them.  The runtime is *)
(* a parameter.                                                            *)
(***************************************************************************)
EXTENDS Integers, FiniteSets, SequencesExt

CONSTANTS
    Base, WordSize,
    World,           \* the loaded world: address -> a data account, or Program
    Program,
    Layout,          \* owner -> its account's fields, as a set
    LastSegment(_),  \* the part of a field's name behind its last dot
    Ixs,             \* the transaction's top-level instructions: op and data
    ArgSpan(_, _),   \* the IDL: where an op keeps an argument, or NoArg
    NoArg,
    Execute(_, _),   \* Execute(ixs, svm): [ok, error, units, post]
    Landed,          \* the recorded outcome: "success", "failure", "unknown"
    NotAddresses,    \* what does not parse as an address
    WhatIfs,         \* the mutations a suite may list
    Tests,           \* the checks it may list
    Expected,        \* what its scenarios may expect
    MaxPieces        \* bound: what a suite is made of

ASSUME SuiteAssumption ==
    /\ Base \in Nat \ {0, 1} /\ WordSize \in Nat \ {0}
    /\ Ixs # <<>> /\ MaxPieces \in Nat
    /\ Landed \in {"success", "failure", "unknown"}

VARIABLES
    scenarios,   \* the suite as written so far
    stage,       \* "writing", "checking", "running", or how it ended
    current,     \* the scenario being checked or run
    ran,         \* of every scenario that ran: start, instructions, result
    verdicts     \* and whether it passed
suiteVars == <<scenarios, stage, current, ran, verdicts>>

Data(a) == a \in DOMAIN World /\ World[a] # Program

(***************************************************************************)
(* Fields by name.                                                         *)
(***************************************************************************)
\* find_field: the exact name, else every field with that last segment.
FieldsNamed(fields, name) ==
    IF \E f \in fields : f.name = name THEN {f \in fields : f.name = name}
    ELSE {f \in fields : LastSegment(f.name) = LastSegment(name)}

\* decode_pre and find_field: the one field meant, or none.
Meant(a, name) ==
    IF ~Data(a) \/ World[a].owner \notin DOMAIN Layout THEN {}
    ELSE LET hits == FieldsNamed(Layout[World[a].owner], name)
         IN  IF Cardinality(hits) = 1 THEN hits ELSE {}

\* encode_field_value: the values a field's declared type takes.
Fits(f, v) ==
    CASE f.type = "bool" -> v \in {0, 1}
      [] f.type \in {"unsigned", "wide"} -> v \in 0..Base^f.size - 1
      [] f.type = "signed" -> 2 * v >= -(Base^f.size) /\ 2 * v < Base^f.size
      [] OTHER -> FALSE

\* int_bytes: little endian, two's complement.
IntBytes(v, n) == [i \in 1..n |-> (v \div Base^(i - 1)) % Base]

Unsigned(bytes) == FoldRight(LAMBDA b, acc : b + Base * acc, bytes, 0)

\* read_field_int: what can be compared as a number, and that number.
Readable(data, f) ==
    f.offset + f.size <= Len(data) /\ f.type \in {"bool", "unsigned", "signed"}
ReadInt(data, f) ==
    LET u == Unsigned(SubSeq(data, f.offset + 1, f.offset + f.size))
    IN  CASE f.type = "bool" -> IF data[f.offset + 1] # 0 THEN 1 ELSE 0
          [] f.type = "signed" /\ 2 * u >= Base^f.size -> u - Base^f.size
          [] OTHER -> u

\* field_bytes: an optional field's flag counts.
Span(f) == IF f.type = "optional" THEN f.size + 1 ELSE f.size
FieldBytes(data, f) == SubSeq(data, f.offset + 1, f.offset + Span(f))

\* read_u64_at: a word, or zero where there is none.
WordAt(data, offset) ==
    IF offset + WordSize > Len(data) THEN 0
    ELSE Unsigned(SubSeq(data, offset + 1, offset + WordSize))

(***************************************************************************)
(* Mutations.                                                              *)
(***************************************************************************)
Bad == [kind |-> "bad"]
OnInstruction(m) == m.kind \in {"ixarg", "ixdata", "skip", "replace", "move"}

Overwritten(data, offset, bytes) ==
    [i \in DOMAIN data |->
        IF i - offset \in DOMAIN bytes THEN bytes[i - offset] ELSE data[i]]

ResolvedField(m) ==
    LET hits == Meant(m.address, m.field)
    IN  IF \E f \in hits : Fits(f, m.value)
        THEN LET f == CHOOSE f \in hits : TRUE
             IN  [kind |-> "patch", address |-> m.address, offset |-> f.offset,
                  bytes |-> IntBytes(m.value, f.size)]
        ELSE Bad

ResolvedArg(m) ==
    IF m.index >= Len(Ixs) THEN Bad
    ELSE LET span == ArgSpan(Ixs[m.index + 1].op, m.arg)
         IN  IF span = NoArg THEN Bad
             ELSE IF m.value \notin 0..Base^span.size - 1 THEN Bad
             ELSE [kind |-> "ixdata", index |-> m.index, offset |-> span.offset,
                   bytes |-> IntBytes(m.value, span.size)]

\* resolve_mutation: against the world and the transaction as they were loaded.
Resolve(m) ==
    CASE m.kind = "field" -> ResolvedField(m)
      [] m.kind = "ixarg" -> ResolvedArg(m)
      [] OTHER -> m

\* An edit of one instruction's data; <<>> stands for the error.
Edited(ixs, m) ==
    IF ixs = <<>> \/ m.kind \notin {"ixdata", "replace"} THEN ixs
    ELSE IF m.index >= Len(ixs) THEN <<>>
    ELSE IF m.kind = "replace" THEN [ixs EXCEPT ![m.index + 1].data = m.bytes]
    ELSE IF m.offset + Len(m.bytes) > Len(ixs[m.index + 1].data) THEN <<>>
    ELSE [ixs EXCEPT ![m.index + 1].data = Overwritten(@, m.offset, m.bytes)]

Skipping(ms) == {ms[i].index : i \in {j \in DOMAIN ms : ms[j].kind = "skip"}}

Skipped(ixs, gone) ==
    IF gone = {} THEN ixs
    ELSE IF ~(gone \subseteq 0..Len(ixs) - 1) \/ Cardinality(gone) >= Len(ixs) THEN <<>>
    ELSE LET kept == SetToSortSeq(DOMAIN ixs \ {g + 1 : g \in gone}, <)
         IN  [i \in DOMAIN kept |-> ixs[kept[i]]]

Moved(ixs, m) ==
    IF ixs = <<>> \/ m.kind # "move" THEN ixs
    ELSE IF m.from >= Len(ixs) \/ m.to >= Len(ixs) THEN <<>>
    ELSE InsertAt(RemoveAt(ixs, m.from + 1), m.to + 1, ixs[m.from + 1])

\* The landed instructions, each with where it stood.
Original == [i \in DOMAIN Ixs |-> [op |-> Ixs[i].op, data |-> Ixs[i].data, origin |-> i - 1]]

\* mutant: instructions are left out before the data edits
TxSkippingFirst(ms) ==
    FoldLeft(Moved, FoldLeft(Edited, Skipped(Original, Skipping(ms)), ms), ms)

\* tx_with_mutations: data edits in the order listed, at original positions;
\* then the instructions left out; then the moves, as the rest now stands.
TxWith(ms) ==
    LET edited == FoldLeft(Edited, Original, ms)
    IN  IF edited = <<>> THEN <<>>
        ELSE FoldLeft(Moved, Skipped(edited, Skipping(ms)), ms)

\* A fresh SVM: the loaded accounts.
FreshSvm == [a \in DOMAIN World |->
    IF Data(a) THEN World[a] ELSE [lamports |-> 1, data |-> <<>>, owner |-> "loader"]]

\* set_account: one without lamports is no account.
Store(svm, a, acc) ==
    [b \in {c \in DOMAIN svm : c # a \/ acc.lamports > 0} |-> IF b = a THEN acc ELSE svm[b]]

\* apply_mutation; the world without accounts stands for the error.
Applied(svm, m) ==
    IF OnInstruction(m) THEN svm
    ELSE IF m.address \notin DOMAIN svm THEN <<>>
    ELSE LET acc == svm[m.address]
         IN  CASE m.kind = "lamports" -> Store(svm, m.address, [acc EXCEPT !.lamports = m.value])
               [] m.kind = "data" -> Store(svm, m.address, [acc EXCEPT !.data = m.bytes])
               [] m.kind = "patch" ->
                    IF m.offset + Len(m.bytes) > Len(acc.data) THEN <<>>
                    ELSE Store(svm, m.address, [acc EXCEPT !.data = Overwritten(@, m.offset, m.bytes)])
               [] m.kind = "owner" ->
                    IF m.owner \in NotAddresses THEN <<>>
                    ELSE Store(svm, m.address, [acc EXCEPT !.owner = m.owner])

\* mutant: a patch is compared with the start of the data only
ValidUnbounded(m) ==
    LET r == Resolve(m)
    IN  IF OnInstruction(m) THEN r # Bad /\ TxWith(<<r>>) # <<>>
        ELSE m.address \notin NotAddresses /\ m.address \in DOMAIN World /\ r # Bad

\* validate_mutations, for one: it is tried against the world and the
\* transaction as loaded, not as the ones before it leave them.
Valid(m) ==
    LET r == Resolve(m)
    IN  IF OnInstruction(m) THEN r # Bad /\ TxWith(<<r>>) # <<>>
        ELSE /\ m.address \notin NotAddresses /\ m.address \in DOMAIN World
             /\ r # Bad
             /\ r.kind = "patch" =>
                  r.offset + Len(r.bytes) <= IF Data(m.address) THEN Len(World[m.address].data)
                                             ELSE 0

(***************************************************************************)
(* What came out.                                                          *)
(***************************************************************************)
\* Expect::matches
Matches(expect, result) ==
    CASE expect = "success" -> result.ok
      [] expect = "revert" -> ~result.ok
      [] expect = "any" -> TRUE
      [] OTHER -> ~result.ok /\ result.error = expect

\* CmpOp::test_i128
Holds(op, a, b) ==
    CASE op = "eq" -> a = b
      [] op = "ne" -> a # b
      [] op = "ge" -> a >= b
      [] op = "le" -> a <= b

Lamports(svm, a) == IF a \in DOMAIN svm THEN svm[a].lamports ELSE 0
Word(svm, a, offset) == IF a \in DOMAIN svm THEN WordAt(svm[a].data, offset) ELSE 0

\* mutant: a change is measured from the account as it was loaded
PreLoaded(start, a) == IF Data(a) THEN [x \in {a} |-> World[a]] ELSE <<>>

\* loaded_state_of, pre_of: where the run started from; an account that has no
\* copy there is taken as loaded.
Pre(start, a) ==
    IF ~Data(a) THEN <<>>
    ELSE [x \in {a} |-> IF a \in DOMAIN start THEN start[a] ELSE World[a]]

\* AccountAssert::eval on a field that both states must hold.
FieldHolds(t, f, start, post) ==
    LET pre == Pre(start, t.address)
        data == post[t.address].data
    IN  /\ t.address \in DOMAIN post
        /\ CASE t.kind = "field" -> Readable(data, f) /\ Holds(t.op, ReadInt(data, f), t.value)
             [] t.kind = "field_delta" ->
                  /\ Readable(data, f) /\ Readable(pre[t.address].data, f)
                  /\ Holds(t.op, ReadInt(data, f) - ReadInt(pre[t.address].data, f), t.value)
             [] t.kind = "unchanged" ->
                  /\ f.offset + Span(f) <= Len(data)
                  /\ f.offset + Span(f) <= Len(pre[t.address].data)
                  /\ FieldBytes(data, f) = FieldBytes(pre[t.address].data, f)

\* mutant: an address that is nowhere reads as an empty account
HoldsAnywhere(t, start, post) ==
    LET a == t.address
    IN  CASE t.kind = "lamports" -> Holds(t.op, Lamports(post, a), t.value)
          [] t.kind = "lamports_delta" ->
               Holds(t.op, Lamports(post, a) - Lamports(Pre(start, a), a), t.value)
          [] t.kind = "word" ->
               /\ a \in DOMAIN post /\ t.offset + WordSize <= Len(post[a].data)
               /\ Holds(t.op, WordAt(post[a].data, t.offset), t.value)
          [] t.kind = "word_delta" ->
               Holds(t.op, Word(post, a, t.offset) - Word(Pre(start, a), a, t.offset), t.value)
          [] OTHER -> \E f \in Meant(a, t.field) : FieldHolds(t, f, start, post)

\* AccountAssert::eval: an error is a failed assertion.
AccountHolds(t, start, post) ==
    LET a == t.address
    IN  /\ a \in DOMAIN post \cup DOMAIN World
        /\ CASE t.kind = "lamports" -> Holds(t.op, Lamports(post, a), t.value)
             [] t.kind = "lamports_delta" ->
                  Holds(t.op, Lamports(post, a) - Lamports(Pre(start, a), a), t.value)
             [] t.kind = "word" ->
                  /\ a \in DOMAIN post /\ t.offset + WordSize <= Len(post[a].data)
                  /\ Holds(t.op, WordAt(post[a].data, t.offset), t.value)
             [] t.kind = "word_delta" ->
                  Holds(t.op, Word(post, a, t.offset) - Word(Pre(start, a), a, t.offset), t.value)
             [] OTHER -> \E f \in Meant(a, t.field) : FieldHolds(t, f, start, post)

TestHolds(t, start, result) ==
    CASE t.kind = "onchain" -> Landed # "unknown" /\ result.ok = (Landed = "success")
      [] t.kind = "log" -> result.error = t.text
      [] t.kind = "units" -> Holds(t.op, result.units, t.value)
      [] OTHER -> AccountHolds(t, start, result.post)

\* run_suite: the verdict of one scenario.  One that expects nothing expects
\* success, unless it asks for the landed outcome.
Verdict(s, start, result) ==
    LET asksLanded == \E i \in DOMAIN s.tests : s.tests[i].kind = "onchain"
        expect == IF s.expect # "nothing" THEN s.expect
                  ELSE IF asksLanded THEN "any" ELSE "success"
    IN  /\ Matches(expect, result)
        /\ \A i \in DOMAIN s.tests : TestHolds(s.tests[i], start, result)

(***************************************************************************)
(* A suite, from its writing to its answer.                                *)
(***************************************************************************)
SuiteInit ==
    /\ scenarios = <<>> /\ stage = "writing" /\ current = 1
    /\ ran = <<>> /\ verdicts = <<>>

Pieces ==
    FoldLeft(LAMBDA n, s : n + 1 + Len(s.whatifs) + Len(s.tests)
                             + IF s.expect = "nothing" THEN 0 ELSE 1, 0, scenarios)
MayAdd(n) == stage = "writing" /\ Pieces + n <= MaxPieces
Listed == Len(scenarios)

\* Scenario::new, or one of a suite file.
AddScenario(expect) ==
    /\ MayAdd(IF expect = "nothing" THEN 1 ELSE 2)
    /\ scenarios' = Append(scenarios, [expect |-> expect, whatifs |-> <<>>, tests |-> <<>>])
    /\ UNCHANGED <<stage, current, ran, verdicts>>

\* Scenario::mutate
AddWhatIf(m) ==
    /\ MayAdd(1) /\ Listed > 0 /\ scenarios[Listed].tests = <<>>
    /\ scenarios' = [scenarios EXCEPT ![Listed].whatifs = Append(@, m)]
    /\ UNCHANGED <<stage, current, ran, verdicts>>

\* Scenario::check
AddTest(t) ==
    /\ MayAdd(1) /\ Listed > 0
    /\ scenarios' = [scenarios EXCEPT ![Listed].tests = Append(@, t)]
    /\ UNCHANGED <<stage, current, ran, verdicts>>

\* into_scenario: an expectation that is none of the known ones is refused.
Submit ==
    /\ stage = "writing" /\ Listed > 0
    /\ stage' = IF \E i \in 1..Listed : scenarios[i].expect = "misspelt" THEN "refused"
                ELSE "checking"
    /\ UNCHANGED <<scenarios, current, ran, verdicts>>

\* run_suite: the first loop.
CheckScenario ==
    /\ stage = "checking"
    /\ LET ms == scenarios[current].whatifs
       IN  IF \E i \in DOMAIN ms : ~Valid(ms[i])
           THEN stage' = "refused" /\ UNCHANGED current
           ELSE IF current < Listed THEN current' = current + 1 /\ UNCHANGED stage
           ELSE stage' = "running" /\ current' = 1
    /\ UNCHANGED <<scenarios, ran, verdicts>>

\* run_suite: the second; prepare, send_transaction and the verdict.  What
\* cannot be applied ends the whole suite.
RunScenario ==
    /\ stage = "running"
    /\ LET s == scenarios[current]
           ms == [i \in DOMAIN s.whatifs |-> Resolve(s.whatifs[i])]
           start == FoldLeft(Applied, FreshSvm, ms)
           ixs == TxWith(ms)
       IN  IF start = <<>> \/ ixs = <<>>
           THEN stage' = "broken" /\ UNCHANGED <<current, ran, verdicts>>
           ELSE LET result == Execute(ixs, start)
                IN  /\ ran' = Append(ran, [start |-> start, ixs |-> ixs, result |-> result])
                    /\ verdicts' = Append(verdicts, Verdict(s, start, result))
                    /\ IF current < Listed THEN current' = current + 1 /\ UNCHANGED stage
                       ELSE stage' = "answered" /\ UNCHANGED current
    /\ UNCHANGED scenarios

SuiteNext ==
    \/ \E e \in Expected : AddScenario(e)
    \/ \E m \in WhatIfs : AddWhatIf(m)
    \/ \E t \in Tests : AddTest(t)
    \/ Submit \/ CheckScenario \/ RunScenario

(***************************************************************************)
(* Properties.                                                             *)
(***************************************************************************)
\* What a test of account state says, in terms of the states before and after
\* the transaction ran.
Claim(t, before, after) ==
    LET a == t.address
        num(s) == CASE t.kind \in {"lamports", "lamports_delta"} -> Lamports(s, a)
                    [] t.kind \in {"word", "word_delta"} -> Word(s, a, t.offset)
                    [] OTHER -> ReadInt(s[a].data, CHOOSE f \in Meant(a, t.field) : TRUE)
        value == IF t.kind \in {"lamports_delta", "word_delta", "field_delta"}
                 THEN num(after) - num(before) ELSE num(after)
    IN  /\ a \in DOMAIN World
        /\ IF t.kind = "unchanged"
           THEN \A f \in Meant(a, t.field) :
                  SubSeq(before[a].data, f.offset + 1, f.offset + f.size)
                    = SubSeq(after[a].data, f.offset + 1, f.offset + f.size)
           ELSE Holds(t.op, value, t.value)

Emptied(a, start) == a \in DOMAIN World \ DOMAIN start
OnAccount(t) == t.kind \notin {"onchain", "log", "units"}

\* A scenario passes only for what the transaction did: each of its tests
\* names a loaded account and is true of the states right before and right
\* after the transaction, and a transaction that failed passes only where the
\* scenario says so.  (An account a mutation emptied is left out: it has no
\* copy to start from, and its change is measured from the loaded one.)
PassIsEarned ==
    \A i \in DOMAIN verdicts : verdicts[i] =>
        LET s == scenarios[i] IN
        /\ \A j \in DOMAIN s.tests :
              OnAccount(s.tests[j]) /\ ~Emptied(s.tests[j].address, ran[i].start) =>
                Claim(s.tests[j], ran[i].start, ran[i].result.post)
        /\ \/ ran[i].result.ok
           \/ s.expect \in {"revert", "any", ran[i].result.error}
           \/ s.expect = "nothing" /\ Landed = "failure"

Edits(ms, origin) ==
    SelectSeq(ms, LAMBDA m : m.kind \in {"ixdata", "replace"} /\ m.index = origin)

\* An edit lands on the instruction that stood at its index in the landed
\* transaction, in the order the edits are listed, wherever that instruction
\* is left; what is neither left out nor moved keeps its order.
EditsLand ==
    \A i \in DOMAIN ran :
        LET ms == [j \in DOMAIN scenarios[i].whatifs |-> Resolve(scenarios[i].whatifs[j])]
            moves == SelectSeq(ms, LAMBDA m : m.kind = "move")
            kept == SelectSeq([j \in DOMAIN Ixs |-> j - 1], LAMBDA o : o \notin Skipping(ms))
            order == [j \in DOMAIN ran[i].ixs |-> ran[i].ixs[j].origin]
        IN  /\ \A j \in DOMAIN order :
                  ran[i].ixs[j].data =
                    FoldLeft(LAMBDA data, m : IF m.kind = "replace" THEN m.bytes
                                              ELSE Overwritten(data, m.offset, m.bytes),
                             Ixs[order[j] + 1].data, Edits(ms, order[j]))
            /\ moves = <<>> => order = kept
            /\ Len(moves) = 1 =>
                  LET m == moves[1]
                  IN  order[m.to + 1] = kept[m.from + 1]
                        /\ RemoveAt(order, m.to + 1) = RemoveAt(kept, m.from + 1)

\* A suite that was validated only breaks where two mutations of a scenario
\* stand in each other's way, or where a new owner is no address.
BreaksByTwo ==
    stage = "broken" =>
        LET ms == scenarios[current].whatifs
        IN  Len(ms) > 1 \/ \E i \in DOMAIN ms : ms[i].kind = "owner" /\ ms[i].owner \in NotAddresses

\* A field set by name is read back by that name, whatever its type.
FieldIsSet ==
    \A i \in DOMAIN ran :
        LET ms == scenarios[i].whatifs
        IN  \A j \in DOMAIN ms : ms[j].kind = "field" =>
              LET later == {k \in DOMAIN ms : k > j /\ ~OnInstruction(ms[k])
                                                /\ ms[k].address = ms[j].address}
                  f == CHOOSE f \in Meant(ms[j].address, ms[j].field) : TRUE
                  data == ran[i].start[ms[j].address].data
              IN  later = {} /\ Readable(data, f) => ReadInt(data, f) = ms[j].value

\* What a suite answers (run_suite, replay.rs:2675): see the four parts.
SuiteTrue == PassIsEarned /\ EditsLand /\ BreaksByTwo /\ FieldIsSet
=============================================================================
