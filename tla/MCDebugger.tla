----------------------------- MODULE MCDebugger -----------------------------
(***************************************************************************)
(* What the engine is asked about one transaction, over small instances:   *)
(* the steps of every ended run (Runtime, Trace), the folding of every     *)
(* short register trace (Flame), the naming of a three-function program    *)
(* (Symbols), every small what-if suite over a transaction that pays and   *)
(* then closes an account (Suite), the searches over what-ifs              *)
(* (WhatIfSearch), and one dependency check (DependencyCheck).  They share *)
(* no state; `part` picks the one that moves.                              *)
(***************************************************************************)
EXTENDS Trace, Flame, Symbols, Suite, WhatIfSearch, DependencyCheck, TLC

CONSTANTS prog1, prog2, system, ed25519, nobody, vault,
          purse, user, ghost, junk, token,     \* the addresses a suite names
          m1, m2, m3                           \* the mutations to minimize

(***************************************************************************)
(* The suite's instance: the landed transaction pays twice out of the      *)
(* user's account into the purse, then closes the user's account.          *)
(***************************************************************************)
Held(n) == [lamports |-> 1, data |-> <<n, 0, 3, 1>>, owner |-> token]
TwoHolders == (purse :> Held(2)) @@ (user :> Held(3)) @@ (token :> Program)

Field(name, type, offset, size) == [name |-> name, type |-> type, offset |-> offset, size |-> size]
FieldsOf == token :> {Field(<<"amount">>, "unsigned", 0, 2), Field(<<"pool", "tag">>, "signed", 2, 1),
                      Field(<<"fee", "tag">>, "key", 3, 1)}
SegmentOf(name) == Last(name)

Ix(op, data) == [op |-> op, data |-> data]
Landing == <<Ix("pay", <<1, 1>>), Ix("pay", <<1, 2>>), Ix("close", <<2>>)>>
SpanOf(op, arg) ==
    IF op = "pay" /\ arg = "amount" THEN [offset |-> 1, size |-> 1] ELSE NoArg

Amount(acc) == acc.data[1] + Base * acc.data[2]
Paying(svm, a, n) == [svm EXCEPT ![a].data = <<n % Base, n \div Base>> \o SubSeq(@, 3, Len(@))]

\* One instruction: an error, or the accounts it leaves.
Outcome(error, svm) == [error |-> error, svm |-> svm]
Perform(svm, ix) ==
    IF \E a \in {purse, user} : a \notin DOMAIN svm \/ svm[a].owner # token THEN Outcome("owner", svm)
    ELSE IF \E a \in {purse, user} : Len(svm[a].data) < 4 THEN Outcome("data", svm)
    ELSE IF ix.op = "pay"
    THEN LET n == IF Len(ix.data) < 2 THEN 0 ELSE ix.data[2]
         IN  IF Amount(svm[user]) < n THEN Outcome("low", svm)
             ELSE Outcome("none", Paying(Paying(svm, user, Amount(svm[user]) - n),
                                         purse, Amount(svm[purse]) + n))
    ELSE IF Amount(svm[user]) # 0 THEN Outcome("full", svm)
    ELSE Outcome("none", Store([svm EXCEPT ![purse].lamports = @ + svm[user].lamports],
                               user, [svm[user] EXCEPT !.lamports = 0]))

\* The whole transaction: a failed one leaves everything as it was.
Run(ixs, svm) ==
    LET last == FoldLeft(LAMBDA r, ix : IF r.error = "none"
                                        THEN Perform(r.svm, ix) @@ [units |-> r.units + 1] ELSE r,
                         [error |-> "none", svm |-> svm, units |-> 0], ixs)
        ok == last.error = "none"
    IN  [ok |-> ok, error |-> last.error, units |-> last.units,
         post |-> IF ok THEN last.svm ELSE svm]

SuiteMutations ==
    {[kind |-> "lamports", address |-> x[1], value |-> x[2]] : x \in {<<user, 0>>, <<purse, 3>>, <<ghost, 1>>}}
    \cup {[kind |-> "data", address |-> user, bytes |-> <<1>>]}
    \cup {[kind |-> "patch", address |-> user, offset |-> 0, bytes |-> <<2>>],
          [kind |-> "patch", address |-> user, offset |-> 3, bytes |-> <<1, 1>>]}
    \cup {[kind |-> "field", address |-> x[1], field |-> x[2], value |-> x[3]] :
            x \in {<<user, <<"amount">>, 2>>, <<purse, <<"pool", "tag">>, -2>>,
                   <<purse, <<"tag">>, 1>>, <<purse, <<"pool", "tag">>, 2>>}}
    \cup {[kind |-> "owner", address |-> purse, owner |-> junk]}
    \cup {[kind |-> "ixarg", index |-> 1, arg |-> "amount", value |-> 1],
          [kind |-> "ixdata", index |-> 0, offset |-> 1, bytes |-> <<2>>],
          [kind |-> "replace", index |-> 1, bytes |-> <<1>>]}
    \cup {[kind |-> "skip", index |-> i] : i \in 0..2}
    \cup {[kind |-> "move", from |-> x[1], to |-> x[2]] : x \in {<<2, 0>>, <<0, 1>>}}

On(kind, a, op, value) == [kind |-> kind, address |-> a, op |-> op, value |-> value]
SuiteTests ==
    {[kind |-> "onchain"], [kind |-> "log", text |-> "low"], [kind |-> "units", op |-> "le", value |-> 2],
     On("lamports", user, "eq", 0), On("lamports", ghost, "eq", 0), On("lamports_delta", purse, "ge", 1),
     On("word", user, "ne", 3) @@ [offset |-> 0], On("word_delta", user, "eq", -3) @@ [offset |-> 0],
     On("field", purse, "eq", -2) @@ [field |-> <<"pool", "tag">>],
     On("field_delta", purse, "eq", 3) @@ [field |-> <<"amount">>],
     [kind |-> "unchanged", address |-> purse, field |-> <<"fee", "tag">>]}
Expectations == {"nothing", "success", "revert", "low", "any", "misspelt"}

(***************************************************************************)
(* The searches' instance: every outcome of every value of one knob.       *)
(***************************************************************************)
Three == <<m1, m2, m3>>
Knob(type, today, then, f) == [type |-> type, today |-> today, then |-> then, outcome |-> f]
Numbers == {Knob(type, today, then, f) :
              type \in {"lamports", "u64"}, today \in 0..2, then \in 0..2, f \in [0..4 -> BOOLEAN]}
Bytes == {Knob("u8", n, n, f) : n \in {1, 2}, f \in [0..3 -> BOOLEAN]}
Others == {Knob(type, 0, 0, f) : type \in {"owner", "pubkey"}, f \in [0..1 -> BOOLEAN]}
Firsts == {Knob("u64", 0, 0, [v \in 0..4 |-> TRUE]), Knob("u8", 1, 1, [v \in 0..3 |-> TRUE]),
           Knob("blob", 0, 0, [v \in 0..1 |-> TRUE])}
Account(decodes, infra, knobs) ==
    [decodes |-> decodes, infra |-> infra, loaded |-> TRUE, knobs |-> knobs]
Succeeding(knobs) == {k \in knobs : k.outcome[k.then]}

\* One knob; a knob behind another; an account the replayed world lacks; a
\* second account behind one that is passed over; and no account at all.
SweepsOf ==
    {[baseline |-> k.outcome[k.then], accounts |-> <<Account("data", FALSE, <<k>>)>>] :
       k \in Numbers \cup Bytes \cup Others}
    \cup {[baseline |-> TRUE, accounts |-> <<Account("data", FALSE, <<j, k>>)>>] :
            j \in Firsts, k \in Succeeding(Numbers)}
    \cup {[baseline |-> TRUE, accounts |-> <<[Account("data", i, <<k>>) EXCEPT !.loaded = FALSE]>>] :
            i \in BOOLEAN, k \in Succeeding(Bytes)}
    \cup {[baseline |-> TRUE,
           accounts |-> <<Account(d, i, <<k>>), Account("data", FALSE, <<k>>)>>] :
            d \in {"data", "not", "executable"}, i \in BOOLEAN, k \in Succeeding(Bytes)}
    \cup {NoSweep}

(***************************************************************************)
(* The check's instance: every history over four slots; the second of two  *)
(* deploys lands in the last of them.                                      *)
(***************************************************************************)
Landings == UNION {{[i \in DOMAIN s |-> [slot |-> s[i], calls |-> f[s[i]] # "reaches",
                                         reaches |-> f[s[i]] # "calls"]] :
                      f \in [Range(s) -> {"both", "calls", "reaches"}]} :
                    s \in {SetToSortSeq(S, >) : S \in SUBSET (1..4)}}
TwoDeploys == <<2, 4>>

VARIABLE part
dbgVars == <<rtVars, shown, flVars, syVars, suiteVars, searchVars, checkVars, part>>

SearchIdle ==
    /\ hunt = "patch" /\ effect = [b \in {"original", "patched"} |-> TRUE] /\ bounds = NoBounds
    /\ keep = Offered /\ at = 1 /\ points = {} /\ swept = NoSweep /\ build = Unpatched
CheckIdle ==
    /\ ask = [history |-> <<>>, limit |-> 1, baseline |-> "current"]
    /\ chain = [deploys |-> 1, upgradeable |-> FALSE]
    /\ step = "deploy" /\ read = Unread /\ looked = 0 /\ recent = <<>> /\ missed = FALSE
    /\ corpus = [txs |-> <<>>, note |-> "none"] /\ tallied = [txs |-> <<>>, counts |-> NoCounts]

DbgInit ==
    /\ TraceInit /\ FlameInit /\ SymbolsInit /\ SuiteInit
    /\ \/ part \in {"trace", "flame", "symbols", "suite"} /\ SearchIdle /\ CheckIdle
       \/ part = "search" /\ SearchInit /\ CheckIdle
       \/ part = "check" /\ SearchIdle /\ CheckInit
DbgNext ==
    /\ UNCHANGED part
    /\ \/ /\ part = "trace" /\ TraceNext
          /\ UNCHANGED <<flVars, syVars, suiteVars, searchVars, checkVars>>
       \/ /\ part = "flame" /\ FlameNext
          /\ UNCHANGED <<rtVars, shown, syVars, suiteVars, searchVars, checkVars>>
       \/ /\ part = "symbols" /\ SymbolsNext
          /\ UNCHANGED <<rtVars, shown, flVars, suiteVars, searchVars, checkVars>>
       \/ /\ part = "suite" /\ SuiteNext
          /\ UNCHANGED <<rtVars, shown, flVars, syVars, searchVars, checkVars>>
       \/ /\ part = "search" /\ SearchNext
          /\ UNCHANGED <<rtVars, shown, flVars, syVars, suiteVars, checkVars>>
       \/ /\ part = "check" /\ CheckNext
          /\ UNCHANGED <<rtVars, shown, flVars, syVars, suiteVars, searchVars>>
DbgSpec == DbgInit /\ [][DbgNext]_dbgVars

\* Two shapes with the same opcodes; the third stands alone.
Opcodes(x) == IF x = "twin" THEN "one" ELSE x
Symmetric == Permutations({prog1, prog2})
=============================================================================
