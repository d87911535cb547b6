--------------------------- MODULE MCReconstruct ---------------------------
(* Reconstruct on a chain of five transactions in three slots, the middle  *)
(* one a block of three.                                                   *)
EXTENDS Reconstruct, TLC

CONSTANTS a, b
Slots5 == <<1, 2, 2, 2, 3>>
Two == <<a, b>>

\* Histories the runtime admits: what is closed or paid exists, and the
\* transaction at hand names the account.
Effects(kind) ==
    CASE kind \in {"data", "curve"} -> {"none", "write", "pay", "close"}
      [] kind = "token" -> {"none", "write", "close"}
      [] kind = "signer" -> {"none", "pay"}
      [] kind = "program" -> {"none", "write"}
Alive(e, i) == \E j \in 1..i : e[j] \in {"write", "pay"} /\ \A k \in j+1..i : e[k] # "close"
Histories(kind, target) ==
    {e \in {[f EXCEPT ![target] = IF @ = "none" THEN "read" ELSE @] :
              f \in [1..5 -> Effects(kind)]} :
        /\ \A i \in 1..5 : /\ e[i] = "close" => Alive(e, i-1)
                           /\ e[i] = "pay" /\ kind # "signer" => Alive(e, i-1)
        /\ kind = "program" => e[1] = "write" /\ e[2] = "none"
        /\ kind = "signer" => e[1] = "pay" /\ e[target] = "pay"}

\* A recorded version the store may hold: from a slot at or before the floor,
\* and still held there only if nothing was written since.
Starts(kind) ==
    {Nothing} \cup IF kind \notin {"data", "curve"} THEN {}
    ELSE {[slot |-> 1, held |-> TRUE, known |-> TRUE],
          [slot |-> 1, held |-> FALSE, known |-> FALSE],
          [slot |-> 2, held |-> TRUE, known |-> FALSE]}
Possible(e, v, asked) ==
    LET floor == IF asked = 2 THEN 1 ELSE asked
    IN  v # Nothing =>
          /\ v.slot <= floor
          /\ v.held => \A i \in 1..5 : Slots5[i] > v.slot /\ Slots5[i] <= floor =>
                          e[i] \in {"none", "read"}

\* One account of any history and the fee payer, for any slot.
Payer == <<"pay", "none", "pay", "none", "none">>
Ask(kinds, effects, target, asked, starts) ==
    [kind |-> kinds, effect |-> effects, target |-> target, asked |-> asked,
     start |-> starts, budget |-> 4, records |-> TRUE, covers |-> TRUE]
Solo(kind) ==
    {Ask(a :> kind @@ b :> "signer", a :> e @@ b :> Payer, 3, s, a :> v @@ b :> Nothing)
      : e \in Histories(kind, 3), s \in 1..3, v \in Starts(kind)}
SoloWorlds ==
    {w \in UNION {Solo(k) : k \in {"data", "token", "program", "signer"}} \cup
           {w \in Solo("curve") : w.start[a] = Nothing} :
        Possible(w.effect[a], w.start[a], w.asked)}

\* Two accounts whose transactions meet in the block, at its own slot.
PairHistories(kind) ==
    {e \in Histories(kind, 4) :
        /\ e[1] = IF kind = "signer" THEN "pay" ELSE "write"
        /\ e[4] # "close" /\ e[5] = "none"}
Held1 == [slot |-> 1, held |-> TRUE, known |-> TRUE]
Pairs(kind) ==
    {Ask(a :> "data" @@ b :> kind, a :> e @@ b :> f, 4, 2,
         a :> (IF kind = "data" THEN Nothing ELSE Held1) @@ b :> Nothing)
      : e \in PairHistories("data"), f \in PairHistories(kind)}

\* Two accounts to rebuild out of one budget, with and without a store; the
\* second may be closed by a later transaction.
Written == <<"write", "write", "write", "write", "none">>
Frugal ==
    {[Ask(a :> "data" @@ b :> "data", a :> Written @@ b :> e, 4, 2,
          a :> Nothing @@ b :> Nothing)
        EXCEPT !.budget = n, !.records = r, !.covers = FALSE]
      : e \in {Written, <<"write", "none", "write", "write", "none">>,
               <<"write", "none", "write", "write", "close">>},
        n \in 0..4, r \in BOOLEAN}
Worlds5 == SoloWorlds \cup UNION {Pairs(k) : k \in {"data", "token", "signer"}} \cup Frugal
=============================================================================
