------------------------------ MODULE MCBundle ------------------------------
(* Bundle on small histories.                                              *)
EXTENDS Bundle, TLC

CONSTANTS a, b, c, t1, t2
Accounts == {a, b, c}

\* A transaction needs every account it does not make; it then writes, makes
\* and closes.
Transaction(names, writes, makes, closes) ==
    [names |-> names, writable |-> writes \cup makes \cup closes,
     writes |-> writes, makes |-> makes, closes |-> closes]
Pay == Transaction({a, b}, {b}, {}, {})
Swap == Transaction({a, b}, {a, b}, {}, {})
Open == Transaction({a, c}, {a}, {c}, {})
Use == Transaction({b, c}, {c}, {}, {})
Shut == Transaction({a, c}, {a}, {}, {c})
Txs == {Pay, Swap, Open, Use, Shut}

Weight(s, names) ==
    LET v(x) == IF x \in names THEN s[x] ELSE 0
    IN  v(a) + 2 * v(b) + v(c)
Run(tx, s) ==
    LET ok == /\ \A x \in tx.names \ tx.makes : s[x] # 0
              /\ \A x \in tx.makes : s[x] = 0
              /\ tx.closes # {} => s[a] # 2
        made == 1 + (Weight(s, tx.names) % MaxContent)
    IN  [ok |-> ok,
         post |-> [x \in Account |->
            IF ok /\ x \in tx.closes THEN 0
            ELSE IF ok /\ x \in tx.writes \cup tx.makes THEN made
            ELSE s[x]]]

History(txs, slots) ==
    {[genesis |-> [x \in Account |-> IF x = c THEN z ELSE y], txs |-> txs,
      slots |-> slots] : y \in {1}, z \in {0, 1}}
SlotLists == {<<1, 1, 1>>, <<1, 1, 2>>}
Histories ==
    UNION {History(<<x, y, z>>, s) :
        x \in {Swap, Open, Shut}, y \in {Open, Use, Shut}, z \in {Pay, Use},
        s \in SlotLists}

Landed(p) == [kind |-> "landed", pos |-> p]
Own(tx, p, s) == [kind |-> "custom", tx |-> tx, pos |-> p, slot |-> s]
Lists ==
    {<<Landed(1), Landed(2), Landed(3)>>,
     <<Landed(1), Landed(3)>>,
     <<Own(Swap, 1, None), Landed(2)>>,
     <<Landed(1), Own(Open, 2, None), Landed(3)>>,
     <<Own(Use, None, None), Landed(2), Landed(3)>>,
     <<Own(Pay, None, None)>>}

\* Which accounts a world may hold as of today.
Today1 == {{}, {b}}

Threads2 == {t1, t2}
Threads == Permutations(Thread)

EditLists == {NoEdits, (1 :> (c :> 2)), (2 :> (b :> 1)), (1 :> (a :> 2))}
=============================================================================
