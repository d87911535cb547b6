-------------------------------- MODULE Svm --------------------------------
(***************************************************************************)
(* The world a transaction is replayed in: ReplayContext's loaded accounts *)
(* (src/src/replay.rs), and the runtime that runs a transaction on them.   *)
(* An account's content is a number, 0 where there is no account; the      *)
(* runtime is any deterministic function of what the transaction names.    *)
(***************************************************************************)
EXTENDS Naturals

CONSTANTS
    Account,        \* addresses
    MaxContent,     \* contents are 1..MaxContent
    Tx,             \* transactions: records with the accounts they name
    Exec(_, _)      \* Exec(tx, state): [ok, post], the runtime

Content == 0..MaxContent
AccountsDB == [Account -> Content]

ASSUME SvmAssumption ==
    /\ MaxContent \in Nat \ {0}
    /\ \A tx \in Tx : tx.names \subseteq Account
    /\ \A tx \in Tx, s \in AccountsDB :
          /\ Exec(tx, s).ok \in BOOLEAN
          /\ Exec(tx, s).post \in AccountsDB
          /\ \A a \in Account \ tx.names : Exec(tx, s).post[a] = s[a]
    \* The runtime is given the accounts a transaction names, and no others.
    /\ \A tx \in Tx, s, t \in AccountsDB :
          (\A a \in tx.names : s[a] = t[a]) =>
            /\ Exec(tx, s).ok = Exec(tx, t).ok
            /\ \A a \in tx.names : Exec(tx, s).post[a] = Exec(tx, t).post[a]

\* Every world: the loaded data accounts and their contents.
Worlds == UNION {[L -> 1..MaxContent] : L \in SUBSET Account}

Restricted(w, L) == [a \in DOMAIN w \cap L |-> w[a]]

\* A world built of what the state s holds of the accounts L.
Loaded(s, L) == [a \in {b \in L : s[b] # 0} |-> s[a]]

\* overlay: where both hold an account, the other wins.
Overlay(w, other) ==
    [a \in DOMAIN w \cup DOMAIN other |->
        IF a \in DOMAIN other THEN other[a] ELSE w[a]]

\* mutant: an absent account is decided by the next world that holds it
AbsorbMissing(w, other, decided) == Overlay(other, w)

\* absorb_undecided
AbsorbUndecided(w, other, decided) ==
    Overlay(Restricted(other, Account \ decided), w)

\* set_loaded_data(a, None)
Unloaded(w, L) == Restricted(w, Account \ L)

\* The fresh SVM a run starts from.
SvmOf(w) == [a \in Account |-> IF a \in DOMAIN w THEN w[a] ELSE 0]

\* loaded_state_of: the loaded accounts as the SVM holds them; get_account
\* answers nothing for a closed one.
LoadedState(w, svm) == Loaded(svm, DOMAIN w)

\* A mutation of the world before the run; its target must be there.
CanMutate(edits, svm) == \A a \in DOMAIN edits : svm[a] # 0
Mutate(edits, svm) ==
    [a \in Account |-> IF a \in DOMAIN edits THEN edits[a] ELSE svm[a]]

\* diffs_of: the named accounts whose loaded copy is another one after the
\* run; one that has no copy after it counts as unchanged.
Diff(pre, post, names) ==
    {a \in names \cap DOMAIN post : a \in DOMAIN pre => pre[a] # post[a]}
=============================================================================
