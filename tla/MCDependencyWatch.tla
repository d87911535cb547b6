-------------------------- MODULE MCDependencyWatch --------------------------
(* DependencyWatch with registries that already hold something.             *)
EXTENDS DependencyWatch

CONSTANTS p, alice, bob, d1, d2, mainnet, devnet, http, long

MCSorted == <<d1, d2>>
MCClusters == <<mainnet, devnet>>

\* The entry of alice, whose program it is on one cluster or depends on
\* both programs; bob may hold an entry of his own.
Populated ==
    LET entry(a) == [alert_url |-> http, proven |-> FALSE,
                     dependency_count |-> Cardinality(LinksOf(<<p, a>>))]
    IN  /\ owner \in [Cluster -> [Subject -> {alice, Nobody}]]
        /\ registered = {<<p, alice>>}
        /\ dependencies = {<<<<p, alice>>, d1>>, <<<<p, alice>>, d2>>}
        /\ protocol = [e \in Entry |-> IF e \in registered THEN entry(e[2])
                                       ELSE NoAccount]
        /\ muted \in {{}, {<<<<p, alice>>, d2>>}}
MCInit == Populated /\ WatchInit /\ deployed[devnet] = [d \in Program |-> 1]
MCSpec == MCInit /\ [][Next]_vars /\ WF_vars(Watcher)
=============================================================================
