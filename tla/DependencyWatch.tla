--------------------------- MODULE DependencyWatch ---------------------------
(***************************************************************************)
(* The watcher thread of the server (server/src/depwatch.rs) over the      *)
(* registry: it holds the binary of every watched program, and when one is *)
(* redeployed checks the protocols that depend on it and reports to them.  *)
(* A binary is the number of its deploy on a cluster, which stands for the *)
(* deploy slot as well.  Every RPC call is a step of its own.              *)
(***************************************************************************)
EXTENDS DependencyRegistry, Sequences, SequencesExt

CONSTANTS
    Sorted,         \* the programs in the order of their addresses
    Clusters,       \* candidate_clusters, in order
    NotThere,       \* no such program on the cluster
    Frozen,         \* a program of a loader without upgrades
    NotHeld,        \* no binary held
    MaxDeploys, MaxTxs, MaxFaults   \* bounds

ASSUME WatchAssumption ==
    /\ Sorted \in Seq(Program) /\ ToSet(Sorted) = Program
    /\ Clusters \in Seq(Cluster) /\ ToSet(Clusters) = Cluster
    /\ {NotThere, Frozen, NotHeld} \cap Nat = {}

VARIABLES
    deployed,       \* deployed[c][d]: the newest deploy of d on c
    held,           \* BINARIES: [slot, elf] or NotHeld
    pass,           \* the watcher's pass over the registry
    reports,        \* every report stored, with the deploys it compared and
                    \* (clean) whether the held binary was that of its stamp
    skipped,        \* history: checks that failed
    deploys, txs, faults

world == <<owner, registry, deployed, deploys, txs>>
vars == <<owner, registry, deployed, held, pass, reports, skipped,
          deploys, txs, faults>>

Idle == [pc |-> "idle", entries |-> {}, links |-> {}, unplaced |-> {},
         cluster |-> <<>>, todo |-> {}, slot |-> 0, due |-> {}]

Go(pc) == pass' = [pass EXCEPT !.pc = pc]
Fault == faults < MaxFaults /\ faults' = faults + 1

\* An RPC error ends the pass; the thread sleeps and begins again.
Abort == Fault /\ pass' = Idle

-----------------------------------------------------------------------------
\* Scope::registry: the protocols, then the dependencies, two calls.
ReadProtocols ==
    /\ pass.pc = "idle"
    /\ \/ /\ pass' = [Idle EXCEPT !.pc = "links", !.entries = registered]
          /\ UNCHANGED faults
       \/ Abort
    /\ UNCHANGED <<world, held, reports, skipped>>

ReadDependencies ==
    /\ pass.pc = "links"
    /\ \/ /\ pass' = [pass EXCEPT !.pc = "verify",
                          !.links = {[link |-> l, alerts |-> l \notin muted] :
                                        l \in dependencies},
                          !.unplaced = pass.entries]
          /\ UNCHANGED faults
       \/ Abort
    /\ UNCHANGED <<world, held, reports, skipped>>

\* verify_protocols: the first cluster on which the entry's authority holds
\* the program; a failed question counts as no.
VerifyNext(e, failing) ==
    LET holds(i) == Clusters[i] \notin failing /\ owner[Clusters[i]][e[1]] = e[2]
        places == {i \in 1..Len(Clusters) : holds(i)}
        at == {Clusters[i] : i \in {j \in places : \A k \in places : j <= k}}
    IN  /\ pass.pc = "verify" /\ e \in pass.unplaced
        /\ IF failing = {} THEN UNCHANGED faults ELSE Fault
        /\ pass' = [pass EXCEPT !.unplaced = @ \ {e},
                                !.cluster = [x \in DOMAIN @ \cup {e} |->
                                    IF x = e THEN at ELSE pass.cluster[x]]]
        /\ UNCHANGED <<world, held, reports, skipped>>

Places(e, c) == e \in pass.entries /\ pass.cluster[e] = {c}

\* The programs some placed protocol depends on: where their cluster comes among
\* the candidates, and where their address comes.
Watched == {x \in (1..Len(Clusters)) \X (1..Len(Sorted)) :
    \E l \in pass.links : l.link[2] = Sorted[x[2]] /\ Places(l.link[1], Clusters[x[1]])}

Plan ==
    /\ pass.pc = "verify" /\ pass.unplaced = {}
    /\ pass' = [pass EXCEPT !.pc = "deploy", !.todo = Watched]
    /\ UNCHANGED <<world, held, reports, skipped, faults>>

\* Cluster by cluster, and there in the order of addresses.
Before(x, y) == x[1] < y[1] \/ (x[1] = y[1] /\ x[2] < y[2])
Here == CHOOSE x \in pass.todo : \A y \in pass.todo : ~Before(y, x)
Cl == Clusters[Here[1]]
Dep == Sorted[Here[2]]
ToNext(p) == IF p.todo = {Here} THEN Idle
             ELSE [p EXCEPT !.pc = "deploy", !.todo = @ \ {Here}, !.slot = 0]

\* mutant: a program that cannot be upgraded ends the pass
EndPass(p) == Idle

\* Not upgradeable: nothing can change, nothing to hold.
PassOver(p) == ToNext(p)

\* The dependents run_checks goes through: alerts on, placed on this cluster.
Due(c, d) == {l.link[1] : l \in {k \in pass.links :
                  k.link[2] = d /\ k.alerts /\ Places(k.link[1], c)}}

\* deploy_info: a missing program is an error, one that cannot be upgraded
\* is passed over; the slot says whether there is anything to do.
AskDeploy ==
    LET now == deployed[Cl][Dep]
        have == held[Cl][Dep]
    IN  /\ pass.pc = "deploy" /\ pass.todo # {}
        /\ \/ /\ UNCHANGED faults
              /\ pass' = IF now = NotThere THEN Idle
                         ELSE IF now = Frozen THEN PassOver(pass)
                         ELSE IF have = NotHeld
                         THEN [pass EXCEPT !.pc = "snapshot", !.slot = now]
                         ELSE IF have.slot = now THEN ToNext(pass)
                         ELSE [pass EXCEPT !.pc = "check", !.slot = now,
                                           !.due = Due(Cl, Dep)]
           \/ Abort
        /\ UNCHANGED <<world, held, reports, skipped>>

NothingWatched ==
    /\ pass.pc = "deploy" /\ pass.todo = {}
    /\ pass' = Idle
    /\ UNCHANGED <<world, held, reports, skipped, faults>>

\* mutant: the binary to compare with is fetched for the check
CurrentBinary == deployed[Cl][Dep]

\* The binary handed to the checks is the one held.
PreviousBinary == held[Cl][Dep].elf

\* One dependent: dependency_check against the held binary, with the program's
\* binary as it is by now; the report is delivered and stored.
Check(e) ==
    /\ pass.pc = "check" /\ e \in pass.due
    /\ pass' = [pass EXCEPT !.due = @ \ {e}]
    /\ \/ /\ reports' = reports \cup
                {[entry |-> e, cluster |-> Cl, program |-> Dep, slot |-> pass.slot,
                  clean |-> held[Cl][Dep].slot = held[Cl][Dep].elf,
                  before |-> PreviousBinary, after |-> deployed[Cl][Dep]]}
          /\ UNCHANGED <<skipped, faults>>
       \/ /\ Fault
          /\ skipped' = skipped \cup {<<e, Cl, Dep, pass.slot>>}
          /\ UNCHANGED reports
    /\ UNCHANGED <<world, held>>

\* mutant: the first failed check ends them
ChecksUntilFailure ==
    /\ pass.pc = "check"
    /\ pass.due = {} \/ \E k \in skipped : k[3] = Dep /\ k[4] = pass.slot
    /\ Go("snapshot")
    /\ UNCHANGED <<world, held, reports, skipped, faults>>

ChecksDone ==
    /\ pass.pc = "check" /\ pass.due = {}
    /\ Go("snapshot")
    /\ UNCHANGED <<world, held, reports, skipped, faults>>

\* mutant: the slot is asked for after the binary
StampedAfter(slot) == [slot : slot..deployed[Cl][Dep], elf : {slot}]

\* What snapshot holds: the slot asked for, and the binary as it is by now.
Fetched(slot) == [slot : {slot}, elf : {deployed[Cl][Dep]}]

Snapshot ==
    /\ pass.pc = "snapshot"
    /\ \/ /\ \E b \in Fetched(pass.slot) : held' = [held EXCEPT ![Cl][Dep] = b]
          /\ pass' = ToNext(pass)
          /\ UNCHANGED faults
       \/ Abort /\ UNCHANGED held
    /\ UNCHANGED <<world, reports, skipped>>

Watcher ==
    \/ ReadProtocols \/ ReadDependencies
    \/ \E e \in pass.unplaced, failing \in SUBSET Cluster : VerifyNext(e, failing)
    \/ Plan \/ NothingWatched \/ AskDeploy
    \/ \E e \in pass.due : Check(e)
    \/ ChecksDone \/ Snapshot

-----------------------------------------------------------------------------
\* The world: deploys, and transactions of the registry.

Deploy(c, d) ==
    /\ deployed[c][d] \in Nat
    /\ deploys < MaxDeploys /\ deploys' = deploys + 1
    /\ deployed' = [deployed EXCEPT ![c][d] = @ + 1]
    /\ UNCHANGED <<owner, registry, held, pass, reports, skipped, txs, faults>>

Transact ==
    /\ txs < MaxTxs /\ txs' = txs + 1
    /\ RegistryNext
    /\ UNCHANGED <<deployed, held, pass, reports, skipped, deploys, faults>>

WatchInit ==
    /\ deployed \in [Cluster -> [Program -> {1, Frozen, NotThere}]]
    /\ held = [c \in Cluster |-> [d \in Program |-> NotHeld]]
    /\ pass = Idle
    /\ reports = {} /\ skipped = {}
    /\ deploys = 0 /\ txs = 0 /\ faults = 0

Init == RegistryInit /\ WatchInit

Next == Watcher \/ (\E c \in Cluster, d \in Program : Deploy(c, d)) \/ Transact

\* The thread never stops; every call of it returns.
Spec == Init /\ [][Next]_vars /\ WF_vars(Watcher)

-----------------------------------------------------------------------------
TypeOK ==
    /\ RegistryTypeOK
    /\ \A c \in Cluster, d \in Program :
          held[c][d] # NotHeld => {held[c][d].slot, held[c][d].elf} \subseteq 1..deployed[c][d]
    /\ pass.pc \in {"idle", "links", "verify", "deploy", "check", "snapshot"}
    /\ pass.pc \in {"check", "snapshot"} => pass.todo # {} /\ pass.slot \in Nat
    /\ pass.pc = "check" => held[Cl][Dep] # NotHeld

\* The stamp is never ahead of the binary it goes with: a deploy that comes
\* between the two questions of a snapshot changes the slot the next pass
\* sees, so no deploy is overlooked.
HeldNotAhead ==
    \A c \in Cluster, d \in Program :
        held[c][d] # NotHeld => held[c][d].slot <= held[c][d].elf

\* When the held binary is replaced by that of a later deploy, everyone whose
\* alerts were on and whose authority held the program there when the pass
\* looked has the report of it, or their check failed.
ReportedBeforeReplaced ==
    [][\A c \in Cluster, d \in Program :
          held[c][d] # NotHeld /\ held'[c][d] # held[c][d] =>
              \A e \in Due(c, d) :
                  \/ \E r \in reports : /\ r.entry = e /\ r.program = d
                                        /\ r.cluster = c /\ r.slot = held'[c][d].slot
                  \/ <<e, c, d, held'[c][d].slot>> \in skipped]_vars

\* A report compares two binaries, the old before the new, unless a deploy
\* came between the two questions of the snapshot it is based on.
Differential ==
    \A r \in reports : r.clean => r.before < r.after

\* Once nothing changes any more, what is held of a program that somebody
\* verified depends on is its newest deploy, provided every program of the
\* pass is there: a missing one ends each pass before those behind it.
Needed(c, d) ==
    \E l \in dependencies :
        /\ l[2] = d
        /\ l[1] \in registered
        /\ owner[c][l[1][1]] = l[1][2]
        /\ \A i \in 1..Len(Clusters) : owner[Clusters[i]][l[1][1]] = l[1][2] =>
               \E j \in 1..i : Clusters[j] = c
CaughtUp ==
    \A c \in Cluster, d \in Program :
        Needed(c, d) /\ deployed[c][d] \in Nat =>
            held[c][d] # NotHeld /\ held[c][d].slot = deployed[c][d]
EveryDeploySeen ==
    (\A c \in Cluster, d \in Program : deployed[c][d] # NotThere)
        => <>[]CaughtUp
=============================================================================
