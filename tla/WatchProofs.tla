----------------------------- MODULE WatchProofs -----------------------------
(***************************************************************************)
(* The dependency registry, the watcher over it and the check it makes.    *)
(*                                                                         *)
(* The registry keeps its books whatever the entries, programs, urls and   *)
(* the limit are.  dependency_count is inductive only together with the    *)
(* finiteness of the dependency accounts (it is their number), and that no *)
(* account is orphaned only together with the count: unregister looks at   *)
(* the count, never at the accounts.                                       *)
(*                                                                         *)
(* The watcher leaves these books alone, never holds a binary under a slot *)
(* later than its deploy, and replaces it only when everyone due is told,  *)
(* whatever is deployed between two of its calls and whichever of them     *)
(* fail.                                                                   *)
(*                                                                         *)
(* A check finds transactions at rising places of the history (WalkedAt);  *)
(* while every one is fetched nothing that qualifies lies between two of   *)
(* them, and so none between two of those it replays.  The counts grow     *)
(* with the lines, one kind for each (CountsAre).                          *)
(***************************************************************************)
EXTENDS DependencyWatch, DependencyCheck, FiniteSetTheorems, NaturalsInduction, WellFoundedInduction, TLAPS

-----------------------------------------------------------------------------
\* The registry

FiniteLinks == IsFiniteSet(dependencies)

Inv == RegistryTypeOK /\ FiniteLinks /\ CountExact /\ NoOrphans

\* The accounts of an entry are finitely many.
LEMMA LinksFinite ==
    ASSUME FiniteLinks, NEW e
    PROVE  IsFiniteSet(LinksOf(e)) /\ Cardinality(LinksOf(e)) \in Nat
  <1>1. LinksOf(e) \in SUBSET dependencies
    BY DEF LinksOf
  <1> QED
    BY <1>1, FS_Subset, FS_CardinalityType DEF FiniteLinks

\* One account more or less changes the number of its entry by one, and that
\* of no other entry.
LEMMA LinkAdded ==
    ASSUME Inv, NEW e \in Entry, NEW d \in Program, AddDependency(e, d)
    PROVE  /\ FiniteLinks'
           /\ Cardinality(LinksOf(e))' = Cardinality(LinksOf(e)) + 1
           /\ \A f : f # e => LinksOf(f)' = LinksOf(f)
  <1>1. dependencies' = dependencies \cup {<<e, d>>} /\ <<e, d>> \notin dependencies
    BY DEF AddDependency
  <1>2. FiniteLinks'
    BY <1>1, FS_AddElement DEF Inv, FiniteLinks
  <1>3. LinksOf(e)' = LinksOf(e) \cup {<<e, d>>} /\ <<e, d>> \notin LinksOf(e)
    BY <1>1 DEF LinksOf
  <1>4. IsFiniteSet(LinksOf(e))
    BY LinksFinite DEF Inv
  <1>5. Cardinality(LinksOf(e))' = Cardinality(LinksOf(e)) + 1
    BY <1>3, <1>4, FS_AddElement
  <1>6. \A f : f # e => LinksOf(f)' = LinksOf(f)
    BY <1>1 DEF LinksOf
  <1> QED
    BY <1>2, <1>5, <1>6

LEMMA LinkRemoved ==
    ASSUME Inv, NEW e \in Entry, NEW d \in Program, RemoveDependency(e, d)
    PROVE  /\ FiniteLinks'
           /\ Cardinality(LinksOf(e))' = Cardinality(LinksOf(e)) - 1
           /\ \A f : f # e => LinksOf(f)' = LinksOf(f)
  <1>1. dependencies' = dependencies \ {<<e, d>>} /\ <<e, d>> \in dependencies
    BY DEF RemoveDependency
  <1>2. FiniteLinks'
    BY <1>1, FS_RemoveElement DEF Inv, FiniteLinks
  <1>3. LinksOf(e)' = LinksOf(e) \ {<<e, d>>} /\ <<e, d>> \in LinksOf(e)
    BY <1>1 DEF LinksOf
  <1>4. IsFiniteSet(LinksOf(e))
    BY LinksFinite DEF Inv
  <1>5. Cardinality(LinksOf(e))' = Cardinality(LinksOf(e)) - 1
    BY <1>3, <1>4, FS_RemoveElement
  <1>6. \A f : f # e => LinksOf(f)' = LinksOf(f)
    BY <1>1 DEF LinksOf
  <1> QED
    BY <1>2, <1>5, <1>6

\* An entry without a protocol account has no dependency account.
LEMMA UnregisteredHasNone ==
    ASSUME Inv, NEW e, e \notin registered
    PROVE  LinksOf(e) = {}
  BY DEF Inv, NoOrphans, LinksOf

LEMMA InitInv == RegistryInit => Inv
  <1> SUFFICES ASSUME RegistryInit PROVE Inv
    OBVIOUS
  <1>1. NoAccount \in Protocol
    BY RegistryAssumption DEF NoAccount, Protocol
  <1>2. RegistryTypeOK
    BY <1>1 DEF RegistryInit, RegistryTypeOK
  <1>3. FiniteLinks
    BY FS_EmptySet DEF RegistryInit, FiniteLinks
  <1>4. CountExact /\ NoOrphans
    BY DEF RegistryInit, CountExact, NoOrphans
  <1> QED
    BY <1>2, <1>3, <1>4 DEF Inv

LEMMA RegisterInv ==
    ASSUME Inv, NEW e \in Entry, NEW url \in Url, NEW proof \in BOOLEAN,
           Register(e, url, proof)
    PROVE  Inv'
  <1> DEFINE p == [alert_url |-> url, dependency_count |-> 0, proven |-> proof]
  <1>1. url \in Url \ TooLong
    BY DEF Register
  <1>2. p \in Protocol
    BY <1>1, RegistryAssumption DEF Protocol
  <1>3. /\ registered' = registered \cup {e} /\ e \notin registered
        /\ protocol' = [protocol EXCEPT ![e] = p]
        /\ UNCHANGED <<owner, dependencies, muted>>
    BY DEF Register
  <1> HIDE DEF p
  <1>4. RegistryTypeOK'
    BY <1>2, <1>3 DEF Inv, RegistryTypeOK
  <1>5. protocol'[e] = p /\ \A f \in registered : protocol'[f] = protocol[f]
    BY <1>3 DEF Inv, RegistryTypeOK
  <1>6. Cardinality(LinksOf(e)) = 0
    BY <1>3, UnregisteredHasNone, FS_EmptySet
  <1>7. \A f : LinksOf(f)' = LinksOf(f)
    BY <1>3 DEF LinksOf
  <1>8. p.dependency_count = 0
    BY DEF p
  <1>9. CountExact'
    BY <1>3, <1>5, <1>6, <1>7, <1>8 DEF Inv, CountExact
  <1>10. FiniteLinks' /\ NoOrphans'
    BY <1>3 DEF Inv, FiniteLinks, NoOrphans
  <1> QED
    BY <1>4, <1>9, <1>10 DEF Inv

LEMMA AddInv ==
    ASSUME Inv, NEW e \in Entry, NEW d \in Program, AddDependency(e, d)
    PROVE  Inv'
  <1> DEFINE n == protocol[e].dependency_count
  <1>1. /\ e \in registered /\ n < MaxDependencies
        /\ protocol' = [protocol EXCEPT ![e].dependency_count = n + 1]
        /\ dependencies' = dependencies \cup {<<e, d>>}
        /\ UNCHANGED <<owner, registered, muted>>
    BY DEF AddDependency
  <1>2. protocol[e] \in Protocol /\ n \in 0 .. MaxDependencies
    BY DEF Inv, RegistryTypeOK, Protocol
  <1>3. n + 1 \in 0 .. MaxDependencies
    BY <1>1, <1>2, RegistryAssumption
  <1>4. /\ protocol' \in [Entry -> Protocol]
        /\ protocol'[e].dependency_count = n + 1
        /\ \A f \in registered : f # e => protocol'[f] = protocol[f]
    BY <1>1, <1>2, <1>3 DEF Inv, RegistryTypeOK, Protocol
  <1>5. RegistryTypeOK'
    BY <1>1, <1>4 DEF Inv, RegistryTypeOK, Link
  <1>6. n = Cardinality(LinksOf(e))
    BY <1>1 DEF Inv, CountExact
  <1>7. CountExact'
    BY <1>1, <1>4, <1>6, LinkAdded DEF Inv, CountExact
  <1>8. NoOrphans'
    BY <1>1 DEF Inv, NoOrphans
  <1> QED
    BY <1>5, <1>7, <1>8, LinkAdded DEF Inv

LEMMA RemoveInv ==
    ASSUME Inv, NEW e \in Entry, NEW d \in Program, RemoveDependency(e, d)
    PROVE  Inv'
  <1> DEFINE n == protocol[e].dependency_count
  <1>1. /\ e \in registered /\ n > 0
        /\ protocol' = [protocol EXCEPT ![e].dependency_count = n - 1]
        /\ dependencies' = dependencies \ {<<e, d>>}
        /\ muted' = muted \ {<<e, d>>}
        /\ UNCHANGED <<owner, registered>>
    BY DEF RemoveDependency
  <1>2. protocol[e] \in Protocol /\ n \in 0 .. MaxDependencies
    BY DEF Inv, RegistryTypeOK, Protocol
  <1>3. n - 1 \in 0 .. MaxDependencies
    BY <1>1, <1>2, RegistryAssumption
  <1>4. /\ protocol' \in [Entry -> Protocol]
        /\ protocol'[e].dependency_count = n - 1
        /\ \A f \in registered : f # e => protocol'[f] = protocol[f]
    BY <1>1, <1>2, <1>3 DEF Inv, RegistryTypeOK, Protocol
  <1>5. RegistryTypeOK'
    BY <1>1, <1>4 DEF Inv, RegistryTypeOK
  <1>6. n = Cardinality(LinksOf(e))
    BY <1>1 DEF Inv, CountExact
  <1>7. CountExact'
    BY <1>1, <1>4, <1>6, LinkRemoved DEF Inv, CountExact
  <1>8. NoOrphans'
    BY <1>1 DEF Inv, NoOrphans
  <1> QED
    BY <1>5, <1>7, <1>8, LinkRemoved DEF Inv

LEMMA SetAlertsInv ==
    ASSUME Inv, NEW e \in Entry, NEW d \in Program, NEW on \in BOOLEAN,
           SetAlerts(e, d, on)
    PROVE  Inv'
  <1>1. /\ <<e, d>> \in dependencies
        /\ muted' \subseteq muted \cup {<<e, d>>}
        /\ UNCHANGED <<owner, registered, protocol, dependencies>>
    BY DEF SetAlerts
  <1>2. RegistryTypeOK'
    BY <1>1 DEF Inv, RegistryTypeOK
  <1>3. FiniteLinks' /\ NoOrphans' /\ CountExact'
    BY <1>1 DEF Inv, FiniteLinks, NoOrphans, CountExact, LinksOf
  <1> QED
    BY <1>2, <1>3 DEF Inv

LEMMA UpdateInv ==
    ASSUME Inv, NEW e \in Entry, NEW url \in Url, UpdateProtocol(e, url)
    PROVE  Inv'
  <1>1. /\ url \in Url \ TooLong
        /\ protocol' = [protocol EXCEPT ![e].alert_url = url]
        /\ UNCHANGED <<owner, registered, dependencies, muted>>
    BY DEF UpdateProtocol
  <1>2. /\ protocol' \in [Entry -> Protocol]
        /\ \A f \in Entry : protocol'[f].dependency_count = protocol[f].dependency_count
    BY <1>1 DEF Inv, RegistryTypeOK, Protocol
  <1>3. RegistryTypeOK'
    BY <1>1, <1>2 DEF Inv, RegistryTypeOK
  <1>4. registered \subseteq Entry
    BY DEF Inv, RegistryTypeOK
  <1>5. FiniteLinks' /\ NoOrphans' /\ CountExact'
    BY <1>1, <1>2, <1>4 DEF Inv, FiniteLinks, NoOrphans, CountExact, LinksOf
  <1> QED
    BY <1>3, <1>5 DEF Inv

\* The guard of unregister is on the count; that the count is exact makes it
\* one on the accounts.
LEMMA UnregisterInv ==
    ASSUME Inv, NEW e \in Entry, Unregister(e)
    PROVE  Inv'
  <1>1. /\ e \in registered /\ protocol[e].dependency_count = 0
        /\ registered' = registered \ {e}
        /\ protocol' = [protocol EXCEPT ![e] = NoAccount]
        /\ UNCHANGED <<owner, dependencies, muted>>
    BY DEF Unregister
  <1>2. NoAccount \in Protocol
    BY RegistryAssumption DEF NoAccount, Protocol
  <1>3. RegistryTypeOK'
    BY <1>1, <1>2 DEF Inv, RegistryTypeOK
  <1>4. \A f \in registered' : protocol'[f] = protocol[f]
    BY <1>1 DEF Inv, RegistryTypeOK
  <1>5. CountExact'
    BY <1>1, <1>4 DEF Inv, CountExact, LinksOf
  <1>6. IsFiniteSet(LinksOf(e)) /\ Cardinality(LinksOf(e)) = 0
    BY <1>1, LinksFinite DEF Inv, CountExact
  <1>7. LinksOf(e) = {}
    BY <1>6, FS_EmptySet
  <1>8. NoOrphans'
    BY <1>1, <1>7 DEF Inv, NoOrphans, LinksOf
  <1>9. FiniteLinks'
    BY <1>1 DEF Inv, FiniteLinks
  <1> QED
    BY <1>3, <1>5, <1>8, <1>9 DEF Inv

LEMMA HandOverInv ==
    ASSUME Inv, NEW c \in Cluster, NEW s \in Subject,
           NEW a \in Authority \cup {Nobody}, HandOver(c, s, a)
    PROVE  Inv'
  <1>1. owner' = [owner EXCEPT ![c][s] = a] /\ UNCHANGED registry
    BY DEF HandOver
  <1>2. RegistryTypeOK'
    BY <1>1 DEF Inv, RegistryTypeOK, registry
  <1>3. FiniteLinks' /\ NoOrphans' /\ CountExact'
    BY <1>1 DEF Inv, FiniteLinks, NoOrphans, CountExact, LinksOf, registry
  <1> QED
    BY <1>2, <1>3 DEF Inv

LEMMA NextInv == Inv /\ [RegistryNext]_<<owner, registry>> => Inv'
  <1> SUFFICES ASSUME Inv, [RegistryNext]_<<owner, registry>> PROVE Inv'
    OBVIOUS
  <1>1. CASE Instruction
    <2>1. PICK e \in Entry :
            \/ \E url \in Url : \/ \E proof \in BOOLEAN : Register(e, url, proof)
                                \/ UpdateProtocol(e, url)
            \/ \E d \in Program : \/ AddDependency(e, d) \/ RemoveDependency(e, d)
                                  \/ \E on \in BOOLEAN : SetAlerts(e, d, on)
            \/ Unregister(e)
      BY <1>1 DEF Instruction
    <2> QED
      BY <2>1, RegisterInv, UpdateInv, AddInv, RemoveInv, SetAlertsInv, UnregisterInv
  <1>2. CASE \E c \in Cluster, s \in Subject, a \in Authority \cup {Nobody} :
                HandOver(c, s, a)
    BY <1>2, HandOverInv
  <1>3. CASE UNCHANGED <<owner, registry>>
    BY <1>3 DEF Inv, RegistryTypeOK, FiniteLinks, CountExact, NoOrphans, LinksOf, registry
  <1> QED
    BY <1>1, <1>2, <1>3 DEF RegistryNext

LEMMA Invariance == RegistrySpec => []Inv
  BY InitInv, NextInv, PTL DEF RegistrySpec

\* For every registry: the count is the number of dependency accounts, so
\* unregister and the limit of MAX_DEPENDENCIES see what is there, and no
\* dependency account outlives the protocol it belongs to, whatever is
\* unregistered and registered again (add_dependency.rs, remove_dependency.rs,
\* unregister.rs).
THEOREM RegistryBooks == RegistrySpec => [](RegistryTypeOK /\ BooksExact)
  <1>1. Inv => RegistryTypeOK /\ BooksExact
    BY DEF Inv, BooksExact
  <1> QED
    BY <1>1, Invariance, PTL

-----------------------------------------------------------------------------
\* The watcher

\* A step of the watcher, or a deploy, is none of the registry.
LEMMA NextImplements == [Next]_vars => [RegistryNext]_<<owner, registry>>
  <1> SUFFICES ASSUME [Next]_vars PROVE [RegistryNext]_<<owner, registry>>
    OBVIOUS
  <1>1. CASE Watcher
    BY <1>1 DEF Watcher, ReadProtocols, ReadDependencies, VerifyNext, Plan,
                NothingWatched, AskDeploy, Check, ChecksDone, Snapshot, world
  <1>2. CASE \E c \in Cluster, d \in Program : Deploy(c, d)
    BY <1>2 DEF Deploy
  <1>3. CASE Transact
    BY <1>3 DEF Transact
  <1>4. CASE UNCHANGED vars
    BY <1>4 DEF vars, registry
  <1> QED
    BY <1>1, <1>2, <1>3, <1>4 DEF Next

\* The registry and its watcher implement the registry alone: whatever holds
\* of the registry holds with the server running (depwatch.rs only reads).
THEOREM ImplementsRegistry == Spec => RegistrySpec
  <1>1. Init => RegistryInit
    BY DEF Init
  <1> QED
    BY <1>1, NextImplements, PTL DEF Spec, RegistrySpec

\* The count is exact, and nothing orphaned, with the watcher running.
THEOREM BooksKept == Spec => []BooksExact
  <1>1. Inv => BooksExact
    BY DEF Inv, BooksExact
  <1> QED
    BY <1>1, ImplementsRegistry, Invariance, PTL

-----------------------------------------------------------------------------
\* Deploys are numbered; a pass keeps its fields, and its programs are places
\* in the two lists.
Shape ==
    /\ deployed \in [Cluster -> [Program -> Nat \cup {Frozen, NotThere}]]
    /\ held \in [Cluster -> [Program -> [slot : Nat, elf : Nat] \cup {NotHeld}]]
    /\ pass = [pc |-> pass.pc, entries |-> pass.entries, links |-> pass.links,
               unplaced |-> pass.unplaced, cluster |-> pass.cluster,
               todo |-> pass.todo, slot |-> pass.slot, due |-> pass.due]
    /\ pass.todo \subseteq (1 .. Len(Clusters)) \X (1 .. Len(Sorted))
    /\ pass.pc \in {"check", "snapshot"} => pass.todo # {}

\* The slot a pass has asked for is that of a deploy there has been.
SlotBehind ==
    pass.pc \in {"check", "snapshot"} =>
        /\ deployed[Cl][Dep] \in Nat
        /\ pass.slot \in Nat /\ pass.slot <= deployed[Cl][Dep]

\* What is held is stamped no later than it is, and was deployed.
HeldBehind ==
    \A c \in Cluster, d \in Program : held[c][d] # NotHeld =>
        /\ deployed[c][d] \in Nat /\ held[c][d] \in [slot : Nat, elf : Nat]
        /\ held[c][d].slot <= held[c][d].elf /\ held[c][d].elf <= deployed[c][d]

\* A program is checked because its deploy slot is later than the stamp.
ChecksNewer ==
    pass.pc = "check" => held[Cl][Dep] # NotHeld /\ held[Cl][Dep].slot < pass.slot

\* A dependent has the report of a deploy, or the check failed.
Told(e, c, d, slot) ==
    \/ \E r \in reports : r.entry = e /\ r.program = d /\ r.cluster = c /\ r.slot = slot
    \/ <<e, c, d, slot>> \in skipped

\* Whoever is due is told, or still on the list.
DueTold ==
    pass.pc \in {"check", "snapshot"} /\ held[Cl][Dep] # NotHeld =>
        \A e \in Due(Cl, Dep) :
            (pass.pc = "check" /\ e \in pass.due) \/ Told(e, Cl, Dep, pass.slot)

WatchInv == Shape /\ SlotBehind /\ HeldBehind /\ ChecksNewer /\ DueTold /\ Differential

\* A pass with programs left has one at hand: the order of the list is well
\* founded, whatever the numbers of clusters and programs.
LEMMA AtHand ==
    ASSUME Shape, pass.todo # {}
    PROVE  Here \in pass.todo /\ Cl \in Cluster /\ Dep \in Program
  <1> DEFINE lt == OpToRel(<, Nat)
             lex == LexPairOrdering(lt, lt, Nat, Nat)
  <1>1. IsWellFoundedOn(lex, Nat \X Nat)
    <2>1. IsWellFoundedOn(lt, Nat)
      BY NatLessThanWellFounded, Zenon
    <2> HIDE DEF lt
    <2> QED
      BY <2>1, WFLexPairOrdering, Zenon
  <1>2. pass.todo \subseteq Nat \X Nat
    <2>1. Len(Clusters) \in Nat /\ Len(Sorted) \in Nat
      BY WatchAssumption
    <2> QED
      BY <2>1 DEF Shape
  <1>3. PICK x \in pass.todo : \A y \in pass.todo : <<y, x>> \notin lex
    <2> HIDE DEF lex
    <2> QED
      BY <1>1, <1>2, WFMin, Zenon
  <1>4. \A y \in pass.todo : Before(y, x) => <<y, x>> \in lex
    <2> SUFFICES ASSUME NEW y \in pass.todo, Before(y, x)
                 PROVE  <<y, x>> \in lex
      OBVIOUS
    <2>1. y \in Nat \X Nat /\ x \in Nat \X Nat
      BY <1>2
    <2>2. \A m, n \in Nat : m < n => <<m, n>> \in lt
      BY Zenon DEF OpToRel
    <2>3. y[1] \in Nat /\ y[2] \in Nat /\ x[1] \in Nat /\ x[2] \in Nat
      BY <2>1
    <2>4. <<y[1], x[1]>> \in lt \/ (y[1] = x[1] /\ <<y[2], x[2]>> \in lt)
      <3> HIDE DEF lt
      <3> QED
        BY <2>2, <2>3 DEF Before
    <2> HIDE DEF lt
    <2> QED
      BY <2>1, <2>4 DEF LexPairOrdering
  <1>5. Here \in pass.todo
    <2>1. \E z \in pass.todo : \A y \in pass.todo : ~Before(y, z)
      <3> HIDE DEF lex
      <3> QED
        BY <1>3, <1>4
    <2> QED
      BY <2>1 DEF Here
  <1>6. Here[1] \in 1 .. Len(Clusters) /\ Here[2] \in 1 .. Len(Sorted)
    BY <1>5 DEF Shape
  <1> QED
    BY <1>5, <1>6, WatchAssumption DEF Cl, Dep

\* The program at hand and who is due for it depend on the pass alone.
LEMMA SameHand ==
    ASSUME pass.todo' = pass.todo
    PROVE  Here' = Here /\ Cl' = Cl /\ Dep' = Dep
  <1>1. Here' = Here
    BY DEF Here
  <1> QED
    BY <1>1 DEF Cl, Dep

LEMMA SameDue ==
    ASSUME pass.links' = pass.links, pass.entries' = pass.entries, pass.cluster' = pass.cluster,
           NEW c \in Cluster, NEW d \in Program
    PROVE  Due(c, d)' = Due(c, d)
  BY DEF Due, Places

LEMMA WatchInitInv == Init => WatchInv
  <1> SUFFICES ASSUME Init PROVE WatchInv
    OBVIOUS
  <1>1. Shape
    BY DEF Init, WatchInit, Shape, Idle
  <1> QED
    BY <1>1 DEF Init, WatchInit, WatchInv, SlotBehind, HeldBehind, ChecksNewer, DueTold,
                Differential, Idle

\* A pass that is not between its question and its snapshot owes nothing.
LEMMA PassMoves ==
    ASSUME WatchInv, UNCHANGED <<deployed, held, reports>>, Shape',
           pass.pc' \notin {"check", "snapshot"}
    PROVE  WatchInv'
  BY DEF WatchInv, SlotBehind, HeldBehind, ChecksNewer, DueTold, Differential

LEMMA BackToIdle ==
    ASSUME Shape, UNCHANGED <<deployed, held>>, pass' = Idle
    PROVE  Shape' /\ pass.pc' = "idle"
  <1>1. pass.pc' = "idle" /\ pass.todo' = {}
    BY DEF Idle
  <1>2. (pass = [pc |-> pass.pc, entries |-> pass.entries, links |-> pass.links,
               unplaced |-> pass.unplaced, cluster |-> pass.cluster,
               todo |-> pass.todo, slot |-> pass.slot, due |-> pass.due])'
    BY DEF Idle
  <1> QED
    BY <1>1, <1>2 DEF Shape

LEMMA NextInPass ==
    ASSUME Shape, UNCHANGED deployed, pass' = ToNext(pass),
           held' \in [Cluster -> [Program -> [slot : Nat, elf : Nat] \cup {NotHeld}]]
    PROVE  Shape' /\ pass.pc' \in {"idle", "deploy"}
  <1>1. CASE pass.todo = {Here}
    <2>1. pass' = Idle
      BY <1>1 DEF ToNext
    <2>2. (pass = [pc |-> pass.pc, entries |-> pass.entries, links |-> pass.links,
               unplaced |-> pass.unplaced, cluster |-> pass.cluster,
               todo |-> pass.todo, slot |-> pass.slot, due |-> pass.due])'
      BY <2>1 DEF Idle
    <2>3. pass.pc' = "idle" /\ pass.todo' = {}
      BY <2>1 DEF Idle
    <2> QED
      BY <2>2, <2>3 DEF Shape
  <1>2. CASE pass.todo # {Here}
    <2> DEFINE todo == pass.todo \ {Here}
    <2>1. pass' = [pass EXCEPT !.pc = "deploy", !.todo = todo, !.slot = 0]
      BY <1>2 DEF ToNext
    <2>2. todo \subseteq pass.todo
      OBVIOUS
    <2> HIDE DEF todo
    <2>3. pass' = [pc |-> "deploy", entries |-> pass.entries, links |-> pass.links,
                   unplaced |-> pass.unplaced, cluster |-> pass.cluster,
                   todo |-> todo, slot |-> 0, due |-> pass.due]
      BY <2>1 DEF Shape
    <2> QED
      BY <2>2, <2>3 DEF Shape
  <1> QED
    BY <1>1, <1>2

\* The answer to the question for the deploy slot: it is newer than the stamp
\* of what is held, and everyone due is on the list.
LEMMA AskInv == ASSUME WatchInv, AskDeploy PROVE WatchInv'
  <1>1. UNCHANGED <<deployed, held, reports, skipped>> /\ pass.todo # {} /\ Shape
    BY DEF AskDeploy, world, WatchInv
  <1>2. Cl \in Cluster /\ Dep \in Program
    BY <1>1, AtHand
  <1>3. PICK c \in Cluster, d \in Program : c = Cl /\ d = Dep
    BY <1>2
  <1>4. \/ pass' = Idle
        \/ pass' = ToNext(pass)
        \/ /\ deployed[c][d] \notin {NotThere, Frozen}
           /\ \/ /\ held[c][d] = NotHeld
                 /\ pass' = [pass EXCEPT !.pc = "snapshot", !.slot = deployed[c][d]]
              \/ /\ held[c][d] # NotHeld /\ held[c][d].slot # deployed[c][d]
                 /\ pass' = [pass EXCEPT !.pc = "check", !.slot = deployed[c][d],
                                         !.due = Due(c, d)]
    BY <1>3 DEF AskDeploy, PassOver, Abort
  <1>5. CASE pass' = Idle
    BY <1>1, <1>5, BackToIdle, PassMoves
  <1>6. CASE pass' = ToNext(pass)
    <2>1. held' \in [Cluster -> [Program -> [slot : Nat, elf : Nat] \cup {NotHeld}]]
      BY <1>1 DEF Shape
    <2> QED
      BY <1>1, <1>6, <2>1, NextInPass, PassMoves
  <1>7. CASE /\ deployed[c][d] \notin {NotThere, Frozen}
             /\ \/ /\ held[c][d] = NotHeld
                   /\ pass' = [pass EXCEPT !.pc = "snapshot", !.slot = deployed[c][d]]
                \/ /\ held[c][d] # NotHeld /\ held[c][d].slot # deployed[c][d]
                   /\ pass' = [pass EXCEPT !.pc = "check", !.slot = deployed[c][d],
                                           !.due = Due(c, d)]
    <2>1. deployed[c][d] \in Nat
      BY <1>1, <1>7 DEF Shape
    <2>2. /\ Shape' /\ pass.todo' = pass.todo /\ pass.slot' = deployed[c][d]
          /\ pass.links' = pass.links /\ pass.entries' = pass.entries
          /\ pass.cluster' = pass.cluster
          /\ \/ pass.pc' = "snapshot" /\ held[c][d] = NotHeld
             \/ /\ pass.pc' = "check" /\ pass.due' = Due(c, d)
                /\ held[c][d] # NotHeld /\ held[c][d].slot # deployed[c][d]
      <3> DEFINE due == pass.due'
                 pc == pass.pc'
      <3>1. pass' = [pc |-> pc, entries |-> pass.entries, links |-> pass.links,
                     unplaced |-> pass.unplaced, cluster |-> pass.cluster,
                     todo |-> pass.todo, slot |-> deployed[c][d], due |-> due]
        BY <1>1, <1>7 DEF Shape
      <3>2. \/ pc = "snapshot" /\ held[c][d] = NotHeld
            \/ /\ pc = "check" /\ due = Due(c, d)
               /\ held[c][d] # NotHeld /\ held[c][d].slot # deployed[c][d]
        BY <1>1, <1>7 DEF Shape
      <3>3. pass.todo' = pass.todo
        BY <3>1
      <3> QED
        BY <1>1, <3>1, <3>2, <3>3 DEF Shape
    <2>3. Cl' = c /\ Dep' = d /\ Due(c, d)' = Due(c, d)
      BY <1>3, <2>2, SameHand, SameDue
    <2>4. SlotBehind'
      BY <1>1, <2>1, <2>2, <2>3 DEF SlotBehind
    <2>5. HeldBehind' /\ Differential'
      BY <1>1 DEF WatchInv, HeldBehind, Differential
    <2>6. ChecksNewer'
      <3>1. held[c][d] # NotHeld =>
              /\ held[c][d].slot \in Nat /\ held[c][d].elf \in Nat
              /\ held[c][d].slot <= held[c][d].elf /\ held[c][d].elf <= deployed[c][d]
        BY DEF WatchInv, HeldBehind
      <3>2. pass.pc' = "check" => held[c][d] # NotHeld /\ held[c][d].slot < deployed[c][d]
        BY <2>1, <2>2, <3>1
      <3> QED
        BY <1>1, <2>2, <2>3, <3>2 DEF ChecksNewer
    <2>7. DueTold'
      BY <1>1, <2>2, <2>3 DEF DueTold
    <2> QED
      BY <2>2, <2>4, <2>5, <2>6, <2>7 DEF WatchInv
  <1> QED
    BY <1>4, <1>5, <1>6, <1>7

\* A report compares what is held with a deploy newer than its stamp.
LEMMA CheckInv ==
    ASSUME WatchInv, NEW e \in pass.due, Check(e)
    PROVE  WatchInv'
  <1>1. /\ UNCHANGED <<deployed, held>> /\ pass.pc = "check"
        /\ pass' = [pass EXCEPT !.due = pass.due \ {e}] /\ Shape
    BY DEF Check, world, WatchInv
  <1>2. PICK c \in Cluster, d \in Program : c = Cl /\ d = Dep
    BY <1>1, AtHand DEF Shape
  <1>3. /\ Shape' /\ pass.pc' = "check" /\ pass.todo' = pass.todo /\ pass.slot' = pass.slot
        /\ pass.links' = pass.links /\ pass.entries' = pass.entries
        /\ pass.cluster' = pass.cluster /\ pass.due' = pass.due \ {e}
    <2> DEFINE due == pass.due \ {e}
    <2>1. pass' = [pass EXCEPT !.due = due]
      BY <1>1
    <2> HIDE DEF due
    <2>2. pass' = [pc |-> "check", entries |-> pass.entries, links |-> pass.links,
                   unplaced |-> pass.unplaced, cluster |-> pass.cluster,
                   todo |-> pass.todo, slot |-> pass.slot, due |-> due]
      BY <1>1, <2>1 DEF Shape
    <2>3. pass.todo' = pass.todo /\ pass.due' = due
      BY <2>2
    <2> QED
      BY <1>1, <2>2, <2>3 DEF Shape, due
  <1>4. Cl' = c /\ Dep' = d /\ Due(c, d)' = Due(c, d)
    BY <1>2, <1>3, SameHand, SameDue
  <1>5. /\ deployed[c][d] \in Nat /\ pass.slot \in Nat /\ pass.slot <= deployed[c][d]
        /\ held[c][d] # NotHeld /\ held[c][d].slot < pass.slot
        /\ held[c][d].slot \in Nat /\ held[c][d].elf \in Nat
    BY <1>1, <1>2 DEF WatchInv, SlotBehind, ChecksNewer, HeldBehind
  <1>6. SlotBehind' /\ HeldBehind' /\ ChecksNewer'
    BY <1>1, <1>3, <1>4, <1>5 DEF WatchInv, SlotBehind, HeldBehind, ChecksNewer
  <1> DEFINE report == [entry |-> e, cluster |-> c, program |-> d, slot |-> pass.slot,
                        clean |-> held[c][d].slot = held[c][d].elf,
                        before |-> held[c][d].elf, after |-> deployed[c][d]]
  <1>7. \/ reports' = reports \cup {report} /\ skipped' = skipped
        \/ reports' = reports /\ skipped' = skipped \cup {<<e, c, d, pass.slot>>}
    BY <1>2 DEF Check, PreviousBinary
  <1>8. report.clean => report.before < report.after
    <2>1. report.clean = (held[c][d].slot = held[c][d].elf)
      BY Zenon
    <2>2. report.before = held[c][d].elf /\ report.after = deployed[c][d]
      OBVIOUS
    <2>3. held[c][d].slot = held[c][d].elf => held[c][d].elf < deployed[c][d]
      BY <1>5
    <2> HIDE DEF report
    <2> QED
      BY <2>1, <2>2, <2>3
  <1>9. /\ report.entry = e /\ report.program = d
        /\ report.cluster = c /\ report.slot = pass.slot
    OBVIOUS
  <1> HIDE DEF report
  <1>10. Differential'
    BY <1>7, <1>8 DEF WatchInv, Differential
  <1>11. DueTold'
    <2>1. \A x \in Due(c, d) : x \in pass.due \/ Told(x, c, d, pass.slot)
      BY <1>1, <1>2, <1>5 DEF WatchInv, DueTold
    <2>2. \A x : Told(x, c, d, pass.slot) => Told(x, c, d, pass.slot)'
      BY <1>3, <1>7 DEF Told
    <2>3. Told(e, c, d, pass.slot)'
      BY <1>3, <1>7, <1>9 DEF Told
    <2> QED
      BY <1>3, <1>4, <2>1, <2>2, <2>3 DEF DueTold
  <1> QED
    BY <1>3, <1>6, <1>10, <1>11 DEF WatchInv

LEMMA ChecksDoneInv == ASSUME WatchInv, ChecksDone PROVE WatchInv'
  <1>1. /\ UNCHANGED <<deployed, held, reports, skipped>> /\ pass.pc = "check"
        /\ pass.due = {} /\ pass' = [pass EXCEPT !.pc = "snapshot"] /\ Shape
    BY DEF ChecksDone, Go, world, WatchInv
  <1>2. PICK c \in Cluster, d \in Program : c = Cl /\ d = Dep
    BY <1>1, AtHand DEF Shape
  <1>3. /\ Shape' /\ pass.pc' = "snapshot" /\ pass.todo' = pass.todo /\ pass.slot' = pass.slot
        /\ pass.links' = pass.links /\ pass.entries' = pass.entries
        /\ pass.cluster' = pass.cluster
    BY <1>1 DEF Shape
  <1>4. Cl' = c /\ Dep' = d /\ Due(c, d)' = Due(c, d)
    BY <1>2, <1>3, SameHand, SameDue
  <1>5. SlotBehind' /\ HeldBehind' /\ ChecksNewer' /\ Differential'
    BY <1>1, <1>2, <1>3, <1>4 DEF WatchInv, SlotBehind, HeldBehind, ChecksNewer, Differential
  <1>6. DueTold'
    <2>1. held[c][d] # NotHeld => \A x \in Due(c, d) : Told(x, c, d, pass.slot)
      BY <1>1, <1>2 DEF WatchInv, DueTold
    <2>2. \A x : Told(x, c, d, pass.slot) => Told(x, c, d, pass.slot)'
      BY <1>1, <1>3 DEF Told
    <2> QED
      BY <1>1, <1>3, <1>4, <2>1, <2>2 DEF DueTold
  <1> QED
    BY <1>3, <1>5, <1>6 DEF WatchInv

\* The binary of a snapshot is that of the slot asked for, or of a later one.
LEMMA SnapshotInv == ASSUME WatchInv, Snapshot PROVE WatchInv'
  <1>1. UNCHANGED <<deployed, reports, skipped>> /\ pass.pc = "snapshot" /\ Shape
    BY DEF Snapshot, world, WatchInv
  <1>2. CASE pass' = Idle /\ UNCHANGED held
    BY <1>1, <1>2, BackToIdle, PassMoves
  <1>3. CASE /\ held' = [held EXCEPT ![Cl][Dep] =
                            [slot |-> pass.slot, elf |-> deployed[Cl][Dep]]]
             /\ pass' = ToNext(pass)
    <2>1. PICK c \in Cluster, d \in Program : c = Cl /\ d = Dep
      BY <1>1, AtHand DEF Shape
    <2> DEFINE b == [slot |-> pass.slot, elf |-> deployed[c][d]]
    <2>2. /\ b \in [slot : Nat, elf : Nat] /\ deployed[c][d] \in Nat
          /\ b.slot <= b.elf /\ b.elf <= deployed[c][d]
      BY <1>1, <2>1 DEF WatchInv, SlotBehind
    <2>3. held' = [held EXCEPT ![c][d] = b]
      BY <1>3, <2>1
    <2> HIDE DEF b
    <2>4. \A x \in Cluster, y \in Program :
             held'[x][y] = IF x = c /\ y = d THEN b ELSE held[x][y]
      BY <1>1, <2>3 DEF Shape
    <2>5. held' \in [Cluster -> [Program -> [slot : Nat, elf : Nat] \cup {NotHeld}]]
      BY <1>1, <2>2, <2>3 DEF Shape
    <2>6. HeldBehind'
      BY <1>1, <2>2, <2>4 DEF WatchInv, HeldBehind
    <2>7. Shape' /\ pass.pc' \in {"idle", "deploy"}
      BY <1>1, <1>3, <2>5, NextInPass
    <2> QED
      BY <1>1, <2>6, <2>7 DEF WatchInv, SlotBehind, ChecksNewer, DueTold, Differential
  <1> QED
    BY <1>2, <1>3 DEF Snapshot, Fetched, Abort

\* A deploy only takes the number of its program up.
LEMMA DeployInv ==
    ASSUME WatchInv, NEW c \in Cluster, NEW d \in Program, Deploy(c, d)
    PROVE  WatchInv'
  <1>1. /\ deployed[c][d] \in Nat /\ UNCHANGED <<held, pass, reports, skipped>>
        /\ deployed' = [deployed EXCEPT ![c][d] = deployed[c][d] + 1] /\ Shape
    BY DEF Deploy, WatchInv
  <1>2. \A x \in Cluster, y \in Program :
           deployed'[x][y] = IF x = c /\ y = d THEN deployed[x][y] + 1
                             ELSE deployed[x][y]
    BY <1>1 DEF Shape
  <1>3. \A x \in Cluster, y \in Program : deployed[x][y] \in Nat =>
           deployed'[x][y] \in Nat /\ deployed[x][y] <= deployed'[x][y]
    BY <1>2
  <1>4. Shape'
    BY <1>1, <1>2 DEF Shape
  <1>5. SlotBehind'
    <2> SUFFICES ASSUME pass.pc \in {"check", "snapshot"}
                 PROVE  SlotBehind'
      BY <1>1 DEF SlotBehind
    <2>1. Cl \in Cluster /\ Dep \in Program /\ Cl' = Cl /\ Dep' = Dep
      BY <1>1, AtHand, SameHand DEF Shape
    <2>2. deployed[Cl][Dep] \in Nat /\ pass.slot \in Nat /\ pass.slot <= deployed[Cl][Dep]
      BY DEF WatchInv, SlotBehind
    <2>3. deployed'[Cl][Dep] \in Nat /\ deployed[Cl][Dep] <= deployed'[Cl][Dep]
      BY <1>3, <2>1, <2>2
    <2> QED
      BY <1>1, <2>1, <2>2, <2>3 DEF SlotBehind
  <1>6. HeldBehind'
    <2> SUFFICES ASSUME NEW x \in Cluster, NEW y \in Program, held[x][y] # NotHeld
                 PROVE  /\ deployed'[x][y] \in Nat /\ held[x][y] \in [slot : Nat, elf : Nat]
                        /\ held[x][y].slot <= held[x][y].elf
                        /\ held[x][y].elf <= deployed'[x][y]
      BY <1>1 DEF HeldBehind
    <2>1. /\ deployed[x][y] \in Nat /\ held[x][y] \in [slot : Nat, elf : Nat]
          /\ held[x][y].slot <= held[x][y].elf /\ held[x][y].elf <= deployed[x][y]
      BY DEF WatchInv, HeldBehind
    <2>2. deployed'[x][y] \in Nat /\ deployed[x][y] <= deployed'[x][y]
      BY <1>3, <2>1
    <2> QED
      BY <2>1, <2>2
  <1>7. ChecksNewer' /\ Differential'
    BY <1>1, SameHand DEF WatchInv, ChecksNewer, Differential
  <1>8. DueTold'
    <2>1. Cl' = Cl /\ Dep' = Dep /\ Due(Cl, Dep)' = Due(Cl, Dep)
      BY <1>1, SameHand DEF Due, Places
    <2> QED
      BY <1>1, <2>1 DEF WatchInv, DueTold, Told
  <1> QED
    BY <1>4, <1>5, <1>6, <1>7, <1>8 DEF WatchInv

LEMMA ReadingInv ==
    ASSUME WatchInv,
           \/ ReadProtocols \/ ReadDependencies \/ Plan \/ NothingWatched
           \/ \E e \in pass.unplaced, failing \in SUBSET Cluster : VerifyNext(e, failing)
    PROVE  WatchInv'
  <1>1. UNCHANGED <<deployed, held, reports>> /\ Shape
    BY DEF ReadProtocols, ReadDependencies, Plan, NothingWatched, VerifyNext, world, WatchInv
  <1>2. Shape' /\ pass.pc' \in {"idle", "links", "verify", "deploy"}
    <2>1. CASE ReadProtocols \/ NothingWatched
      <3>1. pass' = Idle \/ pass' = [Idle EXCEPT !.pc = "links", !.entries = registered]
        BY <2>1 DEF ReadProtocols, NothingWatched, Abort
      <3>2. CASE pass' = [Idle EXCEPT !.pc = "links", !.entries = registered]
        <4>1. pass' = [pc |-> "links", entries |-> registered, links |-> {},
                       unplaced |-> {}, cluster |-> <<>>, todo |-> {},
                       slot |-> 0, due |-> {}]
          BY <3>2 DEF Idle
        <4> QED
          BY <1>1, <4>1 DEF Shape
      <3> QED
        BY <1>1, <3>1, <3>2, BackToIdle
    <2>2. CASE ReadDependencies
      <3> DEFINE links == {[link |-> l, alerts |-> l \notin muted] : l \in dependencies}
      <3>1. \/ pass' = Idle
            \/ pass' = [pass EXCEPT !.pc = "verify", !.links = links,
                                    !.unplaced = pass.entries]
        BY <2>2 DEF ReadDependencies, Abort
      <3> HIDE DEF links
      <3>2. CASE pass' = [pass EXCEPT !.pc = "verify", !.links = links,
                                      !.unplaced = pass.entries]
        BY <1>1, <3>2 DEF Shape
      <3> QED
        BY <1>1, <3>1, <3>2, BackToIdle
    <2>3. CASE Plan
      <3>1. Watched \subseteq (1 .. Len(Clusters)) \X (1 .. Len(Sorted))
        BY DEF Watched
      <3>2. pass' = [pass EXCEPT !.pc = "deploy", !.todo = Watched]
        BY <2>3 DEF Plan
      <3>3. pass' = [pc |-> "deploy", entries |-> pass.entries, links |-> pass.links,
                     unplaced |-> pass.unplaced, cluster |-> pass.cluster,
                     todo |-> Watched, slot |-> pass.slot, due |-> pass.due]
        BY <1>1, <3>2 DEF Shape
      <3> QED
        BY <1>1, <3>1, <3>3 DEF Shape
    <2>4. CASE \E e \in pass.unplaced, failing \in SUBSET Cluster : VerifyNext(e, failing)
      <3>1. PICK e \in pass.unplaced, failing \in SUBSET Cluster : VerifyNext(e, failing)
        BY <2>4
      <3> DEFINE unplaced == pass.unplaced'
                 cluster == pass.cluster'
      <3>2. pass' = [pass EXCEPT !.unplaced = unplaced, !.cluster = cluster]
            /\ pass.pc = "verify"
        BY <1>1, <3>1 DEF VerifyNext, Shape
      <3> QED
        BY <1>1, <3>2 DEF Shape
    <2> QED
      BY <2>1, <2>2, <2>3, <2>4
  <1> QED
    BY <1>1, <1>2, PassMoves

LEMMA WatchStill ==
    ASSUME WatchInv, UNCHANGED <<deployed, held, pass, reports, skipped>>
    PROVE  WatchInv'
  <1>1. Cl' = Cl /\ Dep' = Dep /\ Due(Cl, Dep)' = Due(Cl, Dep)
    BY SameHand DEF Due, Places
  <1>2. Shape' /\ HeldBehind' /\ Differential'
    BY DEF WatchInv, Shape, HeldBehind, Differential
  <1>3. SlotBehind' /\ ChecksNewer'
    BY <1>1 DEF WatchInv, SlotBehind, ChecksNewer
  <1>4. DueTold'
    BY <1>1 DEF WatchInv, DueTold, Told
  <1> QED
    BY <1>2, <1>3, <1>4 DEF WatchInv

LEMMA WatchNextInv == WatchInv /\ [Next]_vars => WatchInv'
  <1> SUFFICES ASSUME WatchInv, [Next]_vars PROVE WatchInv'
    OBVIOUS
  <1>1. CASE Watcher
    BY <1>1, ReadingInv, AskInv, CheckInv, ChecksDoneInv, SnapshotInv DEF Watcher
  <1>2. CASE \E c \in Cluster, d \in Program : Deploy(c, d)
    BY <1>2, DeployInv
  <1>3. CASE Transact
    BY <1>3, WatchStill DEF Transact
  <1>4. CASE UNCHANGED vars
    BY <1>4, WatchStill DEF vars
  <1> QED
    BY <1>1, <1>2, <1>3, <1>4 DEF Next

\* For every number of programs, clusters, deploys and failing calls: no
\* binary is held under a slot that is ahead of it, so a deploy that lands
\* between the two questions of a snapshot is still seen by the next pass
\* (depwatch.rs, snapshot asks for the slot first).
THEOREM NeverAhead == Spec => []HeldNotAhead
  <1>1. WatchInv => HeldNotAhead
    BY DEF WatchInv, HeldBehind, HeldNotAhead
  <1> QED
    BY <1>1, WatchInitInv, WatchNextInv, PTL DEF Spec

\* For every number of deploys, wherever they land: a report compares a binary
\* with a later one, unless a deploy came between the two questions of the
\* snapshot its "before" is from (depwatch.rs, previous_binary, run_checks).
THEOREM ReportsDiffer == Spec => []Differential
  <1>1. WatchInv => Differential
    BY DEF WatchInv
  <1> QED
    BY <1>1, WatchInitInv, WatchNextInv, PTL DEF Spec

\* Only a snapshot replaces what is held, and by then everyone due is told.
LEMMA ReplacedWhenTold ==
    ASSUME WatchInv, [Next]_vars, NEW c \in Cluster, NEW d \in Program,
           held[c][d] # NotHeld, held'[c][d] # held[c][d]
    PROVE  \A e \in Due(c, d) : Told(e, c, d, held'[c][d].slot)
  <1>1. Snapshot /\ ~(UNCHANGED held)
    BY DEF Next, Watcher, ReadProtocols, ReadDependencies, VerifyNext, Plan, NothingWatched,
           AskDeploy, Check, ChecksDone, Deploy, Transact, vars
  <1>2. /\ pass.pc = "snapshot"
        /\ held' = [held EXCEPT ![Cl][Dep] =
                      [slot |-> pass.slot, elf |-> deployed[Cl][Dep]]]
    BY <1>1 DEF Snapshot, Fetched
  <1>3. c = Cl /\ d = Dep
    BY <1>2 DEF WatchInv, Shape
  <1>4. held'[c][d].slot = pass.slot
    BY <1>2, <1>3 DEF WatchInv, Shape
  <1>5. \A e \in Due(c, d) : Told(e, c, d, pass.slot)
    BY <1>2, <1>3 DEF WatchInv, DueTold
  <1> QED
    BY <1>4, <1>5

\* For every number of dependents, programs and failing calls: when the held
\* binary is replaced, everyone who was due has the report of the new deploy,
\* or their check failed (depwatch.rs, the snapshot comes after the checks).
THEOREM AllTold == Spec => ReportedBeforeReplaced
  <1>1. WatchInv /\ [Next]_vars =>
          [\A c \in Cluster, d \in Program :
             held[c][d] # NotHeld /\ held'[c][d] # held[c][d] =>
                 \A e \in Due(c, d) :
                     \/ \E r \in reports : /\ r.entry = e /\ r.program = d
                                           /\ r.cluster = c /\ r.slot = held'[c][d].slot
                     \/ <<e, c, d, held'[c][d].slot>> \in skipped]_vars
    BY ReplacedWhenTold DEF Told
  <1> QED
    BY <1>1, WatchInitInv, WatchNextInv, PTL DEF Spec, ReportedBeforeReplaced
-----------------------------------------------------------------------------
\* Numbers in order, for the check

\* The least of a set of numbers.
LEMMA Smallest ==
    ASSUME NEW T \in SUBSET Nat, T # {}
    PROVE  \E i \in T : \A j \in T : i <= j
  <1> DEFINE R == {ss \in Nat \X Nat : ss[1] < ss[2]}
  <1>1. R = OpToRel(<, Nat)
    BY Zenon DEF OpToRel
  <1>2. IsWellFoundedOn(R, Nat)
    BY <1>1, NatLessThanWellFounded, Zenon
  <1>3. PICK i \in T : \A j \in T : <<j, i>> \notin R
    <2> HIDE DEF R
    <2>1. T \subseteq Nat
      OBVIOUS
    <2>2. QED
      BY <1>2, <2>1, WFMin, Zenon
  <1>4. \A j \in T : i <= j
    <2>1. TAKE j \in T
    <2>2. i \in Nat /\ j \in Nat
      OBVIOUS
    <2>3. <<j, i>> \notin R
      BY <1>3
    <2>4. ~(j < i)
      BY <2>2, <2>3
    <2>5. QED
      BY <2>2, <2>4
  <1>5. QED
    BY <1>4

\* Induction, over the set of the numbers for which something holds.
LEMMA EveryNumber ==
    ASSUME NEW T \in SUBSET Nat, 0 \in T, \A n \in T : n + 1 \in T
    PROVE  T = Nat
  <1>1. SUFFICES ASSUME Nat \ T # {} PROVE FALSE
    OBVIOUS
  <1>2. PICK i \in Nat \ T : \A j \in Nat \ T : i <= j
    BY <1>1, Smallest
  <1>3. i # 0 /\ i - 1 \in Nat /\ i - 1 \in T
    BY <1>2
  <1>4. QED
    BY <1>2, <1>3

AscendingOf(q, S) ==
    /\ q \in [1 .. Cardinality(S) -> S]
    /\ \A i, j \in 1 .. Cardinality(S) : i < j => q[i] < q[j]

\* Every set of numbers up to n can be put in order: by induction on n.
LEMMA AscendingExists ==
    ASSUME NEW n \in Nat, NEW S \in SUBSET (1 .. n)
    PROVE  IsFiniteSet(S) /\ Cardinality(S) \in Nat /\ \E q : AscendingOf(q, S)
  <1> DEFINE T == {m \in Nat : \A U \in SUBSET (1 .. m) : \E q : AscendingOf(q, U)}
  <1>1. \A m \in Nat : \A U \in SUBSET (1 .. m) : IsFiniteSet(U) /\ Cardinality(U) \in Nat
    <2>1. TAKE m \in Nat
    <2>2. TAKE U \in SUBSET (1 .. m)
    <2>3. IsFiniteSet(1 .. m)
      BY FS_Interval
    <2>4. IsFiniteSet(U)
      BY <2>3, FS_Subset
    <2>5. QED
      BY <2>4, FS_CardinalityType
  <1>2. 0 \in T
    <2>1. SUFFICES ASSUME NEW U \in SUBSET (1 .. 0) PROVE \E q : AscendingOf(q, U)
      OBVIOUS
    <2>2. U = {}
      OBVIOUS
    <2>3. Cardinality(U) = 0
      BY <2>2, FS_EmptySet
    <2>4. AscendingOf([i \in 1 .. 0 |-> 0], U)
      BY <2>3 DEF AscendingOf
    <2>5. QED
      BY <2>4
  <1>3. ASSUME NEW m \in T PROVE m + 1 \in T
    <2>1. SUFFICES ASSUME NEW U \in SUBSET (1 .. m + 1) PROVE \E q : AscendingOf(q, U)
      BY <1>3
    <2>2. CASE m + 1 \notin U
      <3>1. U \in SUBSET (1 .. m)
        BY <1>3, <2>2
      <3>2. QED
        BY <1>3, <3>1
    <2>3. CASE m + 1 \in U
      <3> DEFINE W == U \ {m + 1}
      <3>1. W \in SUBSET (1 .. m) /\ m \in Nat /\ m + 1 \in Nat
        BY <1>3
      <3>2. Cardinality(U) \in Nat /\ Cardinality(W) = Cardinality(U) - 1
            /\ Cardinality(W) \in Nat
        <4>1. IsFiniteSet(U) /\ Cardinality(U) \in Nat
          BY <1>1, <3>1
        <4>2. Cardinality(W) = Cardinality(U) - 1
          BY <2>3, <4>1, FS_RemoveElement
        <4>3. QED
          BY <1>1, <3>1, <4>1, <4>2
      <3>3. PICK q : AscendingOf(q, W)
        BY <1>3, <3>1
      <3> DEFINE r == [i \in 1 .. Cardinality(U) |-> IF i = Cardinality(U) THEN m + 1 ELSE q[i]]
      <3>4. ASSUME NEW i \in 1 .. Cardinality(U), i # Cardinality(U)
            PROVE  q[i] \in W /\ q[i] < m + 1 /\ r[i] = q[i]
        <4> HIDE DEF W
        <4>1. i \in 1 .. Cardinality(W)
          BY <3>2, <3>4
        <4>2. q[i] \in W
          BY <3>3, <4>1 DEF AscendingOf
        <4>3. q[i] \in 1 .. m /\ m \in Nat
          BY <3>1, <4>2
        <4>4. q[i] < m + 1
          BY <4>3
        <4>5. QED
          BY <3>4, <4>2, <4>4
      <3>5. \A i \in 1 .. Cardinality(U) : r[i] \in U
        <4>1. TAKE i \in 1 .. Cardinality(U)
        <4>2. CASE i = Cardinality(U)
          BY <2>3, <4>2
        <4>3. CASE i # Cardinality(U)
          BY <3>4, <4>3
        <4>4. QED
          BY <4>2, <4>3
      <3>6. ASSUME NEW i \in 1 .. Cardinality(U), NEW j \in 1 .. Cardinality(U), i < j
            PROVE  r[i] < r[j]
        <4>1. CASE j = Cardinality(U)
          <5>1. i # Cardinality(U)
            BY <3>2, <3>6, <4>1
          <5>2. r[i] < m + 1
            BY <3>4, <5>1
          <5>3. QED
            BY <4>1, <5>2
        <4>2. CASE j # Cardinality(U)
          <5> HIDE DEF W
          <5>1. i # Cardinality(U) /\ i \in 1 .. Cardinality(W) /\ j \in 1 .. Cardinality(W)
            BY <3>2, <3>6, <4>2
          <5>2. q[i] < q[j]
            BY <3>3, <3>6, <5>1 DEF AscendingOf
          <5>3. r[i] = q[i] /\ r[j] = q[j]
            BY <3>4, <4>2, <5>1
          <5>4. QED
            BY <5>2, <5>3
        <4>3. QED
          BY <4>1, <4>2
      <3>7. AscendingOf(r, U)
        <4> HIDE DEF r
        <4>1. r \in [1 .. Cardinality(U) -> U]
          BY <3>5 DEF r
        <4>2. QED
          BY <3>6, <4>1 DEF AscendingOf
      <3>8. QED
        BY <3>7, Zenon
    <2>4. QED
      BY <2>2, <2>3
  <1>4. T = Nat
    <2> HIDE DEF T
    <2>1. T \in SUBSET Nat
      BY DEF T
    <2>2. QED
      BY <1>2, <1>3, <2>1, EveryNumber
  <1>5. QED
    <2> HIDE DEF T
    <2>1. \E q : AscendingOf(q, S)
      BY <1>4 DEF T
    <2>2. QED
      BY <1>1, <2>1

\* What Ascending gives: all of S, rising.
LEMMA AscendingProperties ==
    ASSUME NEW n \in Nat, NEW S \in SUBSET (1 .. n)
    PROVE  /\ Cardinality(S) \in Nat
           /\ AscendingOf(Ascending(S), S)
           /\ DOMAIN Ascending(S) = 1 .. Cardinality(S)
           /\ \A s \in S : \E i \in 1 .. Cardinality(S) : Ascending(S)[i] = s
  <1> DEFINE q == Ascending(S)
             c == Cardinality(S)
  <1>1. IsFiniteSet(S) /\ c \in Nat /\ \E r : AscendingOf(r, S)
    BY AscendingExists
  <1>2. AscendingOf(q, S)
    BY <1>1 DEF Ascending, AscendingOf
  <1>3. q \in Injection(1 .. c, S)
    <2>1. q \in [1 .. c -> S]
      BY <1>2 DEF AscendingOf
    <2>2. \A i, j \in 1 .. c : i # j => q[i] # q[j]
      <3>1. TAKE i, j \in 1 .. c
      <3>2. i \in Int /\ j \in Int /\ q[i] \in Int /\ q[j] \in Int
        <4>1. c \in Nat /\ i \in 1 .. c /\ j \in 1 .. c
          BY <1>1
        <4>2. q[i] \in 1 .. n /\ q[j] \in 1 .. n
          BY <2>1
        <4> HIDE DEF q, c
        <4>3. QED
          BY <4>1, <4>2
      <3>3. i < j => q[i] < q[j]
        BY <1>2 DEF AscendingOf
      <3>4. j < i => q[j] < q[i]
        BY <1>2 DEF AscendingOf
      <3>5. QED
        BY <3>2, <3>3, <3>4
    <2>3. QED
      BY <2>1, <2>2 DEF Injection, IsInjective
  <1>4. Cardinality(1 .. c) = c
    <2> HIDE DEF c
    <2>1. QED
      BY <1>1, FS_Interval
  <1>5. q \in Surjection(1 .. c, S)
    <2> HIDE DEF q, c
    <2>1. QED
      BY <1>1, <1>3, <1>4, FS_Injection DEF c
  <1>6. q \in [1 .. c -> S] /\ \A s \in S : \E i \in 1 .. c : q[i] = s
    <2> HIDE DEF q, c
    <2>1. QED
      BY <1>5 DEF Surjection
  <1>7. QED
    BY <1>1, <1>2, <1>6

-----------------------------------------------------------------------------
(* A dependency check: lists of transactions.                                *)

\* q is the first n of the transactions of txs at the places S, at telling where.
FrontAt(q, list, S, n, at) ==
    /\ at \in [1..Len(q) -> S]
    /\ \A i, j \in 1..Len(q) : i < j => at[i] < at[j]
    /\ \A i \in 1..Len(q) : q[i] = list[at[i]]
    /\ \A s \in S : \/ \E i \in 1..Len(q) : at[i] = s
                    \/ Len(q) = n /\ \A i \in 1..Len(q) : at[i] < s
IsFront(q, list, S, n) ==
    /\ q \in Seq({list[s] : s \in S}) /\ Len(q) <= n
    /\ \E at : FrontAt(q, list, S, n, at)

LEMMA PickedFront ==
    ASSUME NEW m \in Nat, NEW S \in SUBSET (1..m), NEW list, NEW n \in Nat
    PROVE  IsFront(FirstOf(Picked(list, S), n), list, S, n)
  <1> DEFINE c == Cardinality(S)
             k == IF c < n THEN c ELSE n
             up == Ascending(S)
             at == [i \in 1..k |-> up[i]]
             q == FirstOf(Picked(list, S), n)
  <1>1. /\ c \in Nat /\ up \in [1..c -> S] /\ DOMAIN up = 1..c
        /\ \A i, j \in 1..c : i < j => up[i] < up[j]
        /\ \A s \in S : \E i \in 1..c : up[i] = s
    BY AscendingProperties DEF AscendingOf
  <1>2. Picked(list, S) = [i \in 1..c |-> list[up[i]]]
    <2> HIDE DEF c
    <2>1. QED
      BY <1>1 DEF Picked
  <1>3. Len(Picked(list, S)) = c
    <2> HIDE DEF c, up
    <2>1. QED
      BY <1>1, <1>2
  <1>4. k \in 0..c /\ k <= n /\ k \in Nat /\ (k = c \/ k = n)
    <2> HIDE DEF c
    <2>1. QED
      BY <1>1
  <1>5. q = [i \in 1..k |-> list[up[i]]]
    <2>1. q = [i \in 1..k |-> Picked(list, S)[i]]
      BY <1>3 DEF FirstOf
    <2>2. \A i \in 1..k : Picked(list, S)[i] = list[up[i]]
      <3> HIDE DEF c, k, up
      <3>1. QED
        BY <1>1, <1>2, <1>4
    <2> HIDE DEF q, k, up
    <2>3. QED
      BY <2>1, <2>2
  <1>6. Len(q) = k /\ q \in Seq({list[s] : s \in S})
    <2>1. \A i \in 1..k : up[i] \in S
      <3> HIDE DEF c, k, up
      <3>1. QED
        BY <1>1, <1>4
    <2> HIDE DEF c, k, up, q
    <2>2. QED
      BY <1>4, <1>5, <2>1
  <1>7. FrontAt(q, list, S, n, at)
    <2>1. \A i \in 1..k : at[i] = up[i] /\ up[i] \in S /\ q[i] = list[at[i]] /\ i \in 1..c
      <3> HIDE DEF c, k, up, q
      <3>1. QED
        BY <1>1, <1>4, <1>5
    <2>2. at \in [1..k -> S]
      <3> HIDE DEF c, k, up
      <3>1. QED
        BY <2>1
    <2>3. \A i, j \in 1..k : i < j => at[i] < at[j]
      <3> HIDE DEF c, k, up, at
      <3>1. QED
        BY <1>1, <2>1
    <2>4. ASSUME NEW s \in S
          PROVE  (\E i \in 1..k : at[i] = s) \/ (k = n /\ \A i \in 1..k : at[i] < s)
      <3>1. PICK i \in 1..c : up[i] = s
        BY <1>1
      <3> HIDE DEF c, k, up, at
      <3>2. CASE i <= k
        BY <1>4, <2>1, <3>1, <3>2
      <3>3. CASE ~(i <= k)
        <4>1. k = n
          BY <1>4, <3>3
        <4>2. \A j \in 1..k : at[j] < s
          BY <1>1, <1>4, <2>1, <3>1, <3>3
        <4>3. QED
          BY <4>1, <4>2
      <3>4. QED
        BY <3>2, <3>3
    <2> HIDE DEF c, k, up, at, q
    <2>5. QED
      BY <1>6, <2>1, <2>2, <2>3, <2>4 DEF FrontAt
  <1>8. IsFront(q, list, S, n)
    <2> HIDE DEF q, at, k
    <2>1. Len(q) <= n
      BY <1>4, <1>6
    <2>2. QED
      BY <1>6, <1>7, <2>1 DEF IsFront
  <1>9. QED
    BY <1>8

\* The first of a whole list.
LEMMA WholeFront ==
    ASSUME NEW T, NEW list \in Seq(T), NEW n \in Nat
    PROVE  IsFront(FirstOf(list, n), list, 1..Len(list), n)
  <1> DEFINE k == IF Len(list) < n THEN Len(list) ELSE n
             at == [i \in 1..k |-> i]
             q == FirstOf(list, n)
  <1>1. Len(list) \in Nat /\ k \in 0..Len(list) /\ k <= n /\ k \in Nat /\ (k = Len(list) \/ k = n)
    OBVIOUS
  <1>2. q = [i \in 1..k |-> list[i]]
    BY DEF FirstOf
  <1>3. Len(q) = k /\ q \in Seq({list[s] : s \in 1..Len(list)})
    <2> HIDE DEF k, q
    <2>1. QED
      BY <1>1, <1>2
  <1>4. FrontAt(q, list, 1..Len(list), n, at)
    <2>1. /\ at \in [1..k -> 1..Len(list)]
          /\ \A i, j \in 1..k : i < j => at[i] < at[j]
          /\ \A i \in 1..k : q[i] = list[at[i]]
      <3> HIDE DEF k, q
      <3>1. QED
        BY <1>1, <1>2
    <2>2. \A s \in 1..Len(list) : (\E i \in 1..k : at[i] = s) \/ (k = n /\ \A i \in 1..k : at[i] < s)
      <3>1. TAKE s \in 1..Len(list)
      <3> HIDE DEF k, q
      <3>2. CASE s <= k
        BY <1>1, <3>2
      <3>3. CASE ~(s <= k)
        BY <1>1, <3>3
      <3>4. QED
        BY <3>2, <3>3
    <2> HIDE DEF k, q, at
    <2>3. QED
      BY <1>3, <2>1, <2>2 DEF FrontAt
  <1>5. IsFront(q, list, 1..Len(list), n)
    <2> HIDE DEF k, q, at
    <2>1. QED
      BY <1>1, <1>3, <1>4 DEF IsFront
  <1>6. QED
    BY <1>5

-----------------------------------------------------------------------------
(* What a check knows at each of its steps.                                  *)

Early == {"deploy", "elf", "kind", "old"}
Walking == {"walk", "choose"}
Judging == {"chosen", "replay", "reported"}
Baselines == {"previous", "before_deploy", "at_slot", "current"}

\* What was read is of the chain as it was, the deploy before the binary.
ReadTrue ==
    /\ chain \in [deploys : DOMAIN DeploySlot, upgradeable : BOOLEAN]
    /\ read \in [deploy : Nat, elf : Nat, old : Nat, program : BOOLEAN]
    /\ read.deploy <= chain.deploys /\ read.elf <= chain.deploys
    /\ step \notin {"deploy", "elf"} => read.elf > 0 /\ read.deploy <= read.elf

AskTrue ==
    /\ ask \in [history : Histories \cup {<<>>}, limit : Limits, baseline : Baselines]
    /\ step \in Early \cup Walking \cup {"chosen"} => ask.history \in Histories

\* What was found is at the places `at` of the history, newest first, and if
\* everything was fetched nothing that qualifies was left out before the last.
WalkedAt(at) ==
    /\ at \in [1..Len(recent) -> 1..looked]
    /\ \A i, j \in 1..Len(recent) : i < j => at[i] < at[j]
    /\ \A i \in 1..Len(recent) : recent[i] = ask.history[at[i]] /\ Qualifies(recent[i])
    /\ ~missed => \A s \in 1..looked : Qualifies(ask.history[s]) =>
                      \/ \E i \in 1..Len(recent) : at[i] = s
                      \/ Len(recent) >= ask.limit /\ \A i \in 1..Len(recent) : at[i] < s
WalkTrue ==
    /\ missed \in BOOLEAN
    /\ step \in Early => recent = <<>> /\ looked = 0
    /\ step \in Walking =>
         /\ looked \in 0..Len(ask.history)
         /\ recent \in Seq({ask.history[i] : i \in DOMAIN ask.history})
         /\ \E at : WalkedAt(at)

CorpusTrue ==
    step \in Judging =>
        /\ corpus.txs \in Seq({corpus.txs[i] : i \in DOMAIN corpus.txs})
        /\ \A i \in DOMAIN corpus.txs : corpus.txs[i].slot \in Nat

Verdicts == Outcomes \cup {"none"}
Lines == [slot : Nat, before : Verdicts, after : Verdicts, changed : BOOLEAN, errored : BOOLEAN]
Tallies == [total : Nat, unchanged : Nat, failing : Nat, passing : Nat, error : Nat,
            errored : Nat, matches : Nat]
ChangedIn(list) == {i \in DOMAIN list : list[i].changed}

\* The counts are those of the transactions tallied.
CountsAre(list, c) ==
    /\ c.total = Len(list)
    /\ c.total = c.unchanged + c.failing + c.passing + c.error + c.errored
    /\ c.matches + c.errored <= c.total
    /\ c.failing + c.passing + c.error = Cardinality(ChangedIn(list))
    /\ c.failing = 0 /\ c.error = 0 =>
         \A i \in DOMAIN list : list[i].changed => list[i].after = "ok"
TallyTrue ==
    /\ tallied = [txs |-> tallied.txs, counts |-> tallied.counts]
    /\ tallied.txs \in Seq(Lines) /\ tallied.counts \in Tallies
    /\ CountsAre(tallied.txs, tallied.counts)
    /\ step \in Early \cup Walking \cup {"chosen"} => Len(tallied.txs) = 0
    /\ step \in {"replay", "reported"} =>
         /\ Len(tallied.txs) <= Len(corpus.txs)
         /\ \A i \in DOMAIN tallied.txs : tallied.txs[i].slot = corpus.txs[i].slot
    /\ step = "reported" => Len(tallied.txs) = Len(corpus.txs)

ReportInv ==
    /\ step \in Early \cup Walking \cup Judging \cup {"refused"}
    /\ ReadTrue /\ AskTrue /\ WalkTrue /\ CorpusTrue /\ TallyTrue
    /\ CorpusIsOld /\ NonePassedOver

LEMMA ReportInitInv == CheckInit => ReportInv
  <1>1. SUFFICES ASSUME CheckInit PROVE ReportInv
    OBVIOUS
  <1>2. step = "deploy" /\ recent = <<>> /\ looked = 0
    BY <1>1 DEF CheckInit
  <1>3. ReadTrue
    BY <1>1, CheckAssumption DEF CheckInit, ReadTrue, Unread
  <1>4. AskTrue
    BY <1>1 DEF CheckInit, AskTrue, Baselines
  <1>5. WalkTrue /\ CorpusTrue /\ CorpusIsOld /\ NonePassedOver
    BY <1>1, <1>2 DEF CheckInit, WalkTrue, CorpusTrue, CorpusIsOld, NonePassedOver, Walking, Judging
  <1>6. TallyTrue
    <2>1. tallied = [txs |-> <<>>, counts |-> NoCounts]
      BY <1>1 DEF CheckInit
    <2>2. ChangedIn(<<>>) = {}
      BY DEF ChangedIn
    <2>3. CountsAre(<<>>, NoCounts)
      BY <2>2, FS_EmptySet DEF CountsAre, NoCounts
    <2>4. QED
      BY <1>2, <2>1, <2>3 DEF TallyTrue, NoCounts, Tallies, Lines
  <1>7. QED
    BY <1>2, <1>3, <1>4, <1>5, <1>6 DEF ReportInv, Early

\* The reads, and what they are compared with.
LEMMA ReadKept ==
    ASSUME ReportInv, CheckNext
    PROVE  ReadTrue' /\ AskTrue' /\ step' \in Early \cup Walking \cup Judging \cup {"refused"}
  <1>1. DeploySlot \in Seq(Nat) /\ Len(DeploySlot) \in Nat /\ DOMAIN DeploySlot = 1..Len(DeploySlot)
    BY CheckAssumption
  <1>2. CASE Upgrade
    <2>1. /\ chain.deploys < Len(DeploySlot) /\ chain' = [chain EXCEPT !.deploys = @ + 1]
          /\ UNCHANGED <<ask, step, read>>
      BY <1>2 DEF Upgrade
    <2>2. chain \in [deploys : 1..Len(DeploySlot), upgradeable : BOOLEAN] /\ chain.deploys \in Nat
      BY <1>1 DEF ReportInv, ReadTrue
    <2>3. chain' \in [deploys : 1..Len(DeploySlot), upgradeable : BOOLEAN]
          /\ chain'.deploys = chain.deploys + 1
      BY <1>1, <2>1, <2>2
    <2>4. read.deploy \in Nat /\ read.elf \in Nat
      BY DEF ReportInv, ReadTrue
    <2>5. ReadTrue'
      BY <1>1, <2>1, <2>2, <2>3, <2>4 DEF ReportInv, ReadTrue
    <2>6. QED
      BY <2>1, <2>5 DEF ReportInv, AskTrue
  <1>3. CASE ReadDeploy
    <2>1. PICK d \in Nat : d <= chain.deploys /\ read' = [read EXCEPT !.deploy = d]
      <3>1. chain.deploys \in Nat /\ 0 <= chain.deploys
        BY <1>1 DEF ReportInv, ReadTrue
      <3>2. QED
        BY <1>3, <3>1 DEF ReadDeploy
    <2>2. step' = "elf" /\ step = "deploy" /\ UNCHANGED <<ask, chain>>
      BY <1>3 DEF ReadDeploy, Reading
    <2>3. ReadTrue'
      BY <2>1, <2>2 DEF ReportInv, ReadTrue
    <2>4. QED
      BY <2>2, <2>3 DEF ReportInv, AskTrue, Early
  <1>4. CASE ReadBinary
    <2>1. step = "elf" /\ step' = "kind" /\ UNCHANGED <<ask, chain>>
          /\ read' = [read EXCEPT !.elf = chain.deploys]
      BY <1>4 DEF ReadBinary, Reading
    <2>2. chain.deploys \in 1..Len(DeploySlot)
      BY <1>1 DEF ReportInv, ReadTrue
    <2>3. chain.deploys \in Nat /\ chain.deploys > 0
      BY <1>1, <2>2
    <2>4. ReadTrue'
      BY <2>1, <2>3 DEF ReportInv, ReadTrue
    <2>5. QED
      BY <2>1, <2>4 DEF ReportInv, AskTrue, Early
  <1>5. CASE ReadKind
    BY <1>1, <1>5 DEF ReadKind, Reading, ReportInv, ReadTrue, AskTrue, Early, Walking, Judging
  <1>6. CASE ReadOld
    BY <1>1, <1>6 DEF ReadOld, ReportInv, ReadTrue, AskTrue, Early, Walking, Judging
  <1>7. CASE WalkPage
    BY <1>7 DEF WalkPage, ReportInv, ReadTrue, AskTrue
  <1>8. CASE PageFails
    BY <1>8 DEF PageFails, ReportInv, ReadTrue, AskTrue, Early, Walking, Judging
  <1>9. CASE WalkEnds
    BY <1>9 DEF WalkEnds, ReportInv, ReadTrue, AskTrue, Early, Walking, Judging
  <1>10. CASE Choose
    BY <1>10 DEF Choose, ReportInv, ReadTrue, AskTrue, Early, Walking, Judging
  <1>11. CASE Begin
    BY <1>11 DEF Begin, ReportInv, ReadTrue, AskTrue, Early, Walking, Judging
  <1>12. CASE Replay
    BY <1>12 DEF Replay, ReportInv, ReadTrue, AskTrue
  <1>13. CASE Report
    BY <1>13 DEF Report, ReportInv, ReadTrue, AskTrue, Early, Walking, Judging
  <1>14. QED
    BY <1>2, <1>3, <1>4, <1>5, <1>6, <1>7, <1>8, <1>9, <1>10, <1>11, <1>12, <1>13 DEF CheckNext

LEMMA WalkSame ==
    ASSUME WalkTrue, UNCHANGED <<ask, looked, recent, missed, read>>,
           \/ step' = step
           \/ step \in Early /\ step' \in Early
           \/ step \in Walking /\ step' \in Walking
           \/ step' \notin Early \cup Walking
    PROVE  WalkTrue'
  <1>1. \A tx : Qualifies(tx)' = Qualifies(tx)
    BY DEF Qualifies
  <1>2. \A at : WalkedAt(at) => WalkedAt(at)'
    BY <1>1 DEF WalkedAt
  <1>3. CASE step' \in Walking
    <2>1. step \in Walking
      BY <1>3 DEF Early, Walking
    <2>2. \E at : WalkedAt(at)'
      BY <1>2, <2>1 DEF WalkTrue
    <2>3. step' \notin Early
      BY <1>3 DEF Early, Walking
    <2>4. QED
      BY <2>1, <2>2, <2>3 DEF WalkTrue
  <1>4. CASE step' \notin Walking
    BY <1>4 DEF WalkTrue
  <1>5. QED
    BY <1>3, <1>4

\* One page: what it has that qualifies comes behind what was found.
LEMMA PageKept ==
    ASSUME ReportInv, WalkPage
    PROVE  WalkTrue'
  <1> DEFINE H == ask.history
             left == Len(H) - looked
             m == IF left < PageSize THEN left ELSE PageSize
             page == Page
             n == Len(recent)
             room == 2 * ask.limit - n
  <1>1. /\ step = "walk" /\ step' = "walk" /\ n < ask.limit /\ Page # <<>>
        /\ looked' = looked + Len(page) /\ UNCHANGED <<ask, read>>
    BY DEF WalkPage, Wanting
  <1>2. PICK fetched \in SUBSET DOMAIN page :
          /\ recent' = recent \o Found(page, fetched)
          /\ missed' = (missed \/ \E i \in DOMAIN page \ fetched : Qualifies(page[i]))
    BY DEF WalkPage
  <1>3. PICK at : WalkedAt(at)
    BY <1>1 DEF ReportInv, WalkTrue, Walking
  <1>4. /\ looked \in 0..Len(H) /\ missed \in BOOLEAN /\ recent \in Seq({H[i] : i \in DOMAIN H})
        /\ H \in Seq({H[i] : i \in DOMAIN H}) /\ Len(H) \in Nat /\ DOMAIN H = 1..Len(H)
        /\ n \in Nat /\ ask.limit \in Nat /\ PageSize \in Nat
    <2>1. H \in Histories /\ ask.limit \in Limits
      BY <1>1 DEF ReportInv, AskTrue, Walking
    <2>2. H \in Seq({H[i] : i \in DOMAIN H}) /\ ask.limit \in Nat /\ PageSize \in Nat
      <3> HIDE DEF H
      <3>1. QED
        BY <2>1, CheckAssumption
    <2>3. looked \in 0..Len(H) /\ missed \in BOOLEAN /\ recent \in Seq({H[i] : i \in DOMAIN H})
      BY <1>1 DEF ReportInv, WalkTrue, Walking
    <2> HIDE DEF H
    <2>4. QED
      BY <2>2, <2>3
  <1>5. page = [i \in 1..m |-> H[looked + i]]
    BY DEF Page
  <1>6. left \in Nat /\ m \in Nat /\ m <= left /\ looked \in Nat /\ left = Len(H) - looked
    <2> HIDE DEF H
    <2>1. QED
      BY <1>4
  <1>7. Len(page) = m /\ DOMAIN page = 1..m
    <2> HIDE DEF m, page
    <2>1. QED
      BY <1>5, <1>6
  <1>8. /\ \A i \in 1..m : looked + i \in 1..Len(H) /\ page[i] = H[looked + i]
        /\ looked' = looked + m /\ looked' \in 0..Len(H)
    <2> HIDE DEF m, page, left, H
    <2>1. QED
      BY <1>1, <1>4, <1>5, <1>6, <1>7
  <1> DEFINE hits == {i \in fetched : Qualifies(page[i])}
             f == Found(page, fetched)
  <1>9. hits \in SUBSET (1..m) /\ fetched \in SUBSET (1..m)
    BY <1>7
  <1>10. room \in Nat /\ room >= ask.limit - n /\ n + room >= ask.limit
    <2> HIDE DEF n
    <2>1. QED
      BY <1>1, <1>4
  <1>11. IsFront(f, page, hits, room)
    <2>1. f = FirstOf(Picked(page, hits), room)
      BY DEF Found
    <2> HIDE DEF f, page, hits, room
    <2>2. QED
      BY <1>6, <1>9, <1>10, <2>1, PickedFront
  <1>12. PICK p : FrontAt(f, page, hits, room, p)
    BY <1>11 DEF IsFront
  <1> DEFINE l == Len(f)
             new == [i \in 1..n + l |-> IF i <= n THEN at[i] ELSE looked + p[i - n]]
  <1>13. /\ f \in Seq({page[s] : s \in hits}) /\ l \in Nat
         /\ p \in [1..l -> hits]
         /\ \A i, j \in 1..l : i < j => p[i] < p[j]
         /\ \A i \in 1..l : f[i] = page[p[i]]
         /\ \A s \in hits : (\E i \in 1..l : p[i] = s) \/ (l = room /\ \A i \in 1..l : p[i] < s)
    <2>1. f \in Seq({page[s] : s \in hits})
      BY <1>11 DEF IsFront
    <2> HIDE DEF f, page, hits
    <2>2. QED
      BY <1>12, <2>1 DEF FrontAt
  <1>14. /\ at \in [1..n -> 1..looked]
         /\ \A i, j \in 1..n : i < j => at[i] < at[j]
         /\ \A i \in 1..n : recent[i] = H[at[i]] /\ Qualifies(recent[i])
         /\ ~missed => \A s \in 1..looked : Qualifies(H[s]) => \E i \in 1..n : at[i] = s
    <2> USE DEF WalkedAt
    <2>1. ~(n >= ask.limit)
      <3> HIDE DEF n
      <3>1. QED
        BY <1>1, <1>4
    <2>2. QED
      BY <1>3, <2>1
  <1> HIDE DEF f, page, hits, room, m, left, n, l
  <1>15. /\ Len(recent') = n + l
         /\ \A i \in 1..n : recent'[i] = recent[i]
         /\ \A i \in 1..l : recent'[n + i] = f[i]
    BY <1>2, <1>4, <1>13 DEF n, l, f
  <1>16. \A i \in 1..n : new[i] = at[i] /\ at[i] \in 1..looked /\ i \in 1..n + l /\ recent'[i] = H[new[i]]
                         /\ Qualifies(recent'[i])
    <2>1. TAKE i \in 1..n
    <2>2. i \in 1..n + l /\ i <= n
      BY <1>4, <1>13 DEF n
    <2>3. new[i] = at[i] /\ at[i] \in 1..looked
      BY <1>14, <2>2
    <2>4. recent'[i] = recent[i] /\ recent[i] = H[at[i]] /\ Qualifies(recent[i])
      BY <1>14, <1>15
    <2> HIDE DEF new
    <2>5. QED
      BY <2>2, <2>3, <2>4
  <1>17. \A i \in 1..l : /\ new[n + i] = looked + p[i] /\ p[i] \in 1..m /\ p[i] \in hits
                         /\ n + i \in 1..n + l
                         /\ recent'[n + i] = H[new[n + i]] /\ Qualifies(recent'[n + i])
    <2>1. TAKE i \in 1..l
    <2>2. i \in Nat /\ i >= 1 /\ i <= l /\ n \in Nat
      BY <1>4, <1>13 DEF n
    <2>3. n + i \in 1..n + l /\ ~(n + i <= n) /\ (n + i) - n = i
      BY <1>13, <2>2
    <2>4. new[n + i] = looked + p[i]
      BY <2>3
    <2>5. p[i] \in hits /\ p[i] \in 1..m /\ f[i] = page[p[i]] /\ Qualifies(page[p[i]])
      <3>1. p[i] \in hits /\ f[i] = page[p[i]]
        BY <1>13
      <3>2. p[i] \in 1..m
        BY <1>9, <3>1
      <3>3. Qualifies(page[p[i]])
        BY <3>1 DEF hits
      <3>4. QED
        BY <3>1, <3>2, <3>3
    <2>6. recent'[n + i] = f[i] /\ page[p[i]] = H[looked + p[i]]
      BY <1>8, <1>15, <2>5
    <2>7. QED
      BY <2>3, <2>4, <2>5, <2>6
  <1>18. \A k \in 1..n + l : k \in 1..n \/ \E i \in 1..l : k = n + i
    <2>1. TAKE k \in 1..n + l
    <2>2. k <= n \/ (k - n \in 1..l /\ k = n + (k - n))
      BY <1>4, <1>13 DEF n
    <2>3. QED
      BY <1>4, <2>2 DEF n
  <1>19. new \in [1..n + l -> 1..looked']
    <2>1. \A k \in 1..n + l : new[k] \in 1..looked'
      <3>1. TAKE k \in 1..n + l
      <3>2. CASE k \in 1..n
        <4>1. new[k] \in 1..looked
          BY <1>16, <3>2
        <4> HIDE DEF new
        <4>2. QED
          BY <1>6, <1>8, <4>1
      <3>3. ASSUME NEW i \in 1..l, k = n + i PROVE new[k] \in 1..looked'
        <4>1. new[k] = looked + p[i] /\ p[i] \in 1..m
          BY <1>17, <3>3
        <4> HIDE DEF new
        <4>2. QED
          BY <1>6, <1>8, <4>1
      <3>4. QED
        BY <1>18, <3>2, <3>3
    <2>2. QED
      BY <2>1
  <1>20. \A i, j \in 1..n + l : i < j => new[i] < new[j]
    <2>1. TAKE i, j \in 1..n + l
    <2>2. HAVE i < j
    <2>3. CASE j \in 1..n
      <3>1. i \in 1..n
        BY <1>4, <1>13, <2>2, <2>3 DEF n
      <3>2. at[i] < at[j] /\ new[i] = at[i] /\ new[j] = at[j]
        BY <1>14, <1>16, <2>2, <2>3, <3>1
      <3>3. QED
        BY <3>2
    <2>4. ASSUME NEW y \in 1..l, j = n + y PROVE new[i] < new[j]
      <3>1. new[j] = looked + p[y] /\ p[y] \in 1..m
        BY <1>17, <2>4
      <3>2. CASE i \in 1..n
        <4>1. new[i] \in 1..looked
          BY <1>16, <3>2
        <4> HIDE DEF new
        <4>2. QED
          BY <1>6, <3>1, <4>1
      <3>3. ASSUME NEW x \in 1..l, i = n + x PROVE new[i] < new[j]
        <4>1. new[i] = looked + p[x] /\ p[x] \in 1..m
          BY <1>17, <3>3
        <4>2. x < y
          BY <1>4, <1>13, <2>2, <2>4, <3>3 DEF n
        <4>3. p[x] < p[y]
          BY <1>13, <4>2
        <4> HIDE DEF new
        <4>4. QED
          BY <1>6, <3>1, <4>1, <4>3
      <3>4. QED
        BY <1>18, <3>2, <3>3
    <2>5. QED
      BY <1>18, <2>3, <2>4
  <1>21. ASSUME ~missed', NEW s \in 1..looked', Qualifies(H[s])
         PROVE  \/ \E i \in 1..n + l : new[i] = s
                \/ n + l >= ask.limit /\ \A i \in 1..n + l : new[i] < s
    <2>1. ~missed /\ \A i \in 1..m : Qualifies(page[i]) => i \in hits
      BY <1>2, <1>7, <1>21 DEF hits
    <2>2. CASE s \in 1..looked
      <3>1. PICK i \in 1..n : at[i] = s
        BY <1>14, <1>21, <2>1, <2>2
      <3>2. QED
        BY <1>16, <3>1
    <2>3. CASE s \notin 1..looked
      <3>1. s - looked \in 1..m /\ s = looked + (s - looked)
        BY <1>6, <1>8, <2>3
      <3>2. PICK d \in 1..m : s = looked + d
        BY <3>1
      <3>3. d \in hits
        BY <1>8, <1>21, <2>1, <3>2
      <3>4. CASE \E i \in 1..l : p[i] = d
        <4>1. PICK i \in 1..l : p[i] = d
          BY <3>4
        <4>2. new[n + i] = s /\ n + i \in 1..n + l
          BY <1>17, <3>2, <4>1
        <4>3. QED
          BY <4>2
      <3>5. CASE l = room /\ \A i \in 1..l : p[i] < d
        <4>1. n + l >= ask.limit
          BY <1>10, <3>5
        <4>2. \A k \in 1..n + l : new[k] < s
          <5>1. TAKE k \in 1..n + l
          <5>2. CASE k \in 1..n
            <6>1. new[k] \in 1..looked
              BY <1>16, <5>2
            <6> HIDE DEF new
            <6>2. QED
              BY <1>6, <3>2, <6>1
          <5>3. ASSUME NEW i \in 1..l, k = n + i PROVE new[k] < s
            <6>1. new[k] = looked + p[i] /\ p[i] \in 1..m /\ p[i] < d
              BY <1>17, <3>5, <5>3
            <6> HIDE DEF new
            <6>2. QED
              BY <1>6, <3>2, <6>1
          <5>4. QED
            BY <1>18, <5>2, <5>3
        <4>3. QED
          BY <4>1, <4>2
      <3>6. QED
        BY <1>13, <3>3, <3>4, <3>5
    <2>4. QED
      BY <2>2, <2>3
  <1>22. \E x : WalkedAt(x)'
    <2>1. \A tx : Qualifies(tx)' = Qualifies(tx)
      BY <1>1 DEF Qualifies
    <2>2. \A i \in 1..n + l : recent'[i] = H[new[i]] /\ Qualifies(recent'[i])
      <3>1. TAKE k \in 1..n + l
      <3>2. CASE k \in 1..n
        BY <1>16, <3>2
      <3>3. ASSUME NEW i \in 1..l, k = n + i PROVE recent'[k] = H[new[k]] /\ Qualifies(recent'[k])
        BY <1>17, <3>3
      <3>4. QED
        BY <1>18, <3>2, <3>3
    <2>3. ask' = ask /\ H = ask.history
      BY <1>1
    <2> HIDE DEF new, H
    <2>4. PICK x : x = new
      OBVIOUS
    <2>5. \A i, j \in 1..n + l : i < j => x[i] < x[j]
      BY <1>20, <2>4
    <2>6. x \in [1..n + l -> 1..looked'] /\ \A i \in 1..n + l : recent'[i] = H[x[i]] /\ Qualifies(recent'[i])
      BY <1>19, <2>2, <2>4
    <2>7. ~missed' => \A s \in 1..looked' : Qualifies(H[s]) =>
                      \/ \E i \in 1..n + l : x[i] = s
                      \/ n + l >= ask.limit /\ \A i \in 1..n + l : x[i] < s
      BY <1>21, <2>4
    <2>8. WalkedAt(x)'
      BY <1>15, <2>1, <2>3, <2>5, <2>6, <2>7 DEF WalkedAt
    <2>9. QED
      BY <2>8
  <1>23. recent' \in Seq({H[i] : i \in DOMAIN H})
    <2>1. f \in Seq({H[i] : i \in DOMAIN H})
      <3>1. \A s \in hits : page[s] \in {H[i] : i \in DOMAIN H}
        BY <1>4, <1>8, <1>9
      <3>2. \A i \in 1..l : f[i] \in {H[j] : j \in DOMAIN H}
        BY <1>13, <3>1
      <3>3. f = [i \in 1..l |-> f[i]]
        BY <1>13 DEF l
      <3> HIDE DEF H
      <3>4. QED
        BY <1>13, <3>2, <3>3
    <2> HIDE DEF H
    <2>2. QED
      BY <1>2, <1>4, <2>1 DEF f
  <1>24. missed' \in BOOLEAN
    BY <1>2, <1>4
  <1>25. QED
    BY <1>1, <1>8, <1>22, <1>23, <1>24 DEF WalkTrue, Early, Walking

LEMMA WalkKept ==
    ASSUME ReportInv, CheckNext
    PROVE  WalkTrue'
  <1>1. WalkTrue
    BY DEF ReportInv
  <1>2. CASE Upgrade
    BY <1>1, <1>2, WalkSame DEF Upgrade
  <1>3. CASE ReadDeploy \/ ReadBinary \/ ReadKind
    <2>1. step' \in Early \ {"deploy"} /\ step \in Early /\ UNCHANGED <<ask, looked, recent, missed>>
      BY <1>3 DEF ReadDeploy, ReadBinary, ReadKind, Reading, Early
    <2>2. QED
      BY <1>1, <2>1 DEF WalkTrue, Early, Walking
  <1>4. CASE ReadOld
    <2>1. /\ recent' = <<>> /\ looked' = 0 /\ step' \in {"walk", "refused"}
          /\ UNCHANGED <<ask, missed>>
      BY <1>1, <1>4 DEF ReadOld, WalkTrue, Early
    <2>2. CASE step' = "walk"
      <3>1. ask.history \in Histories /\ missed \in BOOLEAN
        BY <1>1, <1>4 DEF ReportInv, AskTrue, WalkTrue, ReadOld, Early
      <3>2. Len(ask.history) \in Nat
        BY <3>1, CheckAssumption
      <3>3. WalkedAt(<<>>)'
        BY <2>1 DEF WalkedAt
      <3>4. QED
        BY <2>1, <2>2, <3>1, <3>2, <3>3 DEF WalkTrue, Early
    <2>3. CASE step' = "refused"
      BY <1>1, <2>1, <2>3 DEF WalkTrue, Early, Walking
    <2>4. QED
      BY <2>1, <2>2, <2>3
  <1>5. CASE WalkPage
    BY <1>5, PageKept
  <1>6. CASE PageFails \/ WalkEnds
    <2>1. step \in Walking /\ step' \in {"choose", "refused"} /\ UNCHANGED <<ask, looked, recent, missed, read>>
      BY <1>6 DEF PageFails, WalkEnds, Walking
    <2>2. QED
      BY <1>1, <2>1, WalkSame DEF Walking, Early
  <1>7. CASE Choose \/ Begin \/ Replay \/ Report
    <2>1. step' \in Judging /\ missed' \in {missed, FALSE}
      BY <1>7 DEF Choose, Begin, Replay, Report, Judging
    <2>2. QED
      BY <1>1, <2>1 DEF WalkTrue, Early, Walking, Judging
  <1>8. QED
    BY <1>2, <1>3, <1>4, <1>5, <1>6, <1>7 DEF CheckNext

\* What a check takes for its corpus: from what it found, the first at the
\* places P; turned round.
TakenWell(q, P) ==
    LET t == OldestFirst(q)
    IN  /\ t \in Seq({t[i] : i \in DOMAIN t}) /\ Len(t) <= ask.limit
        /\ \A i \in DOMAIN t : /\ Qualifies(t[i]) /\ t[i].slot \in Nat
                               /\ \E k \in P : t[i] = recent[k]
        /\ \A i, j \in DOMAIN t : i < j => t[i].slot <= t[j].slot
        /\ ~missed => \A i, j \in DOMAIN ask.history :
             /\ i < j /\ ask.history[j] \in ToTxs(t) /\ Qualifies(ask.history[i])
             /\ \A k \in DOMAIN recent : recent[k] = ask.history[i] => k \in P
             => ask.history[i] \in ToTxs(t)

LEMMA Taken ==
    ASSUME ReportInv, step = "choose",
           NEW P \in SUBSET (1..Len(recent)), NEW q, IsFront(q, recent, P, ask.limit)
    PROVE  TakenWell(q, P)
  <1> DEFINE H == ask.history
             n == Len(recent)
             l == Len(q)
             t == OldestFirst(q)
  <1>1. PICK at : WalkedAt(at)
    BY DEF ReportInv, WalkTrue, Walking
  <1>2. PICK p : FrontAt(q, recent, P, ask.limit, p)
    BY DEF IsFront
  <1>3. /\ H \in Seq({H[i] : i \in DOMAIN H}) /\ Len(H) \in Nat /\ DOMAIN H = 1..Len(H)
        /\ \A i \in DOMAIN H : H[i].slot \in Nat
        /\ \A i, j \in DOMAIN H : i < j => H[i] # H[j] /\ H[i].slot >= H[j].slot
        /\ ask.limit \in Nat
    <2>1. H \in Histories /\ ask.limit \in Limits
      BY DEF ReportInv, AskTrue, Walking
    <2> HIDE DEF H
    <2>2. /\ H \in Seq({H[i] : i \in DOMAIN H}) /\ ask.limit \in Nat
          /\ \A i \in DOMAIN H : H[i].slot \in Nat
          /\ \A i, j \in DOMAIN H : i < j => H[i] # H[j] /\ H[i].slot >= H[j].slot
      BY <2>1, CheckAssumption
    <2>3. Len(H) \in Nat /\ DOMAIN H = 1..Len(H)
      BY <2>2
    <2>4. QED
      BY <2>2, <2>3
  <1>4. looked \in 0..Len(H) /\ recent \in Seq({H[i] : i \in DOMAIN H}) /\ n \in Nat /\ DOMAIN recent = 1..n
    <2>1. looked \in 0..Len(H) /\ recent \in Seq({H[i] : i \in DOMAIN H})
      BY DEF ReportInv, WalkTrue, Walking
    <2> HIDE DEF H
    <2>2. QED
      BY <2>1
  <1>5. q \in Seq({recent[s] : s \in P}) /\ l \in Nat /\ DOMAIN q = 1..l /\ l <= ask.limit
    <2>1. q \in Seq({recent[s] : s \in P}) /\ l <= ask.limit
      BY DEF IsFront
    <2>2. QED
      BY <2>1
  <1>6. t = [i \in 1..l |-> q[l + 1 - i]]
    BY <1>5 DEF OldestFirst
  <1>7. DOMAIN t = 1..l /\ Len(t) = l /\ t \in Seq({t[i] : i \in DOMAIN t})
    <2>1. PICK R : R = {t[i] : i \in 1..l}
      OBVIOUS
    <2> HIDE DEF t, l
    <2>2. \A i \in 1..l : t[i] \in R
      BY <2>1
    <2>3. DOMAIN t = 1..l /\ t = [i \in 1..l |-> t[i]]
      BY <1>6
    <2>4. t \in [1..l -> R]
      BY <2>2, <2>3
    <2>5. t \in Seq(R) /\ Len(t) = l
      BY <1>5, <2>3, <2>4
    <2>6. QED
      BY <2>1, <2>3, <2>5
  \* Where each of the corpus is in the history.
  <1> DEFINE place(i) == at[p[l + 1 - i]]
  <1>8. \A i \in 1..l : /\ l + 1 - i \in 1..l /\ p[l + 1 - i] \in P /\ p[l + 1 - i] \in 1..n
                        /\ t[i] = recent[p[l + 1 - i]]
                        /\ place(i) \in 1..looked /\ place(i) \in DOMAIN H
                        /\ t[i] = H[place(i)] /\ Qualifies(t[i])
    <2>1. TAKE i \in 1..l
    <2>2. l + 1 - i \in 1..l
      BY <1>5
    <2>3. p[l + 1 - i] \in P /\ q[l + 1 - i] = recent[p[l + 1 - i]]
      BY <1>2, <2>2 DEF FrontAt
    <2>4. p[l + 1 - i] \in 1..n
      BY <2>3
    <2>5. t[i] = recent[p[l + 1 - i]]
      <3> HIDE DEF t
      <3>1. QED
        BY <1>6, <2>3
    <2>6. place(i) \in 1..looked /\ recent[p[l + 1 - i]] = H[place(i)] /\ Qualifies(recent[p[l + 1 - i]])
      BY <1>1, <2>4 DEF WalkedAt
    <2>7. place(i) \in DOMAIN H
      <3> HIDE DEF H, place
      <3>1. QED
        BY <1>3, <1>4, <2>6
    <2> HIDE DEF place, t, H
    <2>8. QED
      BY <2>2, <2>3, <2>4, <2>5, <2>6, <2>7
  <1>9. \A i, j \in 1..l : i < j => place(j) < place(i)
    <2>1. TAKE i, j \in 1..l
    <2>2. HAVE i < j
    <2>3. l + 1 - j \in 1..l /\ l + 1 - i \in 1..l /\ l + 1 - j < l + 1 - i
      BY <1>5, <2>2
    <2>4. p[l + 1 - j] < p[l + 1 - i]
      BY <1>2, <2>3 DEF FrontAt
    <2>5. QED
      BY <1>1, <1>8, <2>4 DEF WalkedAt
  <1> HIDE DEF t, place
  <1>10. \A i, j \in DOMAIN t : i < j => t[i].slot <= t[j].slot
    <2>1. TAKE i, j \in DOMAIN t
    <2>2. HAVE i < j
    <2>3. place(j) < place(i) /\ place(i) \in DOMAIN H /\ place(j) \in DOMAIN H
          /\ t[i] = H[place(i)] /\ t[j] = H[place(j)]
      BY <1>7, <1>8, <1>9, <2>2
    <2> HIDE DEF H
    <2>4. QED
      BY <1>3, <2>3
  <1>11. ASSUME ~missed, NEW i \in DOMAIN H, NEW j \in DOMAIN H, i < j, H[j] \in ToTxs(t), Qualifies(H[i]),
                \A k \in DOMAIN recent : recent[k] = H[i] => k \in P
         PROVE  H[i] \in ToTxs(t)
    <2>1. PICK x \in 1..l : H[j] = t[x]
      BY <1>7, <1>11 DEF ToTxs
    <2>2. place(x) = j
      <3>1. place(x) \in DOMAIN H /\ H[place(x)] = H[j]
        BY <1>8, <2>1
      <3> HIDE DEF H
      <3>2. place(x) \in Nat /\ j \in Nat
        BY <1>3, <3>1
      <3>3. ~(place(x) < j) /\ ~(j < place(x))
        BY <1>3, <3>1
      <3>4. QED
        BY <3>2, <3>3
    <2>3. i \in 1..looked
      <3>1. j \in 1..looked
        BY <1>8, <2>2
      <3> HIDE DEF H
      <3>2. QED
        BY <1>3, <1>4, <1>11, <3>1
    <2> DEFINE u == p[l + 1 - x]
    <2>4. u \in 1..n /\ at[u] = j
      BY <1>8, <2>2 DEF place
    <2>5. PICK y \in 1..n : at[y] = i
      <3>1. ~(\A z \in 1..n : at[z] < i)
        <4>1. ~(at[u] < i)
          <5> HIDE DEF H, u
          <5>1. QED
            BY <1>3, <1>11, <2>4
        <4> HIDE DEF u
        <4>2. QED
          BY <2>4, <4>1
      <3>2. QED
        BY <1>1, <1>11, <2>3, <3>1 DEF WalkedAt
    <2>6. recent[y] = H[i] /\ y \in P
      BY <1>1, <1>4, <1>11, <2>5 DEF WalkedAt
    <2>7. y < u
      <3>1. at[y] < at[u]
        BY <1>11, <2>4, <2>5
      <3>2. u < y => at[u] < at[y]
        BY <1>1, <2>4 DEF WalkedAt
      <3>3. at[u] \in Int /\ at[y] \in Int
        <4> HIDE DEF H, u
        <4>1. QED
          BY <1>3, <2>4, <2>5
      <3>4. u \in Nat /\ y \in Nat
        <4> HIDE DEF u
        <4>1. QED
          BY <1>4, <2>4
      <3> HIDE DEF u
      <3>5. u # y
        BY <3>1, <3>3
      <3>6. QED
        BY <3>1, <3>2, <3>3, <3>4, <3>5
    <2>8. PICK z \in 1..l : p[z] = y
      <3>1. ~(\A w \in 1..l : p[w] < y)
        <4>1. l + 1 - x \in 1..l
          BY <1>8
        <4>2. ~(u < y)
          <5> HIDE DEF u
          <5>1. QED
            BY <1>4, <2>4, <2>7
        <4>3. QED
          BY <4>1, <4>2
      <3>2. QED
        BY <1>2, <2>6, <3>1 DEF FrontAt
    <2>9. l + 1 - z \in 1..l /\ l + 1 - (l + 1 - z) = z
      BY <1>5
    <2>10. t[l + 1 - z] = recent[y]
      BY <1>8, <2>8, <2>9
    <2>11. QED
      BY <1>7, <2>6, <2>9, <2>10 DEF ToTxs
  <1>12. \A i \in DOMAIN t : Qualifies(t[i]) /\ t[i].slot \in Nat /\ \E k \in P : t[i] = recent[k]
    <2>1. TAKE i \in DOMAIN t
    <2>2. i \in 1..l
      BY <1>7
    <2>3. Qualifies(t[i]) /\ t[i] = H[place(i)] /\ place(i) \in DOMAIN H /\ p[l + 1 - i] \in P
          /\ t[i] = recent[p[l + 1 - i]]
      BY <1>8, <2>2
    <2> HIDE DEF H
    <2>4. QED
      BY <1>3, <2>3
  <1>13. Len(t) <= ask.limit
    BY <1>5, <1>7
  <1>14. ~missed => \A i, j \in DOMAIN H :
             /\ i < j /\ H[j] \in ToTxs(t) /\ Qualifies(H[i])
             /\ \A k \in DOMAIN recent : recent[k] = H[i] => k \in P
             => H[i] \in ToTxs(t)
    BY <1>11
  <1>15. QED
    BY <1>7, <1>10, <1>12, <1>13, <1>14 DEF TakenWell, t

\* The corpus that is chosen is as the properties say.
LEMMA ChosenWell ==
    ASSUME ReportInv, Choose
    PROVE  CorpusTrue' /\ CorpusIsOld' /\ NonePassedOver'
  <1>1. /\ step = "choose" /\ step' = "chosen"
        /\ UNCHANGED <<ask, read, recent, missed>>
    BY DEF Choose
  <1>2. /\ ask.history \in Histories /\ ask.limit \in Nat /\ ask.limit > 0
        /\ ReadTrue /\ read.elf > 0 /\ read.deploy <= read.elf
    <2>1. ReadTrue /\ AskTrue
      BY DEF ReportInv
    <2>2. ask.history \in Histories
      BY <1>1, <2>1 DEF AskTrue, Walking
    <2>3. ask.limit \in Nat /\ ask.limit > 0
      <3>1. ask.limit \in Limits
        BY <2>1 DEF AskTrue
      <3>2. \A l \in Limits : l \in Nat /\ l > 0
        BY CheckAssumption
      <3>3. QED
        BY <3>1, <3>2
    <2>4. read.elf > 0 /\ read.deploy <= read.elf
      BY <1>1, <2>1 DEF ReadTrue
    <2>5. QED
      BY <2>1, <2>2, <2>3, <2>4
  <1>3. recent \in Seq({ask.history[i] : i \in DOMAIN ask.history}) /\ Len(recent) \in Nat
        /\ DOMAIN recent = 1..Len(recent)
    <2>1. recent \in Seq({ask.history[i] : i \in DOMAIN ask.history})
      BY <1>1 DEF ReportInv, WalkTrue, Walking
    <2>2. QED
      BY <2>1
  <1>4. /\ \A tx : Qualifies(tx)' = Qualifies(tx)
        /\ \A tx : LandedBefore(tx)' = LandedBefore(tx)
    BY <1>1 DEF Qualifies, LandedBefore
  <1> DEFINE before == {i \in DOMAIN recent : LandedBefore(recent[i])}
             eligible == FirstOf(Picked(recent, before), ask.limit)
             newest == FirstOf(recent, ask.limit)
  <1>5. corpus' = IF recent = <<>> THEN [txs |-> <<>>, note |-> "none call it"]
                  ELSE IF eligible = <<>> THEN [txs |-> OldestFirst(newest), note |-> "none before"]
                  ELSE [txs |-> OldestFirst(eligible), note |-> "none"]
    BY DEF Choose
  <1>6. IsFront(eligible, recent, before, ask.limit) /\ before \in SUBSET (1..Len(recent))
    <2>1. before \in SUBSET (1..Len(recent))
      BY <1>3
    <2> HIDE DEF before
    <2>2. QED
      BY <1>2, <1>3, <2>1, PickedFront
  <1>7. IsFront(newest, recent, 1..Len(recent), ask.limit)
    BY <1>2, <1>3, WholeFront
  <1>8. TakenWell(eligible, before) /\ TakenWell(newest, 1..Len(recent))
    <2> HIDE DEF before, eligible, newest
    <2>1. QED
      BY <1>1, <1>6, <1>7, Taken
  <1>9. CASE recent = <<>>
    <2>1. corpus'.txs = <<>>
      BY <1>5, <1>9
    <2>2. CorpusTrue' /\ CorpusIsOld'
      BY <1>1, <1>2, <2>1 DEF CorpusTrue, CorpusIsOld
    <2>3. ToTxs(<<>>) = {}
      BY DEF ToTxs
    <2>4. NonePassedOver'
      <3>1. ToTxs(corpus.txs)' = {}
        BY <2>1, <2>3 DEF ToTxs
      <3>2. QED
        BY <3>1 DEF NonePassedOver
    <2>5. QED
      BY <2>2, <2>4
  \* Whatever was taken, where the note leaves nothing out that P leaves in.
  <1>10. ASSUME NEW q, NEW P, TakenWell(q, P), corpus'.txs = OldestFirst(q),
                \A k \in DOMAIN recent :
                   LandedBefore(recent[k]) \/ corpus'.note = "none before" => k \in P,
                \A k \in P : corpus'.note = "none" => LandedBefore(recent[k])
         PROVE  CorpusTrue' /\ CorpusIsOld' /\ NonePassedOver'
    <2> DEFINE t == OldestFirst(q)
    <2>1. /\ t \in Seq({t[i] : i \in DOMAIN t}) /\ Len(t) <= ask.limit
          /\ \A i \in DOMAIN t : /\ Qualifies(t[i]) /\ t[i].slot \in Nat
                                 /\ \E k \in P : t[i] = recent[k]
          /\ \A i, j \in DOMAIN t : i < j => t[i].slot <= t[j].slot
      BY <1>10 DEF TakenWell
    <2>2. ~missed => \A i, j \in DOMAIN ask.history :
             /\ i < j /\ ask.history[j] \in ToTxs(t) /\ Qualifies(ask.history[i])
             /\ \A k \in DOMAIN recent : recent[k] = ask.history[i] => k \in P
             => ask.history[i] \in ToTxs(t)
      BY <1>10 DEF TakenWell
    <2> HIDE DEF t
    <2>3. corpus'.txs = t
      BY <1>10 DEF t
    <2>4. CorpusTrue'
      BY <2>1, <2>3 DEF CorpusTrue
    <2>5. \A i \in DOMAIN t : read.deploy > 0 /\ corpus'.note = "none" => t[i].slot < DeploySlot[read.elf]
      <3>1. TAKE i \in DOMAIN t
      <3>2. HAVE read.deploy > 0 /\ corpus'.note = "none"
      <3>3. LandedBefore(t[i])
        BY <1>10, <2>1, <3>2
      <3>4. /\ read.deploy \in DOMAIN DeploySlot /\ read.elf \in DOMAIN DeploySlot
            /\ read.deploy <= read.elf /\ read.deploy \in Nat /\ read.elf \in Nat
        BY <1>2, <3>2, CheckAssumption DEF ReadTrue
      <3>5. DeploySlot[read.deploy] \in Nat /\ DeploySlot[read.elf] \in Nat
            /\ DeploySlot[read.deploy] <= DeploySlot[read.elf]
        <4>1. DeploySlot[read.deploy] \in Nat /\ DeploySlot[read.elf] \in Nat
          BY <3>4, CheckAssumption
        <4>2. read.deploy < read.elf => DeploySlot[read.deploy] < DeploySlot[read.elf]
          BY <3>4, CheckAssumption
        <4>3. QED
          BY <3>4, <4>1, <4>2
      <3>6. t[i].slot < DeploySlot[read.deploy]
        BY <3>2, <3>3, <3>4 DEF LandedBefore
      <3>7. QED
        BY <2>1, <3>5, <3>6
    <2>6. CorpusIsOld'
      BY <1>1, <1>4, <2>1, <2>3, <2>5 DEF CorpusIsOld
    <2>7. NonePassedOver'
      <3>1. SUFFICES ASSUME ~missed, NEW i \in DOMAIN ask.history, NEW j \in DOMAIN ask.history, i < j,
                            ask.history[j] \in ToTxs(t), Qualifies(ask.history[i]),
                            LandedBefore(ask.history[i]) \/ corpus'.note = "none before"
                     PROVE  ask.history[i] \in ToTxs(t)
        <4>1. ToTxs(corpus'.txs) = ToTxs(t) /\ \A x : ToTxs(x)' = ToTxs(x)
          BY <2>3 DEF ToTxs
        <4>2. ToTxs(corpus.txs)' = ToTxs(t)
          BY <2>3 DEF ToTxs
        <4>3. QED
          BY <1>1, <1>4, <4>2 DEF NonePassedOver
      <3>2. \A k \in DOMAIN recent : recent[k] = ask.history[i] => k \in P
        BY <1>10, <3>1
      <3>3. QED
        BY <2>2, <3>1, <3>2
    <2>8. QED
      BY <2>4, <2>6, <2>7
  <1>11. CASE recent # <<>> /\ eligible = <<>>
    <2>1. corpus'.txs = OldestFirst(newest) /\ corpus'.note = "none before"
      BY <1>5, <1>11
    <2>2. \A k \in DOMAIN recent : k \in 1..Len(recent)
      BY <1>3
    <2> HIDE DEF newest
    <2>3. QED
      BY <1>8, <1>10, <2>1, <2>2
  <1>12. CASE recent # <<>> /\ eligible # <<>>
    <2>1. corpus'.txs = OldestFirst(eligible) /\ corpus'.note = "none"
      BY <1>5, <1>12
    <2>2. /\ \A k \in DOMAIN recent : LandedBefore(recent[k]) => k \in before
          /\ \A k \in before : LandedBefore(recent[k])
      OBVIOUS
    <2> HIDE DEF eligible, before
    <2>3. QED
      BY <1>8, <1>10, <2>1, <2>2
  <1>13. QED
    BY <1>9, <1>11, <1>12

LEMMA CorpusKept ==
    ASSUME ReportInv, CheckNext
    PROVE  CorpusTrue' /\ CorpusIsOld' /\ NonePassedOver'
  <1>1. CASE Choose
    BY <1>1, ChosenWell
  <1>2. CASE Begin \/ Replay \/ Report
    <2>1. /\ step \in Judging /\ step' \in {"replay", "reported"} /\ UNCHANGED <<corpus, read>>
          /\ ask'.limit = ask.limit
      <3>1. CASE Begin
        <4>1. ask' = [ask EXCEPT !.history = <<>>] /\ ask \in [history : Histories \cup {<<>>}, limit : Limits, baseline : Baselines]
          BY <3>1 DEF Begin, ReportInv, AskTrue
        <4>2. QED
          BY <3>1, <4>1 DEF Begin, Judging
      <3>2. CASE Replay \/ Report
        BY <3>2 DEF Replay, Report, Judging
      <3>3. QED
        BY <1>2, <3>1, <3>2
    <2>2. \A tx : Qualifies(tx)' = Qualifies(tx)
      BY <2>1 DEF Qualifies
    <2>3. CorpusTrue' /\ CorpusIsOld'
      BY <2>1, <2>2 DEF ReportInv, CorpusTrue, CorpusIsOld, Judging
    <2>4. QED
      BY <2>1, <2>3 DEF NonePassedOver
  <1>3. CASE Upgrade \/ ReadDeploy \/ ReadBinary \/ ReadKind \/ ReadOld \/ WalkPage \/ PageFails \/ WalkEnds
    <2>1. step' \notin Judging
      BY <1>3 DEF Upgrade, ReadDeploy, ReadBinary, ReadKind, Reading, ReadOld, WalkPage, PageFails,
                  WalkEnds, Judging
    <2>2. QED
      BY <2>1 DEF CorpusTrue, CorpusIsOld, NonePassedOver, Judging
  <1>4. QED
    BY <1>1, <1>2, <1>3 DEF CheckNext

-----------------------------------------------------------------------------
\* The summary.

LEMMA OneMore ==
    ASSUME NEW list \in Seq(Lines), NEW x \in Lines
    PROVE  /\ Cardinality(ChangedIn(list)) \in Nat
           /\ Cardinality(ChangedIn(Append(list, x))) =
                IF x.changed THEN Cardinality(ChangedIn(list)) + 1 ELSE Cardinality(ChangedIn(list))
  <1> DEFINE n == Len(list)
             both == Append(list, x)
  <1>1. n \in Nat /\ DOMAIN list = 1..n /\ n + 1 \notin 1..n
    OBVIOUS
  <1>2. DOMAIN both = 1..n + 1 /\ both[n + 1] = x /\ \A i \in 1..n : both[i] = list[i]
    OBVIOUS
  <1>3. 1..n + 1 = (1..n) \cup {n + 1}
    <2> HIDE DEF n
    <2>1. QED
      BY <1>1
  <1>4. ChangedIn(both) = IF x.changed THEN ChangedIn(list) \cup {n + 1} ELSE ChangedIn(list)
    <2> HIDE DEF n, both
    <2>1. QED
      BY <1>1, <1>2, <1>3 DEF ChangedIn
  <1>5. IsFiniteSet(ChangedIn(list)) /\ n + 1 \notin ChangedIn(list)
    <2>1. ChangedIn(list) \subseteq 1..n
      BY <1>1 DEF ChangedIn
    <2>2. IsFiniteSet(1..n)
      BY <1>1, FS_Interval
    <2> HIDE DEF n
    <2>3. QED
      BY <1>1, <2>1, <2>2, FS_Subset
  <1> HIDE DEF n, both
  <1>6. Cardinality(ChangedIn(list)) \in Nat
    BY <1>5, FS_CardinalityType
  <1>7. x.changed => Cardinality(ChangedIn(both)) = Cardinality(ChangedIn(list)) + 1
    BY <1>4, <1>5, FS_AddElement
  <1>8. ~x.changed => Cardinality(ChangedIn(both)) = Cardinality(ChangedIn(list))
    BY <1>4
  <1>9. QED
    BY <1>6, <1>7, <1>8 DEF both

\* One line and its counts keep the summary true.
LEMMA TalliedOne ==
    ASSUME ReportInv, step = "replay", UNCHANGED <<step, corpus>>,
           Len(tallied.txs) < Len(corpus.txs),
           NEW x \in Lines, x.slot = corpus.txs[Len(tallied.txs) + 1].slot,
           NEW d \in Tallies, CountsAre(Append(tallied.txs, x), d),
           tallied' = [txs |-> Append(tallied.txs, x), counts |-> d]
    PROVE  TallyTrue'
  <1> DEFINE list == tallied.txs
             n == Len(list)
             both == Append(list, x)
  <1>1. list \in Seq(Lines) /\ n \in Nat /\ \A i \in 1..n : list[i].slot = corpus.txs[i].slot
    BY DEF ReportInv, TallyTrue
  <1>2. corpus.txs \in Seq({corpus.txs[i] : i \in DOMAIN corpus.txs})
    BY DEF ReportInv, CorpusTrue, Judging
  <1>3. Len(corpus.txs) \in Nat
    BY <1>2
  <1>4. /\ both \in Seq(Lines) /\ Len(both) = n + 1 /\ DOMAIN both = 1..n + 1
        /\ both[n + 1] = x /\ \A i \in 1..n : both[i] = list[i]
    BY <1>1
  <1>5. \A i \in DOMAIN both : both[i].slot = corpus.txs[i].slot
    <2>1. TAKE i \in DOMAIN both
    <2>2. i \in 1..n \/ i = n + 1
      BY <1>1, <1>4
    <2>3. QED
      BY <1>1, <1>4, <2>2
  <1>6. n + 1 <= Len(corpus.txs)
    BY <1>1, <1>3
  <1> HIDE DEF both
  <1>7. tallied'.txs = both /\ tallied'.counts = d
    BY DEF both
  <1>8. CountsAre(both, d)
    BY DEF both
  <1>9. step' = "replay" /\ corpus' = corpus
    OBVIOUS
  <1>10. QED
    BY <1>4, <1>5, <1>6, <1>7, <1>8, <1>9 DEF TallyTrue, Early, Walking

\* What a line adds to the counts.
LEMMA CountedIs ==
    ASSUME NEW c \in Tallies, NEW b, NEW a, NEW onchain \in BOOLEAN
    PROVE  LET d == Counted(c, b, a, onchain)
           IN  /\ d \in Tallies /\ d.total = c.total + 1 /\ d.errored = c.errored
               /\ d.matches \in {c.matches, c.matches + 1}
               /\ d.failing = c.failing + (IF b = "ok" /\ a # "ok" THEN 1 ELSE 0)
               /\ d.passing = c.passing + (IF b # "ok" /\ a = "ok" THEN 1 ELSE 0)
               /\ d.error = c.error + (IF b # "ok" /\ a # "ok" /\ b # a THEN 1 ELSE 0)
               /\ d.unchanged = c.unchanged + (IF b = a THEN 1 ELSE 0)
  <1> DEFINE m == IF (b = "ok") = onchain THEN 1 ELSE 0
             f == IF b = "ok" /\ a # "ok" THEN 1 ELSE 0
             p == IF b # "ok" /\ a = "ok" THEN 1 ELSE 0
             e == IF b # "ok" /\ a # "ok" /\ b # a THEN 1 ELSE 0
             u == IF b = a THEN 1 ELSE 0
             d == [c EXCEPT !.total = @ + 1, !.matches = @ + m, !.failing = @ + f,
                            !.passing = @ + p, !.error = @ + e, !.unchanged = @ + u]
  <1>1. m \in {0, 1} /\ f \in {0, 1} /\ p \in {0, 1} /\ e \in {0, 1} /\ u \in {0, 1}
    OBVIOUS
  <1>2. Counted(c, b, a, onchain) = d
    BY DEF Counted
  <1>3. c = [total |-> c.total, unchanged |-> c.unchanged, failing |-> c.failing, passing |-> c.passing,
             error |-> c.error, errored |-> c.errored, matches |-> c.matches]
        /\ c.total \in Nat /\ c.unchanged \in Nat /\ c.failing \in Nat /\ c.passing \in Nat
        /\ c.error \in Nat /\ c.errored \in Nat /\ c.matches \in Nat
    BY DEF Tallies
  <1> HIDE DEF m, f, p, e, u
  <1>4. d = [i \in DOMAIN c |-> IF i = "total" THEN c.total + 1
                               ELSE IF i = "matches" THEN c.matches + m
                               ELSE IF i = "failing" THEN c.failing + f
                               ELSE IF i = "passing" THEN c.passing + p
                               ELSE IF i = "error" THEN c.error + e
                               ELSE IF i = "unchanged" THEN c.unchanged + u ELSE c[i]]
    BY DEF Tallies
  <1>5. DOMAIN c = {"total", "unchanged", "failing", "passing", "error", "errored", "matches"}
    BY DEF Tallies
  <1> HIDE DEF d
  <1>6. d = [total |-> c.total + 1, unchanged |-> c.unchanged + u, failing |-> c.failing + f,
             passing |-> c.passing + p, error |-> c.error + e, errored |-> c.errored,
             matches |-> c.matches + m]
    BY <1>4, <1>5
  <1>7. d \in Tallies
    BY <1>1, <1>3, <1>6 DEF Tallies
  <1>8. d.total = c.total + 1 /\ d.errored = c.errored /\ d.matches = c.matches + m
        /\ d.failing = c.failing + f /\ d.passing = c.passing + p /\ d.error = c.error + e
        /\ d.unchanged = c.unchanged + u
    BY <1>6
  <1>9. d.matches \in {c.matches, c.matches + 1}
    BY <1>1, <1>3, <1>8
  <1>10. QED
    BY <1>2, <1>7, <1>8, <1>9 DEF d, f, p, e, u

LEMMA ReplayTallied ==
    ASSUME ReportInv, Replay
    PROVE  TallyTrue'
  <1> DEFINE list == tallied.txs
             c == tallied.counts
             n == Len(list)
             tx == corpus.txs[n + 1]
  <1>1. step = "replay" /\ n < Len(corpus.txs) /\ UNCHANGED <<step, corpus>>
    BY DEF Replay
  <1>2. list \in Seq(Lines) /\ c \in Tallies /\ CountsAre(list, c) /\ n \in Nat
    BY DEF ReportInv, TallyTrue
  <1>3. tx.slot \in Nat
    <2>1. corpus.txs \in Seq({corpus.txs[i] : i \in DOMAIN corpus.txs})
          /\ \A i \in DOMAIN corpus.txs : corpus.txs[i].slot \in Nat
      BY <1>1 DEF ReportInv, CorpusTrue, Judging
    <2>2. Len(corpus.txs) \in Nat /\ DOMAIN corpus.txs = 1..Len(corpus.txs)
      BY <2>1
    <2>3. n + 1 \in DOMAIN corpus.txs
      BY <1>1, <1>2, <2>2
    <2>4. QED
      BY <2>1, <2>3
  <1>4. ASSUME NEW run \in [{"old", "new"} -> Outcomes], NEW onchain \in BOOLEAN,
               tallied' = [txs |-> Append(list, Checked(tx, run["old"], run["new"])),
                           counts |-> Counted(c, run["old"], run["new"], onchain)]
        PROVE  TallyTrue'
    <2> DEFINE b == run["old"]
               a == run["new"]
               x == Checked(tx, b, a)
               d == Counted(c, b, a, onchain)
    <2>1. b \in Outcomes /\ a \in Outcomes /\ b # "none" /\ a \in Verdicts /\ b \in Verdicts
      BY DEF Outcomes, Verdicts
    <2> HIDE DEF b, a
    <2>2. x \in Lines /\ x.slot = tx.slot /\ x.changed = (b # a) /\ x.after = a
      <3> HIDE DEF tx
      <3>1. QED
        BY <1>3, <2>1 DEF Checked, Lines
    <2>3. /\ d \in Tallies /\ d.total = c.total + 1 /\ d.errored = c.errored
          /\ d.matches \in {c.matches, c.matches + 1}
          /\ d.failing = c.failing + (IF b = "ok" /\ a # "ok" THEN 1 ELSE 0)
          /\ d.passing = c.passing + (IF b # "ok" /\ a = "ok" THEN 1 ELSE 0)
          /\ d.error = c.error + (IF b # "ok" /\ a # "ok" /\ b # a THEN 1 ELSE 0)
          /\ d.unchanged = c.unchanged + (IF b = a THEN 1 ELSE 0)
      <3> HIDE DEF c
      <3>1. QED
        BY <1>2, CountedIs
    <2>4. Cardinality(ChangedIn(Append(list, x)))
            = IF b # a THEN Cardinality(ChangedIn(list)) + 1 ELSE Cardinality(ChangedIn(list))
      <3> HIDE DEF x, list
      <3>1. QED
        BY <1>2, <2>2, OneMore
    <2>5. Cardinality(ChangedIn(list)) \in Nat
      BY <1>2, <2>2, OneMore
    <2>6. Len(Append(list, x)) = n + 1 /\ DOMAIN Append(list, x) = 1..n + 1 /\ Append(list, x)[n + 1] = x
          /\ \A i \in 1..n : Append(list, x)[i] = list[i]
      BY <1>2
    <2>7. CountsAre(Append(list, x), d)
      <3>1. /\ c.total = n /\ c.total = c.unchanged + c.failing + c.passing + c.error + c.errored
            /\ c.matches + c.errored <= c.total
            /\ c.failing + c.passing + c.error = Cardinality(ChangedIn(list))
            /\ c.failing = 0 /\ c.error = 0 => \A i \in DOMAIN list : list[i].changed => list[i].after = "ok"
            /\ c.total \in Nat /\ c.unchanged \in Nat /\ c.failing \in Nat /\ c.passing \in Nat
            /\ c.error \in Nat /\ c.errored \in Nat /\ c.matches \in Nat
        BY <1>2 DEF CountsAre, Tallies
      <3> HIDE DEF x, d, c, list, n
      <3>2. /\ d.total = n + 1
            /\ d.total = d.unchanged + d.failing + d.passing + d.error + d.errored
            /\ d.matches + d.errored <= d.total
            /\ d.failing + d.passing + d.error = Cardinality(ChangedIn(Append(list, x)))
        BY <2>3, <2>4, <2>5, <3>1
      <3>3. ASSUME d.failing = 0, d.error = 0, NEW i \in 1..n + 1, Append(list, x)[i].changed
            PROVE  Append(list, x)[i].after = "ok"
        <4>1. c.failing = 0 /\ c.error = 0 /\ ~(b = "ok" /\ a # "ok") /\ ~(b # "ok" /\ a # "ok" /\ b # a)
          <5> DEFINE f == IF b = "ok" /\ a # "ok" THEN 1 ELSE 0
                     e == IF b # "ok" /\ a # "ok" /\ b # a THEN 1 ELSE 0
          <5>1. f \in {0, 1} /\ e \in {0, 1} /\ d.failing = c.failing + f /\ d.error = c.error + e
            BY <2>3
          <5> HIDE DEF f, e
          <5>2. c.failing = 0 /\ c.error = 0 /\ f = 0 /\ e = 0
            BY <3>1, <3>3, <5>1
          <5>3. QED
            BY <5>2 DEF f, e
        <4>2. CASE i \in 1..n
          <5>1. DOMAIN list = 1..n
            BY <1>2 DEF n, list
          <5>2. QED
            BY <2>6, <3>1, <3>3, <4>1, <4>2, <5>1
        <4>3. CASE i = n + 1
          BY <2>2, <2>6, <3>3, <4>1, <4>3
        <4>4. QED
          BY <1>2, <3>3, <4>2, <4>3 DEF n
      <3>4. QED
        BY <2>6, <3>2, <3>3 DEF CountsAre
    <2>8. tallied' = [txs |-> Append(list, x), counts |-> d]
      BY <1>4 DEF b, a
    <2> HIDE DEF x, d
    <2>9. QED
      BY <1>1, <2>2, <2>3, <2>7, <2>8, TalliedOne
  <1>5. ASSUME tallied' = [txs |-> Append(list, Checked(tx, "none", "none")),
                           counts |-> [c EXCEPT !.total = @ + 1, !.errored = @ + 1]]
        PROVE  TallyTrue'
    <2> DEFINE x == Checked(tx, "none", "none")
               d == [c EXCEPT !.total = @ + 1, !.errored = @ + 1]
    <2>1. x \in Lines /\ x.slot = tx.slot /\ x.changed = FALSE
      <3> HIDE DEF tx
      <3>1. QED
        BY <1>3 DEF Checked, Lines, Verdicts
    <2>2. /\ d \in Tallies /\ d.total = c.total + 1 /\ d.errored = c.errored + 1 /\ d.matches = c.matches
          /\ d.failing = c.failing /\ d.passing = c.passing /\ d.error = c.error /\ d.unchanged = c.unchanged
      <3> HIDE DEF c
      <3>1. c = [total |-> c.total, unchanged |-> c.unchanged, failing |-> c.failing,
                 passing |-> c.passing, error |-> c.error, errored |-> c.errored, matches |-> c.matches]
            /\ c.total \in Nat /\ c.unchanged \in Nat /\ c.failing \in Nat /\ c.passing \in Nat
            /\ c.error \in Nat /\ c.errored \in Nat /\ c.matches \in Nat
        BY <1>2 DEF Tallies
      <3>2. d = [i \in DOMAIN c |-> IF i = "total" THEN c.total + 1
                                   ELSE IF i = "errored" THEN c.errored + 1 ELSE c[i]]
        BY <1>2 DEF Tallies
      <3>3. DOMAIN c = {"total", "unchanged", "failing", "passing", "error", "errored", "matches"}
        BY <1>2 DEF Tallies
      <3> HIDE DEF d
      <3>4. d = [total |-> c.total + 1, unchanged |-> c.unchanged, failing |-> c.failing,
                 passing |-> c.passing, error |-> c.error, errored |-> c.errored + 1,
                 matches |-> c.matches]
        BY <3>2, <3>3
      <3>5. QED
        BY <3>1, <3>4 DEF Tallies
    <2>3. Cardinality(ChangedIn(Append(list, x))) = Cardinality(ChangedIn(list))
          /\ Cardinality(ChangedIn(list)) \in Nat
      <3> HIDE DEF x, list
      <3>1. QED
        BY <1>2, <2>1, OneMore
    <2>4. Len(Append(list, x)) = n + 1 /\ DOMAIN Append(list, x) = 1..n + 1 /\ Append(list, x)[n + 1] = x
          /\ \A i \in 1..n : Append(list, x)[i] = list[i]
      BY <1>2
    <2>5. CountsAre(Append(list, x), d)
      <3>1. /\ c.total = n /\ c.total = c.unchanged + c.failing + c.passing + c.error + c.errored
            /\ c.matches + c.errored <= c.total
            /\ c.failing + c.passing + c.error = Cardinality(ChangedIn(list))
            /\ c.failing = 0 /\ c.error = 0 => \A i \in DOMAIN list : list[i].changed => list[i].after = "ok"
            /\ c.total \in Nat /\ c.unchanged \in Nat /\ c.failing \in Nat /\ c.passing \in Nat
            /\ c.error \in Nat /\ c.errored \in Nat /\ c.matches \in Nat
        BY <1>2 DEF CountsAre, Tallies
      <3>2. DOMAIN list = 1..n
        BY <1>2
      <3> HIDE DEF x, d, c, list, n
      <3>3. /\ d.total = n + 1
            /\ d.total = d.unchanged + d.failing + d.passing + d.error + d.errored
            /\ d.matches + d.errored <= d.total
            /\ d.failing + d.passing + d.error = Cardinality(ChangedIn(Append(list, x)))
        BY <2>2, <2>3, <3>1
      <3>4. ASSUME d.failing = 0, d.error = 0, NEW i \in 1..n + 1, Append(list, x)[i].changed
            PROVE  Append(list, x)[i].after = "ok"
        <4>1. CASE i \in 1..n
          BY <2>2, <2>4, <3>1, <3>2, <3>4, <4>1
        <4>2. CASE i = n + 1
          BY <2>1, <2>4, <3>4, <4>2
        <4>3. QED
          BY <1>2, <3>4, <4>1, <4>2 DEF n
      <3>5. QED
        BY <2>4, <3>3, <3>4 DEF CountsAre
    <2>6. tallied' = [txs |-> Append(list, x), counts |-> d]
      BY <1>5
    <2> HIDE DEF x, d
    <2>7. QED
      BY <1>1, <2>1, <2>2, <2>5, <2>6, TalliedOne
  <1>6. QED
    BY <1>4, <1>5 DEF Replay

LEMMA TallyKept ==
    ASSUME ReportInv, CheckNext
    PROVE  TallyTrue'
  <1>1. CASE Replay
    BY <1>1, ReplayTallied
  <1>2. CASE ~Replay
    <2>1. UNCHANGED tallied
      BY <1>2 DEF CheckNext, Upgrade, ReadDeploy, ReadBinary, ReadKind, Reading, ReadOld, WalkPage,
                  PageFails, WalkEnds, Choose, Begin, Report
    <2>2. \/ step' \in Early \cup Walking \cup {"chosen"} /\ step \in Early \cup Walking \cup {"chosen"}
          \/ step' = "refused"
          \/ Begin
          \/ Report
      BY <1>2 DEF ReportInv, CheckNext, Upgrade, ReadDeploy, ReadBinary, ReadKind, Reading, ReadOld, WalkPage,
                  PageFails, WalkEnds, Choose, Early, Walking, Judging
    <2>3. CASE step' \in Early \cup Walking \cup {"chosen", "refused"}
          /\ (step' # "refused" => step \in Early \cup Walking \cup {"chosen"})
      BY <2>1, <2>3 DEF ReportInv, TallyTrue, Early, Walking
    <2>4. CASE Begin
      <3>1. step = "chosen" /\ step' = "replay" /\ UNCHANGED corpus
        BY <2>4 DEF Begin
      <3>2. tallied.txs \in Seq(Lines) /\ Len(tallied.txs) = 0
        BY <3>1 DEF ReportInv, TallyTrue
      <3>3. DOMAIN tallied.txs = {}
        BY <3>2
      <3>4. Len(corpus.txs) \in Nat
        BY <3>1 DEF ReportInv, CorpusTrue, Judging
      <3>5. QED
        BY <2>1, <3>1, <3>2, <3>3, <3>4 DEF ReportInv, TallyTrue, Early, Walking
    <2>5. CASE Report
      BY <2>1, <2>5 DEF Report, ReportInv, TallyTrue, Early, Walking
    <2>6. QED
      BY <2>2, <2>3, <2>4, <2>5 DEF Early, Walking
  <1>3. QED
    BY <1>1, <1>2

LEMMA ReportNextInv == ReportInv /\ [CheckNext]_checkVars => ReportInv'
  <1>1. CASE ReportInv /\ CheckNext
    BY <1>1, ReadKept, WalkKept, CorpusKept, TallyKept DEF ReportInv
  <1>2. CASE ReportInv /\ UNCHANGED checkVars
    <2>1. UNCHANGED <<ask, looked, recent, missed, read, step, chain, corpus, tallied>>
      BY <1>2 DEF checkVars
    <2>2. WalkTrue'
      BY <1>2, <2>1, WalkSame DEF ReportInv
    <2>3. \A tx : Qualifies(tx)' = Qualifies(tx) /\ LandedBefore(tx)' = LandedBefore(tx)
      BY <2>1 DEF Qualifies, LandedBefore
    <2>4. ReadTrue' /\ AskTrue' /\ CorpusTrue' /\ TallyTrue'
      BY <1>2, <2>1 DEF ReportInv, ReadTrue, AskTrue, CorpusTrue, TallyTrue
    <2>5. CorpusIsOld' /\ NonePassedOver'
      BY <1>2, <2>1, <2>3 DEF ReportInv, CorpusIsOld, NonePassedOver
    <2>6. QED
      BY <1>2, <2>1, <2>2, <2>4, <2>5 DEF ReportInv
  <1>3. QED
    BY <1>1, <1>2

\* What a summary says when its counts are those of its lines.
LEMMA SummaryTrue == ReportInv => VerdictTrue
  <1>1. SUFFICES ASSUME ReportInv, step = "reported" PROVE VerdictTrue
    BY DEF VerdictTrue
  <1> DEFINE c == tallied.counts
             list == tallied.txs
  <1>2. /\ list \in Seq(Lines) /\ c \in Tallies /\ CountsAre(list, c) /\ Len(list) = Len(corpus.txs)
        /\ \A i \in DOMAIN list : list[i].slot = corpus.txs[i].slot
    BY <1>1 DEF ReportInv, TallyTrue
  <1>3. corpus.txs \in Seq({corpus.txs[i] : i \in DOMAIN corpus.txs})
    BY <1>1 DEF ReportInv, CorpusTrue, Judging
  <1>4. DOMAIN list = DOMAIN corpus.txs
    <2> HIDE DEF list
    <2>1. DOMAIN list = 1..Len(list) /\ DOMAIN corpus.txs = 1..Len(corpus.txs)
      BY <1>2, <1>3
    <2>2. QED
      BY <1>2, <2>1
  <1>5. [i \in DOMAIN list |-> list[i].slot] = [i \in DOMAIN corpus.txs |-> corpus.txs[i].slot]
    BY <1>2, <1>4
  <1>6. ReportVerdict(c) = "nothing newly fails" => c.failing = 0 /\ c.error = 0
    <2>1. c.total \in Nat
      BY <1>2 DEF Tallies
    <2> HIDE DEF c
    <2>2. QED
      BY <2>1 DEF ReportVerdict
  <1>7. c.matches <= c.total - c.errored
    <2>1. c.matches + c.errored <= c.total /\ c.matches \in Nat /\ c.errored \in Nat /\ c.total \in Nat
      BY <1>2 DEF CountsAre, Tallies
    <2> HIDE DEF c
    <2>2. QED
      BY <2>1
  <1>8. QED
    BY <1>2, <1>5, <1>6, <1>7 DEF VerdictTrue, CountsAre, ChangedIn

\* For any history and any number of deploys, wherever they land between the
\* calls of a check, and whatever a batch leaves out: the corpus is what landed
\* before the binary that is checked, or the note says that it is not, none of
\* it was passed over while everything was fetched, and the summary and its
\* verdict are those of its transactions (dependency_watch.rs, dependency_check).
THEOREM CheckSound == CheckSpec => []CheckTrue
  <1>1. ReportInv => CheckTrue
    BY SummaryTrue DEF ReportInv, CheckTrue
  <1>2. QED
    BY <1>1, ReportInitInv, ReportNextInv, PTL DEF CheckSpec
=============================================================================
