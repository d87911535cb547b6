------------------------- MODULE DependencyRegistry -------------------------
(***************************************************************************)
(* The on-chain registry (programs/dependency_registry): protocols, each   *)
(* an account at an address derived from the program it registers and the  *)
(* authority that registered it, and the dependency accounts below them.   *)
(* Instructions are atomic and signed by the entry's authority.            *)
(***************************************************************************)
EXTENDS Naturals, FiniteSets

CONSTANTS
    Subject,            \* programs (or wallets) that get registered
    Authority,          \* who registers and upgrades
    Program,            \* programs others depend on
    Cluster, Home,      \* the clusters, and the one the registry lives on
    Url, TooLong,       \* alert urls, and those over MAX_ALERT_URL_LEN
    MaxDependencies,    \* MAX_DEPENDENCIES
    Nobody              \* no upgrade authority, no account

ASSUME RegistryAssumption ==
    /\ Home \in Cluster
    /\ \E url \in Url : url \notin TooLong
    /\ MaxDependencies \in Nat \ {0}
    /\ Nobody \notin Authority

\* The seeds of a protocol account and of a dependency account.
Entry == Subject \X Authority
Link == Entry \X Program

VARIABLES
    owner,          \* owner[c][s]: the upgrade authority of s on cluster c
    registered,     \* the protocol accounts that exist
    protocol,       \* their fields
    dependencies,   \* the dependency accounts that exist
    muted           \* those with alerts_enabled off

registry == <<registered, protocol, dependencies, muted>>

Protocol == [alert_url : Url \ TooLong, dependency_count : 0..MaxDependencies,
             proven : BOOLEAN]
LinksOf(e) == {l \in dependencies : l[1] = e}

NoAccount == [alert_url |-> CHOOSE url \in Url : url \notin TooLong,
              dependency_count |-> 0, proven |-> FALSE]

-----------------------------------------------------------------------------
\* register: with the program data of the subject the authority must be its
\* upgrade authority here; without, the entry is unproven.
IsOwner(e, proof) == proof => owner[Home][e[1]] = e[2]

Register(e, url, proof) ==
    /\ e \notin registered
    /\ url \notin TooLong
    /\ IsOwner(e, proof)
    /\ registered' = registered \cup {e}
    /\ protocol' = [protocol EXCEPT ![e] =
           [alert_url |-> url, dependency_count |-> 0, proven |-> proof]]
    /\ UNCHANGED <<owner, dependencies, muted>>

AddDependency(e, d) ==
    LET l == <<e, d>>
    IN  /\ e \in registered /\ l \notin dependencies
        /\ protocol[e].dependency_count < MaxDependencies
        /\ protocol' = [protocol EXCEPT ![e].dependency_count = @ + 1]
        /\ dependencies' = dependencies \cup {l}
        /\ UNCHANGED <<owner, registered, muted>>

\* mutant: the count is not taken back
RemoveKeepingCount(e, d) ==
    LET l == <<e, d>>
    IN  /\ e \in registered /\ l \in dependencies
        /\ dependencies' = dependencies \ {l}
        /\ muted' = muted \ {l}
        /\ UNCHANGED <<owner, registered, protocol>>

\* checked_sub: the instruction fails below zero.
RemoveDependency(e, d) ==
    LET l == <<e, d>>
    IN  /\ e \in registered /\ l \in dependencies
        /\ protocol[e].dependency_count > 0
        /\ protocol' = [protocol EXCEPT ![e].dependency_count = @ - 1]
        /\ dependencies' = dependencies \ {l}
        /\ muted' = muted \ {l}
        /\ UNCHANGED <<owner, registered>>

SetAlerts(e, d, on) ==
    LET l == <<e, d>>
    IN  /\ e \in registered /\ l \in dependencies
        /\ muted' = IF on THEN muted \ {l} ELSE muted \cup {l}
        /\ UNCHANGED <<owner, registered, protocol, dependencies>>

UpdateProtocol(e, url) ==
    /\ e \in registered
    /\ url \notin TooLong
    /\ protocol' = [protocol EXCEPT ![e].alert_url = url]
    /\ UNCHANGED <<owner, registered, dependencies, muted>>

\* mutant: an entry goes with its dependencies still there
UnregisterAny(e) ==
    /\ e \in registered
    /\ registered' = registered \ {e}
    /\ protocol' = [protocol EXCEPT ![e] = NoAccount]
    /\ UNCHANGED <<owner, dependencies, muted>>

Unregister(e) ==
    /\ e \in registered
    /\ protocol[e].dependency_count = 0
    /\ registered' = registered \ {e}
    /\ protocol' = [protocol EXCEPT ![e] = NoAccount]
    /\ UNCHANGED <<owner, dependencies, muted>>

\* An upgrade authority is handed over or given up.
HandOver(c, s, a) ==
    /\ owner[c][s] # Nobody /\ a # owner[c][s]
    /\ owner' = [owner EXCEPT ![c][s] = a]
    /\ UNCHANGED registry

Instruction ==
    \E e \in Entry :
        \/ \E url \in Url : \/ \E proof \in BOOLEAN : Register(e, url, proof)
                            \/ UpdateProtocol(e, url)
        \/ \E d \in Program : \/ AddDependency(e, d) \/ RemoveDependency(e, d)
                              \/ \E on \in BOOLEAN : SetAlerts(e, d, on)
        \/ Unregister(e)

RegistryInit ==
    /\ owner \in [Cluster -> [Subject -> Authority \cup {Nobody}]]
    /\ registered = {}
    /\ protocol = [e \in Entry |-> NoAccount]
    /\ dependencies = {}
    /\ muted = {}

RegistryNext ==
    \/ Instruction
    \/ \E c \in Cluster, s \in Subject, a \in Authority \cup {Nobody} : HandOver(c, s, a)

RegistrySpec == RegistryInit /\ [][RegistryNext]_<<owner, registry>>

-----------------------------------------------------------------------------
RegistryTypeOK ==
    /\ owner \in [Cluster -> [Subject -> Authority \cup {Nobody}]]
    /\ registered \subseteq Entry
    /\ protocol \in [Entry -> Protocol]
    /\ dependencies \subseteq Link
    /\ muted \subseteq dependencies

\* dependency_count is the number of dependency accounts the entry has, so
\* that the limit of MAX_DEPENDENCIES and the guard of unregister mean what
\* they say (add_dependency.rs:36-45, remove_dependency.rs:32-38).
CountExact ==
    \A e \in registered :
        protocol[e].dependency_count = Cardinality(LinksOf(e))

\* No dependency account outlives its protocol: who registers at the same
\* address again starts with none (unregister.rs:19).
NoOrphans == \A l \in dependencies : l[1] \in registered

\* The two together: what unregister relies on when it closes a protocol whose
\* count is zero.
BooksExact == CountExact /\ NoOrphans
=============================================================================
