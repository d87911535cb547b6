------------------------------- MODULE Worlds -------------------------------
(***************************************************************************)
(* Traces served by the server (main.rs `trace_with_world`): the captured  *)
(* worlds shared between a trace and its mutated re-runs, the choice       *)
(* between the two tiers, and the store of finished traces.                *)
(***************************************************************************)
EXTENDS Naturals, Sequences, FiniteSets

CONSTANTS
    Viewers,     \* requests one after the other, each from one page
    Sigs,        \* landed transactions; all of them succeeded on chain
    WorldTtl,    \* WORLD_TTL
    WorldMax,    \* WORLD_MAX
    TraceTtl,    \* TRACE_STORE_TTL
    TraceMax,    \* TRACE_STORE_MAX
    LastTick,    \* last tick of the model's clock
    MaxBuilds    \* most worlds built

ASSUME WorldsAssumption ==
    {WorldTtl, WorldMax, TraceTtl, TraceMax, LastTick, MaxBuilds} \subseteq Nat /\ WorldTtl > 0

VARIABLES
    tick,       \* the clock
    worlds,    \* WORLDS: per signature and tier, the world and when it was put
    traces,    \* TRACE_STORE: per signature, the trace and when it was put
    asked,     \* the request of each viewer
    base,      \* the trace each page shows
    rerun,     \* the last re-run of it
    built,     \* per world built, its tier and whether the transaction succeeds in it
    lost       \* ghost: worlds that left the cache
worldVars == <<tick, worlds, traces, asked, base, rerun, built, lost>>

None == [sig |-> "none"]
Tiers == {"at_slot", "now"}

\* No transaction carries the signature that stands for no trace.
ASSUME SigsAssumption == None.sig \notin Sigs

WorldsInit ==
    /\ tick = 0 /\ worlds = [k \in {} |-> None] /\ traces = [s \in {} |-> None]
    /\ asked = [v \in Viewers |-> None] /\ base = asked /\ rerun = asked
    /\ built = <<>> /\ lost = {}

Within(entry, ttl) == tick - entry.at < ttl
Hit(store, key, ttl) == key \in DOMAIN store /\ Within(store[key], ttl)

\* A request: `pinned` forces a tier, `changed` says it mutates accounts or
\* travels in time; `held` is the trace of the reconstructed tier, kept while the
\* current one is tried; `was` is the world of the trace it re-runs.
Request(s, pinned, changed, was) ==
    [sig |-> s, pinned |-> pinned, changed |-> changed, was |-> was, stage |-> "look",
     tier |-> IF pinned = "best" THEN "at_slot" ELSE pinned, held |-> None]

\* trace_get_handler: a stored trace is served, else the trace is made.
View(v, s) ==
    /\ asked[v] = None
    /\ IF Hit(traces, s, TraceTtl)
       THEN base' = [base EXCEPT ![v] = traces[s].trace] /\ UNCHANGED asked
       ELSE asked' = [asked EXCEPT ![v] = Request(s, "best", FALSE, 0)] /\ UNCHANGED base
    /\ UNCHANGED <<tick, worlds, traces, rerun, built, lost>>

\* trace_handler: the page re-runs its trace with changes, in the trace's tier
\* unless the caller leaves it open.
Rerun(v, pinned) ==
    /\ asked[v] = None /\ base[v] # None /\ pinned \in {base[v].tier, "best"}
    /\ asked' = [asked EXCEPT ![v] = Request(base[v].sig, pinned, TRUE, base[v].world)]
    /\ UNCHANGED <<tick, worlds, traces, base, rerun, built, lost>>

\* TRACE_STORE, when it is full: the younger half-life stays, or nothing does.
Stored(s, t) ==
    LET young == {u \in DOMAIN traces : 2 * (tick - traces[u].at) < TraceTtl}
        kept  == IF Cardinality(DOMAIN traces) < TraceMax THEN DOMAIN traces
                 ELSE IF Cardinality(young) < TraceMax THEN young ELSE {}
    IN  [u \in kept \cup {s} |-> IF u = s THEN [at |-> tick, trace |-> t] ELSE traces[u]]

\* The answer: a plain trace is stored and shown, a re-run is compared with it.
Answer(v, r, t) ==
    /\ asked' = [asked EXCEPT ![v] = None]
    /\ IF r.changed
       THEN /\ rerun' = [rerun EXCEPT ![v] = [t EXCEPT !.was = r.was, !.pinned = r.pinned]]
            /\ UNCHANGED <<base, traces>>
       ELSE /\ base' = [base EXCEPT ![v] = t]
            /\ traces' = Stored(r.sig, t)
            /\ UNCHANGED rerun

\* mutant: the first tier that agrees with the chain, or the last one tried
LastTried(r, t, agrees) == t

\* The better of the two traces: current state only if it agrees with the chain.
Better(r, t, agrees) == IF r.pinned = "best" /\ r.tier = "now" /\ ~agrees THEN r.held ELSE t

\* build, once its world `w` is there: the trace, and whether it is the answer
\* or current state is tried too.
Traced(v, w, agrees) ==
    LET r == asked[v]
        t == [sig |-> r.sig, tier |-> r.tier, world |-> w, was |-> 0, pinned |-> r.pinned]
    IN  IF r.pinned = "best" /\ r.tier = "at_slot" /\ ~agrees /\ ~r.changed
        THEN /\ asked' = [asked EXCEPT ![v] = [r EXCEPT !.tier = "now", !.stage = "look", !.held = t]]
             /\ UNCHANGED <<base, rerun, traces>>
        ELSE Answer(v, r, Better(r, t, agrees))

\* mutant: the tier is left out of the key
AnyTier(r) == <<r.sig, "at_slot">>

KeyOf(r) == <<r.sig, r.tier>>

\* world_get: the world is shared, or has to be built.
Look(v) ==
    LET r == asked[v]
    IN  /\ r # None /\ r.stage = "look"
        /\ IF Hit(worlds, KeyOf(r), WorldTtl)
           THEN LET w == worlds[KeyOf(r)].world IN Traced(v, w, built[w].succeeds)
           ELSE /\ asked' = [asked EXCEPT ![v].stage = "build"]
                /\ UNCHANGED <<base, rerun, traces>>
        /\ UNCHANGED <<tick, worlds, built, lost>>

\* The worlds of a store.
In(store) == {store[k].world : k \in DOMAIN store}

\* world_put: expired worlds go, all of them when the cache is full.
Put(key, w) ==
    LET live == {k \in DOMAIN worlds : Within(worlds[k], WorldTtl)}
        kept == IF Cardinality(live) < WorldMax THEN live ELSE {}
    IN  [k \in kept \cup {key} |-> IF k = key THEN [at |-> tick, world |-> w] ELSE worlds[k]]

\* A world is built from the network and put.
Build(v, succeeds) ==
    LET r == asked[v]
        w == Len(built) + 1
    IN  /\ r # None /\ r.stage = "build" /\ w <= MaxBuilds
        /\ built' = Append(built, [tier |-> r.tier, succeeds |-> succeeds])
        /\ worlds' = Put(KeyOf(r), w)
        /\ lost' = lost \cup (In(worlds) \ In(worlds'))
        /\ Traced(v, w, succeeds)
        /\ UNCHANGED tick

\* The build fails: an error, unless only current state was missing.
Fail(v) ==
    LET r == asked[v]
    IN  /\ r # None /\ r.stage = "build"
        /\ IF r.held # None THEN Answer(v, r, r.held)
           ELSE /\ asked' = [asked EXCEPT ![v] = None]
                /\ UNCHANGED <<base, rerun, traces>>
        /\ UNCHANGED <<tick, worlds, built, lost>>

\* run_profile: a world of its own, whatever is cached.
Profile(tier, succeeds) ==
    /\ Len(built) < MaxBuilds
    /\ built' = Append(built, [tier |-> tier, succeeds |-> succeeds])
    /\ UNCHANGED <<tick, worlds, traces, asked, base, rerun, lost>>

Tick ==
    /\ tick < LastTick /\ tick' = tick + 1
    /\ lost' = lost \cup {worlds[k].world : k \in {j \in DOMAIN worlds : tick' - worlds[j].at >= WorldTtl}}
    /\ UNCHANGED <<worlds, traces, asked, base, rerun, built>>

WorldsNext ==
    \/ \E v \in Viewers :
         \/ \E s \in Sigs : View(v, s)
         \/ \E pinned \in Tiers \cup {"best"} : Rerun(v, pinned)
         \/ Look(v) \/ Fail(v)
         \/ \E succeeds \in BOOLEAN : Build(v, succeeds)
    \/ \E tier \in Tiers, succeeds \in BOOLEAN : Profile(tier, succeeds)
    \/ Tick

WorldsSpec == WorldsInit /\ [][WorldsNext]_worldVars

\* A trace ran in a world of the tier it names; a trace of current state that
\* nobody pinned agrees with the chain; a re-run that pins the tier of its base
\* trace runs in the base's own world, unless that world left the cache.
TracesHonest ==
    \A v \in Viewers :
        /\ \A t \in {base[v], rerun[v]} \ {None} : t.tier = built[t.world].tier
        /\ base[v] # None /\ base[v].tier = "now" => built[base[v].world].succeeds
        /\ rerun[v] # None /\ rerun[v].pinned # "best" =>
             rerun[v].world = rerun[v].was \/ rerun[v].was \in lost
=============================================================================
