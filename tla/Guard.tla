-------------------------------- MODULE Guard --------------------------------
(***************************************************************************)
(* What stands before the handlers (server: guard.rs and the two layers of *)
(* main.rs): the allowance of each client, and the short-lived cache of    *)
(* whole responses.                                                        *)
(***************************************************************************)
EXTENDS Naturals, Sequences, FiniteSets, FiniteSetsExt, SequencesExt

CONSTANTS
    Peers,         \* connections' addresses
    Urls,          \* cacheable URLs
    Window,        \* WINDOW
    MaxPerWindow,  \* MAX_PER_WINDOW
    Ttl,           \* TTL
    MaxEntries,    \* MAX_ENTRIES
    MaxTime,       \* last tick of the model's clock
    MaxUnderWay    \* most handlers running at once

ASSUME GuardAssumption ==
    /\ {Window, MaxPerWindow, Ttl, MaxEntries} \subseteq Nat \ {0}
    /\ {MaxTime, MaxUnderWay} \subseteq Nat

VARIABLES
    clock,
    hits,       \* HITS: the times of each client's admitted requests, oldest first
    cached,     \* CACHE: when the body of a URL was stored
    running,    \* handlers under way, by client and URL
    admitted    \* ghost: every admission
guardVars == <<clock, hits, cached, running, admitted>>

GuardInit ==
    /\ clock = 0 /\ hits = [p \in {} |-> <<>>] /\ cached = [u \in {} |-> 0]
    /\ running = {} /\ admitted = [p \in Peers |-> <<>>]

Young(t, span) == clock - t < span

\* mutant: a client is forgotten with its first hit
Forgotten(of) == {p \in DOMAIN of : of[p] # <<>> /\ Young(Head(of[p]), Window)}

\* "Drop clients that have gone quiet".
Lively(of) == {p \in DOMAIN of : of[p] # <<>> /\ Young(Last(of[p]), Window)}

\* The places of the times still in the window, and of the others.
InWindow(times) == {k \in DOMAIN times : Young(times[k], Window)}
Gone(times) == DOMAIN times \ InWindow(times)

\* rate_check, the hits of `p` still in the window (newest last: the others come
\* first), and the verdict.
Recent(p) ==
    IF p \in Lively(hits)
    THEN SubSeq(hits[p], Cardinality(Gone(hits[p])) + 1, Len(hits[p])) ELSE <<>>
Allowed(p) == Len(Recent(p)) < MaxPerWindow
Checked(p) ==
    [q \in Lively(hits) \cup {p} |->
        IF q # p THEN hits[q] ELSE IF Allowed(p) THEN Append(Recent(p), clock) ELSE Recent(p)]

\* cache_get: a body younger than TTL.
Fresh(u) == u \in DOMAIN cached /\ Young(cached[u], Ttl)

\* cache_put: expired entries go, and the oldest if the map is still full.
Kept(of) ==
    LET live == {v \in DOMAIN of : Young(of[v], Ttl)}
        oldest == CHOOSE v \in live : \A w \in live : of[v] <= of[w]
    IN  IF Cardinality(live) >= MaxEntries THEN live \ {oldest} ELSE live

\* cache_layer, inside rate_limit: a cached answer uses the allowance too; without
\* one the handler runs.
Get(p, u) ==
    /\ hits' = Checked(p)
    /\ admitted' = IF Allowed(p) THEN [admitted EXCEPT ![p] = Append(@, clock)] ELSE admitted
    /\ IF ~Allowed(p) \/ Fresh(u) THEN UNCHANGED running
       ELSE /\ Cardinality(running) < MaxUnderWay
            /\ running' = running \cup {[url |-> u, by |-> p]}
    /\ UNCHANGED <<clock, cached>>

\* The handler answers, and an OK response is stored.
Finish(h, ok) ==
    /\ h \in running
    /\ running' = running \ {h}
    /\ cached' =
         IF ~ok THEN cached
         ELSE [v \in Kept(cached) \cup {h.url} |-> IF v = h.url THEN clock ELSE cached[v]]
    /\ UNCHANGED <<clock, hits, admitted>>

Pass ==
    /\ clock < MaxTime /\ clock' = clock + 1
    /\ UNCHANGED <<hits, cached, running, admitted>>

GuardNext ==
    \/ \E p \in Peers, u \in Urls : Get(p, u)
    \/ \E h \in running, ok \in BOOLEAN : Finish(h, ok)
    \/ Pass

GuardSpec == GuardInit /\ [][GuardNext]_guardVars

\* Whatever is forgotten in between, a client is admitted MaxPerWindow times in
\* any window and refused only when it was; the cache never outgrows its cap.
GuardSound ==
    /\ \A p \in Peers :
         /\ \A k \in DOMAIN admitted[p] : k + MaxPerWindow \in DOMAIN admitted[p] =>
              admitted[p][k + MaxPerWindow] - admitted[p][k] >= Window
         /\ Allowed(p) <=> Cardinality(InWindow(admitted[p])) < MaxPerWindow
    /\ Cardinality(DOMAIN cached) <= MaxEntries
=============================================================================
