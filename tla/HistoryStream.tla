--------------------------- MODULE HistoryStream ---------------------------
(***************************************************************************)
(* The account-changes stream (history.rs): the last change of each        *)
(* account before a slot, searched backwards in widening windows, in       *)
(* batches, over a few API keys, by threads that share the process's       *)
(* stream slots and the back-off of its keys.                              *)
(***************************************************************************)
EXTENDS Naturals, Sequences, FiniteSets, FiniteSetsExt, Functions

CONSTANTS
    Searches,     \* threads
    Parallel,     \* SVMSCOPE_STREAM_PARALLEL
    Keys,         \* the API keys, in order
    Small, Large, \* the accounts of each size
    Batch,        \* BATCH
    Target,       \* the slot searched before
    FirstSmall, FirstLarge,   \* the first window of each group
    Deep,         \* deep_lookback
    Chains,       \* the pasts tried: for each account, the slots it changed at
    LimitRetries, \* how many LIMIT_RETRY_WAITS there are (3 in the code)
    MaxRefused    \* most calls that are refused

ASSUME StreamAssumption ==
    /\ {Parallel, Batch, FirstSmall, FirstLarge} \subseteq Nat \ {0}
    /\ {Target, Deep, LimitRetries, MaxRefused} \subseteq Nat
    /\ Keys \in Seq(Range(Keys))
    /\ Chains \subseteq [Small \cup Large -> SUBSET Nat]

VARIABLES
    changed,     \* the chain: the slots each account changed at
    slotsHeld,   \* STREAM_SLOTS
    backedOff,   \* keys in LIMIT_HIT_UNTIL
    search,      \* per thread: where its search stands
    refused      \* calls refused so far

streamVars == <<changed, slotsHeld, backedOff, search, refused>>

Tracked == Small \cup Large
Widening == 5
Below(n, d) == IF n > d THEN n - d ELSE 0
Floor == Max({1, Below(Target, Deep)})

\* The changes of an account in [from, to), and the last of them, as found.
ChangesIn(a, from, to) == {n \in changed[a] : from <= n /\ n < to}
Answer(accounts, from, to) ==
    {<<a, Max(ChangesIn(a, from, to))>> : a \in {x \in accounts : ChangesIn(x, from, to) # {}}}

\* A search: the groups left (an empty one is over at once), the head one under way with its next window's
\* end and width; the accounts this window has still to ask for; what the
\* window, the group and the search found; the key in use and its refusals.
Group(accounts, width) == [missing |-> accounts, to |-> Target, width |-> width]
Groups == <<Group(Small, FirstSmall), Group(Large, FirstLarge)>>
From(g) == Max({Floor, Below(g.to, g.width)})

StreamInit ==
    /\ changed = <<>> /\ slotsHeld = 0 /\ backedOff = {} /\ refused = 0
    /\ search = [t \in Searches |->
                   [stage |-> "idle", groups |-> <<>>, ask |-> {}, got |-> {}, kept |-> {},
                    found |-> {}, key |-> 1, tries |-> 0, failed |-> FALSE]]

\* What the chain did before anyone asks.
Chain(ch) ==
    /\ changed = <<>> /\ changed' = ch
    /\ UNCHANGED <<slotsHeld, backedOff, search, refused>>

Begin(t) ==
    /\ changed # <<>> /\ search[t].stage = "idle"
    /\ search' = [search EXCEPT ![t].stage = "next", ![t].groups = Groups]
    /\ UNCHANGED <<changed, slotsHeld, backedOff, refused>>

\* The group is over: its versions join the answer.
NextGroup(s) == [s EXCEPT !.found = @ \cup s.kept, !.kept = {}, !.groups = Tail(@)]

\* The head of the windows loop.
Turn(t) ==
    LET s == search[t]
    IN  /\ s.stage = "next"
        /\ search' = [search EXCEPT ![t] =
              IF s.groups = <<>> THEN [s EXCEPT !.stage = "over"]
              ELSE IF Head(s.groups).missing = {} \/ Head(s.groups).to <= Floor THEN NextGroup(s)
              ELSE [s EXCEPT !.stage = "slot", !.ask = Head(s.groups).missing, !.got = {}]]
        /\ UNCHANGED <<changed, slotsHeld, backedOff, refused>>

\* StreamSlot::acquire: a full house puts the thread to sleep on STREAM_FREED.
Acquire(t) ==
    /\ search[t].stage = "slot"
    /\ IF slotsHeld < Parallel
       THEN /\ slotsHeld' = slotsHeld + 1
            /\ search' = [search EXCEPT ![t].stage = "call", ![t].key = 1, ![t].tries = 0]
       ELSE /\ search' = [search EXCEPT ![t].stage = "asleep"]
            /\ UNCHANGED slotsHeld
    /\ UNCHANGED <<changed, backedOff, refused>>

\* mutant: the slot is freed and nobody told
FreedQuietly(t, s) == /\ slotsHeld' = slotsHeld - 1
                      /\ search' = [search EXCEPT ![t] = s]

\* The slot is dropped, and one sleeper notified.
Freed(t, s) ==
    LET sleepers == {u \in Searches : search[u].stage = "asleep"}
    IN  /\ slotsHeld' = slotsHeld - 1
        /\ IF sleepers = {} THEN search' = [search EXCEPT ![t] = s]
           ELSE \E u \in sleepers : search' = [search EXCEPT ![t] = s, ![u].stage = "slot"]

\* The key in use: the one being retried, or the next that is not backed off.
\* 0 when none is left.
KeyOf(s) ==
    LET left == {k \in s.key..Len(Keys) : Keys[k] \notin backedOff}
    IN  IF s.tries > 0 THEN s.key ELSE IF left = {} THEN 0 ELSE Min(left)

\* mutant: the next window ends one slot before this one starts
SkippingASlot(s) ==
    LET g == Head(s.groups)
        known == {v[1] : v \in s.got}
        after == [missing |-> g.missing \ known,
                  to |-> Below(From(g), 1), width |-> g.width * Widening]
    IN  [s EXCEPT !.stage = "next", !.kept = @ \cup s.got, !.groups[1] = after]

\* The window was answered for all its accounts.
WindowDone(s) ==
    LET g == Head(s.groups)
        known == {v[1] : v \in s.got}
        after == [missing |-> g.missing \ known,
                  to |-> From(g), width |-> g.width * Widening]
    IN  [s EXCEPT !.stage = "next", !.kept = @ \cup s.got, !.groups[1] = after]

\* One batch of the window is answered, whichever the accounts' order makes it.
Streamed(t) ==
    LET s == search[t]
        g == Head(s.groups)
        Asked(batch) == [s EXCEPT !.ask = @ \ batch,
                                  !.got = @ \cup Answer(batch, From(g), g.to)]
    IN  /\ s.stage = "call" /\ KeyOf(s) # 0
        /\ \E batch \in SUBSET s.ask :
             /\ Cardinality(batch) = Min({Batch, Cardinality(s.ask)})
             /\ Freed(t, IF s.ask = batch THEN WindowDone(Asked(batch))
                         ELSE [Asked(batch) EXCEPT !.stage = "slot"])
        /\ UNCHANGED <<changed, backedOff, refused>>

\* A refused call: the provider's limit is retried after each of the waits and
\* then backs the key off; a spent quota does so at once; anything else is
\* retried once, and moves on to the next key without backing off.
Refused(t, why) ==
    LET s == search[t]
        k == KeyOf(s)
        again == s.tries < LimitRetries /\ why # "quota"
    IN  /\ s.stage = "call" /\ k # 0 /\ refused < MaxRefused
        /\ refused' = refused + 1
        /\ search' = [search EXCEPT
              ![t].key = IF again THEN k ELSE k + 1,
              ![t].tries = IF ~again THEN 0 ELSE IF why = "limit" THEN s.tries + 1 ELSE LimitRetries]
        /\ backedOff' = IF again \/ why = "broken" THEN backedOff ELSE backedOff \cup {Keys[k]}
        /\ UNCHANGED <<changed, slotsHeld>>

\* No key is left: the window fails and ends the group.  What earlier windows
\* found is kept; this one's earlier batches are not.
OutOfKeys(t) ==
    LET s == search[t]
    IN  /\ s.stage = "call" /\ KeyOf(s) = 0
        /\ Freed(t, [NextGroup(s) EXCEPT !.stage = "next", !.failed = TRUE])
        /\ UNCHANGED <<changed, backedOff, refused>>

\* A back-off passes.
KeyBack(k) ==
    /\ k \in backedOff /\ backedOff' = backedOff \ {k}
    /\ UNCHANGED <<changed, slotsHeld, search, refused>>

SearchStep(t) ==
    \/ Begin(t) \/ Turn(t) \/ Acquire(t) \/ Streamed(t) \/ OutOfKeys(t)
    \/ \E why \in {"limit", "quota", "broken"} : Refused(t, why)

StreamNext ==
    \/ \E ch \in Chains : Chain(ch)
    \/ \E t \in Searches : SearchStep(t)
    \/ \E k \in Range(Keys) : KeyBack(k)

\* Whatever windows, batches and keys failed on the way, a version found is the
\* account's last change before the target; and a search that met no failure
\* finds every account that changed within the look-back.
SearchExact ==
    \A t \in Searches : search[t].stage = "over" =>
        /\ \A v \in search[t].found : v[2] = Max(ChangesIn(v[1], 1, Target))
        /\ ~search[t].failed => {v[1] : v \in search[t].found}
              = {a \in Tracked : ChangesIn(a, Floor, Target) # {}}

\* Searches that share too few stream slots all end: a freed slot wakes one
\* sleeper, and no refusal is retried for ever.
SearchEnds == \A t \in Searches : search[t].stage = "next" ~> search[t].stage = "over"
=============================================================================
