----------------------------- MODULE RecordQueue -----------------------------
(***************************************************************************)
(* The durable queue behind the record store: the server's recorder thread *)
(* (src/server/src/main.rs, spawn_recorder) polls, and on every new hour   *)
(* and on shutdown pushes a pack of what it recorded since the last push   *)
(* to a release asset (src/src/records_github.rs); a new process restores  *)
(* its store from the packs.  Processes crash, redeploys wipe the disk,    *)
(* GitHub and RPC calls fail.                                              *)
(*                                                                         *)
(* One account.  A version stamped s holds what the account held at s, so  *)
(* the versions of a store are the set of their slots; whether a poll sees *)
(* a change is left open.  src/src/records.rs is opened up in RecordStore  *)
(* and RecordLog.  rounds.txt is in no pack and left out.                  *)
(***************************************************************************)
EXTENDS Coverage, FiniteSets, FiniteSetsExt

CONSTANTS
    KeepDays,       \* KEEP_DAYS
    HourLen,        \* minutes of an hour
    DayLen,         \* minutes of a day
    MaxLag,         \* how far behind the chain an RPC node may answer
    Finality,       \* how far get_slot (finalized) is behind a poll (confirmed)
    MaxSlot,        \* bound: the chain stops here
    MaxMinute,      \* bound: the clock stops here
    MaxRestarts,    \* bound: processes after the first
    None            \* "no asset", "no slot"

ASSUME QueueAssumption ==
    /\ KeepDays \in Nat
    /\ HourLen \in Nat \ {0} /\ DayLen \in Nat \ {0}
    /\ MaxLag \in Nat /\ Finality \in Nat
    /\ MaxSlot \in Nat \ {0} /\ MaxMinute \in Nat /\ MaxRestarts \in Nat
    /\ None \notin Nat

Slot == 0 .. MaxSlot
Minute == 0 .. MaxMinute

VARIABLES
    now,        \* the newest slot of the chain
    minute,     \* the UTC clock
    ver,        \* the disk: the recorded versions
    cov,        \* the disk: coverage.txt
    queue,      \* queue[m]: the asset pushed in minute m, or None
    rec,        \* the recorder thread
    stopping,   \* STOPPING
    restarts,   \* how often a new process started
    looked,     \* history: the polls whose findings the disk has, and the
                \* cuts of the packs it imported
    mine        \* history: the versions this process polled, while retained

vars == <<now, minute, ver, cov, queue, rec, stopping, restarts, looked, mine>>

Booting == [pc |-> "restore", since |-> 0, hour |-> 0,
            stop |-> FALSE, seen |-> 0, tip |-> 0, failed |-> FALSE]

Hour(m) == m \div HourLen
Day(m) == m \div DayLen

Init ==
    /\ now = 1
    /\ minute = 0
    /\ ver = {}
    /\ cov = {}
    /\ queue = [m \in Minute |-> None]
    /\ rec = Booting
    /\ stopping = FALSE
    /\ restarts = 0
    /\ looked = {}
    /\ mine = {}

-----------------------------------------------------------------------------
(* The chain and the clock.                                                *)

Advance ==
    /\ now < MaxSlot
    /\ now' = now + 1
    /\ UNCHANGED <<minute, ver, cov, queue, rec, stopping, restarts, looked, mine>>

Tick ==
    /\ minute < MaxMinute
    /\ minute' = minute + 1
    /\ UNCHANGED <<now, ver, cov, queue, rec, stopping, restarts, looked, mine>>

\* A poll answers as of a recent slot, get_slot as of a finalized one.
Polled == {r \in 1 .. now : r + MaxLag >= now}
Finalized == {t \in Slot : t + Finality <= now /\ t + Finality + MaxLag >= now}

-----------------------------------------------------------------------------
(* Packs.                                                                  *)

\* mutant: the ranges are exported as they stand
WholeRanges(ranges, since) == {g \in ranges : g.last > since}

\* export_since clips the ranges to what the pack carries.
ClippedRanges(ranges, since) ==
    {[g EXCEPT !.first = IF @ > since THEN @ ELSE since + 1] :
        g \in {h \in ranges : h.last > since}}

\* polls, a history field: the polls the pack knows of, and its cut, the slot
\* after which one of its ranges begins for having been clipped.
Export(since) ==
    LET ranges == ClippedRanges(cov, since)
        cut == {s \in {since} \ {0} : \E g \in ranges : g.first = s + 1}
    IN  [vers |-> {s \in ver : s > since}, cov |-> ranges,
         polls |-> {s \in looked : s > since} \cup cut]

IsEmpty(pack) == pack.vers = {} /\ pack.cov = {}

\* merge_coverage coalesces ranges that overlap or lie within MaxGap.
MergedRanges(ranges) ==
    LET Opens(a) == \A g \in ranges : g.first < a => g.last + MaxGap < a
        starts == {g.first : g \in {h \in ranges : Opens(h.first)}}
        In(g, a) == a <= g.first /\ \A b \in starts : b <= a \/ g.first < b
    IN  {[first |-> a, last |-> Max({g.last : g \in {h \in ranges : In(h, a)}})] :
            a \in starts}

Assets == {m \in Minute : queue[m] # None}
Expired == {m \in Assets : Day(m) + KeepDays < Day(minute)}
InQueue == UNION {queue[m].vers : m \in Assets}

-----------------------------------------------------------------------------
(* The recorder thread.                                                    *)

\* restore imports the kept assets; at an error those listed so far are in,
\* the last one perhaps without its coverage, which ends the pack.  Then
\* last_push_slot is get_slot().unwrap_or(0).
Restore(whole, torn, t) ==
    LET imported == whole \cup torn
    IN  /\ rec.pc = "restore"
        /\ imported \subseteq Assets \ Expired
        /\ Cardinality(torn) <= 1
        /\ t \in Finalized \cup {0}
        /\ ver' = ver \cup UNION {queue[m].vers : m \in imported}
        /\ cov' = IF whole = {} THEN cov
                  ELSE MergedRanges(cov \cup UNION {queue[m].cov : m \in whole})
        /\ looked' = looked \cup UNION {queue[m].polls : m \in imported}
        /\ rec' = [rec EXCEPT !.pc = "poll", !.since = t, !.hour = Hour(minute)]
        /\ UNCHANGED <<now, minute, queue, stopping, restarts, mine>>

\* poll_once: a round at r; a change is recorded, unless a version at or
\* after r is there.
Poll(r, changed) ==
    LET new == {s \in {r} : (changed \/ ver = {}) /\ \A v \in ver : v < s}
    IN  /\ rec.pc = "poll"
        /\ r \in Polled
        /\ cov' = NotedRanges(cov, r)
        /\ ver' = ver \cup new
        /\ mine' = mine \cup new
        /\ looked' = looked \cup {r}
        /\ rec' = [rec EXCEPT !.pc = "check"]
        /\ UNCHANGED <<now, minute, queue, stopping, restarts>>

PollFails ==
    /\ rec.pc = "poll"
    /\ rec' = [rec EXCEPT !.pc = "check"]
    /\ UNCHANGED <<now, minute, ver, cov, queue, stopping, restarts, looked, mine>>

\* mutant: only a new hour pushes
DueHourly == Hour(minute) # rec.hour
\* A push is due on a new hour and on shutdown.
Due == stopping \/ Hour(minute) # rec.hour

CheckIdle ==
    /\ rec.pc = "check"
    /\ ~Due
    /\ rec' = [rec EXCEPT !.pc = IF stopping THEN "stopped" ELSE "poll"]
    /\ UNCHANGED <<now, minute, ver, cov, queue, stopping, restarts, looked, mine>>

\* Due: the flag, the hour and the newest slot are read, ...
CheckDue(t) ==
    /\ rec.pc = "check"
    /\ Due
    /\ t \in Finalized
    /\ rec' = [rec EXCEPT !.pc = "push", !.stop = stopping,
                          !.seen = Hour(minute), !.tip = t]
    /\ UNCHANGED <<now, minute, ver, cov, queue, stopping, restarts, looked, mine>>

\* ... or get_slot fails: the push is deferred to the next hour.
CheckDeferred ==
    /\ rec.pc = "check"
    /\ Due
    /\ rec' = [rec EXCEPT !.pc = IF stopping THEN "stopped" ELSE "poll",
                          !.hour = Hour(minute), !.failed = TRUE]
    /\ UNCHANGED <<now, minute, ver, cov, queue, stopping, restarts, looked, mine>>

\* mutant: the loop goes on after the last push
NextLoopOn(r) == [r EXCEPT !.pc = "poll",
                           !.hour = r.seen, !.seen = 0, !.tip = 0, !.stop = FALSE]

\* last_push_hour is the hour seen, whatever comes of the push.
NextLoop(r) == [r EXCEPT !.pc = IF r.stop THEN "stopped" ELSE "poll",
                         !.hour = r.seen, !.seen = 0, !.tip = 0, !.stop = FALSE]

\* mutant: a push that failed counts as done
PushedFrom(ok) == rec.tip
\* last_push_slot after a push
NextSince(ok) == IF ok THEN rec.tip ELSE rec.since

\* push_hour: the asset of this minute is replaced by the pack.  On an error
\* nothing was done, or the old asset was deleted, or the answer was lost.
Push(ok) ==
    LET pack == Export(rec.since)
        stored == IF IsEmpty(pack) THEN {queue[minute]}
                  ELSE IF ok THEN {pack}
                  ELSE {queue[minute], None, pack}
        pushed == [rec EXCEPT !.since = NextSince(ok), !.failed = ~ok]
    IN  /\ rec.pc = "push"
        /\ \E asset \in stored : queue' = [queue EXCEPT ![minute] = asset]
        /\ rec' = IF rec.seen # rec.hour /\ ~rec.stop
                  THEN [pushed EXCEPT !.pc = "tidy"]
                  ELSE NextLoop(pushed)
        /\ UNCHANGED <<now, minute, ver, cov, stopping, restarts, looked, mine>>

\* On a new hour pop_old deletes expired days (all of them, or some before
\* an error) and thin applies the tiers (or fails).
Housekeep(popped, thinned) ==
    LET kept == IF thinned THEN {s \in ver : IsKept(ver, s, rec.tip)} ELSE ver
    IN  /\ rec.pc = "tidy"
        /\ popped \subseteq Expired
        /\ queue' = [m \in Minute |-> IF m \in popped THEN None ELSE queue[m]]
        /\ ver' = kept
        /\ cov' = IF thinned THEN RetainedRanges(cov, rec.tip) ELSE cov
        /\ mine' = mine \ ((ver \ kept) \cup UNION {queue[m].vers : m \in popped})
        /\ rec' = NextLoop(rec)
        /\ UNCHANGED <<now, minute, stopping, restarts, looked>>

-----------------------------------------------------------------------------
(* The rest of the process.                                                *)

\* SIGTERM
Stop ==
    /\ ~stopping
    /\ stopping' = TRUE
    /\ UNCHANGED <<now, minute, ver, cov, queue, rec, restarts, looked, mine>>

\* The process ends, by itself after a stop or not, and a new one starts,
\* on its disk or, after a redeploy, on an empty one.
Restart(wiped) ==
    /\ restarts < MaxRestarts
    /\ restarts' = restarts + 1
    /\ ver' = IF wiped THEN {} ELSE ver
    /\ cov' = IF wiped THEN {} ELSE cov
    /\ looked' = IF wiped THEN {} ELSE looked
    /\ rec' = Booting
    /\ stopping' = FALSE
    /\ mine' = {}
    /\ UNCHANGED <<now, minute, queue>>

\* A replay records what the account-changes stream gave it, stamped with
\* the slot of a past write.
StreamRecord(w) ==
    /\ w \in 1 .. now
    /\ \A s \in ver : s < w
    /\ ver' = ver \cup {w}
    /\ UNCHANGED <<now, minute, cov, queue, rec, stopping, restarts, looked, mine>>

-----------------------------------------------------------------------------
(* No two uploads in one minute: an asset changes only when its day        *)
(* expires.  A second upload deletes the first, and what only that one     *)
(* carried; the theorems that need this say so.                            *)
NoReplacement ==
    \A m \in Minute : queue[m] # None =>
        queue'[m] = queue[m] \/ (queue'[m] = None /\ m \in Expired)

-----------------------------------------------------------------------------
Recorder ==
    \/ \E whole \in SUBSET Assets, torn \in SUBSET Assets, t \in Slot :
            Restore(whole, torn, t)
    \/ \E r \in 1 .. now, changed \in BOOLEAN : Poll(r, changed)
    \/ PollFails
    \/ CheckIdle
    \/ \E t \in Slot : CheckDue(t)
    \/ CheckDeferred
    \/ \E ok \in BOOLEAN : Push(ok)
    \/ \E popped \in SUBSET Expired, thinned \in BOOLEAN :
            Housekeep(popped, thinned)

Process ==
    \/ Stop
    \/ \E wiped \in BOOLEAN : Restart(wiped)
    \/ \E w \in Slot : StreamRecord(w)

Next == Advance \/ Tick \/ Recorder \/ Process

\* The recorder thread is scheduled; each of its calls has a timeout.
Spec == Init /\ [][Next]_vars /\ WF_vars(Recorder)

\* The safety part.
QueueSpec == Init /\ [][Next]_vars

-----------------------------------------------------------------------------
(* Type invariant.  The ranges of the coverage lie more than MaxGap apart. *)
PackType ==
    [vers : SUBSET Slot, cov : SUBSET Ranges(Slot), polls : SUBSET Slot]

ASSUME NoPackAssumption == None \notin PackType

TypeOK ==
    /\ now \in Slot
    /\ minute \in Minute
    /\ ver \subseteq 1 .. now
    /\ cov \subseteq Ranges(1 .. now)
    /\ \A g, h \in cov : g = h \/ g.last + MaxGap < h.first
                                \/ h.last + MaxGap < g.first
    /\ queue \in [Minute -> PackType \cup {None}]
    /\ rec \in [pc : {"restore", "poll", "check", "push", "tidy", "stopped"},
                since : Slot, hour : Nat, stop : BOOLEAN, seen : Nat,
                tip : Slot, failed : BOOLEAN]
    /\ stopping \in BOOLEAN
    /\ restarts \in 0 .. MaxRestarts
    /\ looked \subseteq 1 .. now
    /\ mine \subseteq 1 .. now

(* No polled version is skipped: what this process polled at or before     *)
(* last_push_slot is in the queue, unless the retention rules dropped it,  *)
(* whatever pushes failed or were deferred in between (main.rs,            *)
(* last_push_slot; records_github.rs, push_hour; records.rs, export_since).*)
PolledDurable == \A s \in mine : s <= rec.since => s \in InQueue

(* A recorder that stopped without an error has pushed all it polled       *)
(* (main.rs, STOPPING: the unpushed tail goes to the queue).               *)
CleanStop ==
    (rec.pc = "stopped" /\ ~rec.failed) => mine \subseteq InQueue

(* Nothing polled is skipped, by a push that failed or by the last one.    *)
NothingSkipped == TypeOK /\ PolledDurable /\ CleanStop

(* Coverage does not outlive what it stands for: from every slot the store *)
(* covers follows, within MaxGap slots and in the same range, a poll whose *)
(* findings it has, or the cut of a pack it imported, before which the     *)
(* polls are in an earlier pack, perhaps a lost one; across lost packs,    *)
(* partial restores, redeploys, thinning and coalescing (export_since      *)
(* clips the ranges it sends, import_pack reads them last).                *)
CoverageBacked ==
    \A g \in cov : \A f \in g.first .. g.last :
        \E q \in looked : f <= q /\ q <= f + MaxGap /\ q <= g.last

(* A recorder told to stop does: it leaves its loop, or the process is     *)
(* gone (main waits for RECORDER_DONE).                                    *)
StopIsAnswered == stopping ~> (rec.pc = "stopped" \/ ~stopping)

=============================================================================
