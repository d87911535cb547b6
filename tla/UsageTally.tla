----------------------------- MODULE UsageTally -----------------------------
(***************************************************************************)
(* The usage tally (server: stats.rs): counters in memory, a local file    *)
(* written now and then, and one durable copy pushed while the tally       *)
(* changes, once more at shutdown, and restored at boot.                   *)
(***************************************************************************)
EXTENDS Naturals, FiniteSets, FiniteSetsExt

CONSTANTS
    DetailDays,    \* DETAIL_DAYS
    MaxDay,        \* last day of the model's clock
    MaxCounted,    \* most events counted
    MaxBoots       \* most restarts

ASSUME TallyAssumption == {DetailDays, MaxDay, MaxCounted, MaxBoots} \subseteq Nat

VARIABLES
    day,        \* the clock
    tally,      \* STATS
    onDisk,     \* the local file
    durable,    \* the release asset
    dirty,      \* DIRTY
    pusher,     \* the two callers of push: the timer and the shutdown
    process,    \* up, stopping, exited, down
    boots,
    best,       \* ghost: the most the durable copy ever counted
    lucky,      \* ghost: no restore and no push failed, no boot took up a file
                \* newer than the durable copy
    beside      \* ghost: something was counted, pushed or killed beside a push

tallyVars == <<day, tally, onDisk, durable, dirty, pusher, process, boots, best, lucky, beside>>

\* Totals, the days with a total, and the days with detail of each kind.
NoTally == [requests |-> 0, views |-> 0, seen |-> 0, days |-> {}, clients |-> {}, endpoints |-> {}]
Total(s) == s.requests + s.views
NotPushing == [stage |-> "idle", text |-> NoTally]
Pushers == {"timer", "shutdown"}
Pushing == \E w \in Pushers : pusher[w].stage \notin {"idle", "done"}

TallyInit ==
    /\ day = 1 /\ tally = NoTally /\ onDisk = NoTally /\ durable = NoTally /\ dirty = FALSE
    /\ pusher = [w \in Pushers |-> NotPushing]
    /\ process = "up" /\ boots = 0 /\ best = 0 /\ lucky = TRUE /\ beside = FALSE

\* prune: detail older than DETAIL_DAYS goes; the totals stay.
Pruned(s) ==
    LET recent(ds) == {d \in ds : d + DetailDays >= day}
    IN  [s EXCEPT !.clients = recent(@), !.endpoints = recent(@)]

\* touch, record and record_view.
Touched(s) == [s EXCEPT !.seen = day, !.days = @ \cup {day}, !.clients = @ \cup {day}]
Recorded(s) ==
    LET t == [Touched(s) EXCEPT !.requests = @ + 1, !.endpoints = @ \cup {day}]
    IN  IF Cardinality(t.endpoints) > DetailDays + 1 THEN Pruned(t) ELSE t
Viewed(s) ==
    LET t == [Touched(s) EXCEPT !.views = @ + 1]
    IN  IF Cardinality(t.clients) > DetailDays + 1 THEN Pruned(t) ELSE t

\* One event is counted; maybe_save writes the file if its last write is old.
Count_(s, save) ==
    /\ process = "up" /\ Total(tally) < MaxCounted
    /\ tally' = s
    /\ dirty' = TRUE
    /\ onDisk' = IF save THEN s ELSE onDisk
    /\ beside' = (beside \/ Pushing)
    /\ UNCHANGED <<day, durable, pusher, process, boots, best, lucky>>

NextDay ==
    /\ day < MaxDay /\ day' = day + 1
    /\ UNCHANGED <<tally, onDisk, durable, dirty, pusher, process, boots, best, lucky, beside>>

\* push: the snapshot, written to the file.
Snapshotted(w) ==
    /\ pusher[w].stage = "idle" /\ dirty
    /\ process = IF w = "timer" THEN "up" ELSE "stopping"
    /\ onDisk' = tally
    /\ pusher' = [pusher EXCEPT ![w] = [stage |-> "upload", text |-> tally]]
    /\ beside' = (beside \/ Pushing)
    /\ UNCHANGED <<day, tally, durable, dirty, process, boots, best, lucky>>

\* The timer comes round again; the shutdown pushes once.
Finished(w) == [NotPushing EXCEPT !.stage = IF w = "timer" THEN "idle" ELSE "done"]

\* The upload replaces the asset, or fails.
Uploaded(w, ok) ==
    /\ pusher[w].stage = "upload"
    /\ durable' = IF ok THEN pusher[w].text ELSE durable
    /\ best' = Max({best, Total(durable')})
    /\ pusher' = [pusher EXCEPT ![w] = IF ok THEN [@ EXCEPT !.stage = "clear"] ELSE Finished(w)]
    /\ lucky' = (lucky /\ ok)
    /\ UNCHANGED <<day, tally, onDisk, dirty, process, boots, beside>>

Cleaned(w) ==
    /\ pusher[w].stage = "clear"
    /\ dirty' = FALSE
    /\ pusher' = [pusher EXCEPT ![w] = Finished(w)]
    /\ UNCHANGED <<day, tally, onDisk, durable, process, boots, best, lucky, beside>>

\* Requests have drained; the last push runs; a push under way is waited for.
Shutdown ==
    /\ process = "up" /\ process' = "stopping"
    /\ UNCHANGED <<day, tally, onDisk, durable, dirty, pusher, boots, best, lucky, beside>>
Exited ==
    /\ process = "stopping" /\ ~Pushing
    /\ dirty => pusher["shutdown"].stage = "done"
    /\ process' = "exited"
    /\ UNCHANGED <<day, tally, onDisk, durable, dirty, pusher, boots, best, lucky, beside>>

\* The process is killed.
Killed ==
    /\ process \in {"up", "stopping"}
    /\ process' = "down"
    /\ pusher' = [w \in Pushers |-> NotPushing]
    /\ beside' = (beside \/ Pushing)
    /\ UNCHANGED <<day, tally, onDisk, durable, dirty, boots, best, lucky>>

\* mutant: the file wins a tie
FileWins(file, remote, reached) ==
    IF reached /\ remote # NoTally /\ remote.seen > file.seen THEN remote ELSE file

\* init: the file first, then the durable copy if it is as new.
Restored(file, remote, reached) ==
    IF reached /\ remote # NoTally /\ remote.seen >= file.seen THEN remote ELSE file

\* A boot finds the disk as it was, or empty; the restore reaches the durable
\* copy, or not, and starts from the file.
Boot(kept, reached) ==
    LET file == IF kept THEN onDisk ELSE NoTally
    IN  /\ process \in {"exited", "down"} /\ boots < MaxBoots
        /\ boots' = boots + 1 /\ process' = "up" /\ dirty' = FALSE
        /\ onDisk' = file
        /\ tally' = Restored(file, durable, reached)
        /\ lucky' = (lucky /\ reached /\ file.seen <= durable.seen)
        /\ pusher' = [w \in Pushers |-> NotPushing]
        /\ UNCHANGED <<day, durable, best, beside>>

TallyNext ==
    \/ \E save \in BOOLEAN : Count_(Recorded(tally), save) \/ Count_(Viewed(tally), save)
    \/ NextDay \/ Shutdown \/ Exited \/ Killed
    \/ \E w \in Pushers : Snapshotted(w) \/ Cleaned(w) \/ \E ok \in BOOLEAN : Uploaded(w, ok)
    \/ \E kept, reached \in BOOLEAN : Boot(kept, reached)

TallySpec == TallyInit /\ [][TallyNext]_tallyVars

\* While no push and no restore fails and nothing happens beside a push: a clean
\* exit leaves everything counted in the durable copy, the durable copy never
\* counts less than it did, and a boot takes all of it up again.
TallyKept ==
    lucky /\ ~beside =>
        /\ process = "exited" => durable = tally
        /\ Total(durable) = best
        /\ process = "up" => Total(tally) >= best
=============================================================================
