---------------------------- MODULE ReplayServer ----------------------------
(***************************************************************************)
(* How the server (server/src/main.rs) shares its expensive work: the      *)
(* cache of finished answers (AT_CACHE), the gate in front of the replays  *)
(* (AT_GATE), the built bundles (BUILT), the builds in progress            *)
(* (BUNDLE_JOBS) and the handlers that go through them.                    *)
(***************************************************************************)
EXTENDS Naturals, Sequences, FiniteSets, SequencesExt

CONSTANTS
    Client,         \* who asks
    Task,           \* the spawned builds: bound on those alive at once
    Asks,           \* what each client asks: sets of [kind, key]
    Size,           \* the bytes of the answer of a key
    AtMax, Budget,  \* AT_CACHE_MAX, at_cache_budget
    BuiltMax,       \* built_max
    Permits,        \* permits of AT_GATE
    NoTask,
    MaxAsks,        \* bound: requests
    MaxMishaps      \* bound: expiries, failures and disconnects

Key == {a.key : a \in UNION {Asks[c] : c \in Client}}
Kinds == {"at", "read", "edit", "view"}

ASSUME ServerAssumption ==
    /\ \A c \in Client : \A a \in Asks[c] : a.kind \in Kinds
    /\ \A k \in Key : Size[k] \in Nat
    /\ {AtMax, BuiltMax, Permits} \subseteq Nat \ {0} /\ Budget \in Nat
    /\ NoTask \notin Task /\ Client \cap Task = {} /\ Key # {}

VARIABLES
    client,     \* the requests: [pc, kind, key, task, status]
    task,       \* the spawned builds: [stage, key, ok]
    jobs,       \* BUNDLE_JOBS
    answers,    \* AT_CACHE: keys, the least recently used first
    built,      \* BUILT: keys in the order they were put
    wanted,     \* BUILT: the same keys, the least recently wanted first
    gate,       \* AT_GATE: who holds or awaits a permit, in order
    detached,   \* replays still running for clients that are gone
    dropped,    \* history: keys whose answer was dropped since it was put
    asked, mishaps  \* bounds

shared == <<jobs, answers, built, wanted, gate>>
bounds == <<asked, mishaps>>
vars == <<client, task, shared, detached, dropped, bounds>>

-----------------------------------------------------------------------------
\* The caches

\* Nothing is twice in a sequence of this module.
Without(s, x) ==
    LET at == {i \in DOMAIN s : s[i] = x}
    IN  IF at = {} THEN s ELSE RemoveAt(s, CHOOSE i \in at : TRUE)
Touched(s, k) == Append(Without(s, k), k)

\* The bytes of the answers, one by one.
Bytes(s) == UNION {{k} \X (1..Size[k]) : k \in ToSet(s)}
Fits(s) == Len(s) <= AtMax /\ Cardinality(Bytes(s)) <= Budget

\* What at_cache_put keeps: the oldest go until the rest fits, the last stays.
KeptAnswers(s) ==
    LET n == CHOOSE i \in 0..Len(s) - 1 :
                /\ i = Len(s) - 1 \/ Fits(SubSeq(s, i + 1, Len(s)))
                /\ \A j \in 0..i - 1 : ~Fits(SubSeq(s, j + 1, Len(s)))
    IN  SubSeq(s, n + 1, Len(s))

PutAnswer(k) ==
    /\ answers' = KeptAnswers(Touched(answers, k))
    /\ dropped' = (dropped \cup ToSet(answers)) \ ToSet(answers')

\* at_cache_get and built_get: a hit is a use.
HasAnswer(k) == k \in ToSet(answers)
UseAnswer(k) == answers' = IF HasAnswer(k) THEN Touched(answers, k) ELSE answers
IsBuilt(k) == k \in ToSet(built)
Want(k) == wanted' = IF IsBuilt(k) THEN Touched(wanted, k) ELSE wanted

\* built_put: the first put goes; there were at most BuiltMax before.
PutBuilt(k) ==
    LET all == Touched(built, k)
        now == Touched(wanted, k)
    IN  IF Len(all) > BuiltMax
        THEN built' = Tail(all) /\ wanted' = Without(now, Head(all))
        ELSE built' = all /\ wanted' = now

Mishap == mishaps < MaxMishaps /\ mishaps' = mishaps + 1

\* An entry's time is up.
Expire ==
    /\ Mishap
    /\ \/ /\ answers # <<>>
          /\ answers' = Tail(answers)
          /\ dropped' = dropped \cup {Head(answers)}
          /\ UNCHANGED <<built, wanted>>
       \/ /\ wanted # <<>>
          /\ wanted' = Tail(wanted)
          /\ built' = Without(built, Head(wanted))
          /\ UNCHANGED <<answers, dropped>>
    /\ UNCHANGED <<client, task, jobs, gate, detached, asked>>

\* The gate lets the first Permits in.
Holds(x) == \E i \in 1..Len(gate) : i <= Permits /\ gate[i] = x
Enter(x) == gate' = Append(gate, x)
Release(x) == gate' = Without(gate, x)

-----------------------------------------------------------------------------
\* The requests

Idle == [pc |-> "idle", kind |-> "at", key |-> CHOOSE k \in Key : TRUE,
         task |-> NoTask, status |-> "none"]

Free == [stage |-> "free", key |-> Idle.key, ok |-> FALSE]

Go(c, pc) == client' = [client EXCEPT ![c].pc = pc]
Reply(c, status) ==
    client' = [client EXCEPT ![c] =
        IF status = "expired" THEN [Idle EXCEPT !.key = client[c].key,
                                                !.status = status]
        ELSE Idle]

Ask(c) ==
    /\ client[c].pc = "idle"
    /\ asked < MaxAsks /\ asked' = asked + 1
    /\ \E a \in Asks[c] : client' = [client EXCEPT ![c] =
          [pc |-> "start", kind |-> a.kind, key |-> a.key,
           task |-> NoTask, status |-> "none"]]
    /\ UNCHANGED <<task, shared, detached, dropped, mishaps>>

At(c, kind, pc) == client[c].kind = kind /\ client[c].pc = pc

\* analyze_at_inner, replay_at_inner: an answer that is there, or the queue.
AtLook(c) ==
    LET k == client[c].key
    IN  /\ At(c, "at", "start")
        /\ UseAnswer(k)
        /\ IF HasAnswer(k) THEN Reply(c, "ok") /\ UNCHANGED gate
           ELSE Go(c, "queued") /\ Enter(c)
        /\ UNCHANGED <<task, jobs, built, wanted, detached, dropped, bounds>>

\* Behind the gate: someone else may have finished this very replay.
LookAgain(c) ==
    LET k == client[c].key
    IN  /\ At(c, "at", "queued") /\ Holds(c)
        /\ UseAnswer(k)
        /\ IF HasAnswer(k) THEN Reply(c, "ok") /\ Release(c)
           ELSE Go(c, "run") /\ UNCHANGED gate
        /\ UNCHANGED <<task, jobs, built, wanted, detached, dropped, bounds>>

\* The replay ends: its answer is kept, the permit returned.
AtEnd(c) ==
    /\ At(c, "at", "run")
    /\ \/ /\ PutAnswer(client[c].key) /\ Reply(c, "ok")
          /\ UNCHANGED mishaps
       \/ /\ Mishap /\ Reply(c, "error")
          /\ UNCHANGED <<answers, dropped>>
    /\ Release(c)
    /\ UNCHANGED <<task, jobs, built, wanted, detached, asked>>

\* bundle_post_handler with no edits: what is held is run, else it reads.
ViewLook(c) ==
    LET k == client[c].key
    IN  /\ At(c, "view", "start")
        /\ Want(k)
        /\ client' = [client EXCEPT ![c].kind = IF IsBuilt(k) THEN "edit" ELSE "read"]
        /\ UNCHANGED <<task, jobs, answers, built, gate, detached, dropped, bounds>>

\* baseline_or_building for a reader: a cached report is enough.
ReadLook(c) ==
    LET k == client[c].key
    IN  /\ At(c, "read", "start")
        /\ UseAnswer(k)
        /\ IF HasAnswer(k) THEN Reply(c, "ok") ELSE Go(c, "join")
        /\ UNCHANGED <<task, jobs, built, wanted, gate, detached, dropped, bounds>>

\* held_or_build: the held bundle, or the way through baseline_or_building.
EditLook(c) ==
    LET k == client[c].key
    IN  /\ At(c, "edit", "start")
        /\ Want(k)
        /\ Go(c, IF IsBuilt(k) THEN "run" ELSE "base")
        /\ UNCHANGED <<task, jobs, answers, built, gate, detached, dropped, bounds>>

EditBase(c) ==
    LET k == client[c].key
    IN  /\ At(c, "edit", "base")
        /\ UseAnswer(k)
        /\ Go(c, IF HasAnswer(k) THEN "need" ELSE "join")
        /\ UNCHANGED <<task, jobs, built, wanted, gate, detached, dropped, bounds>>

\* mutant: the cached report is enough for an edit as well
ReportIsEnough(c) ==
    /\ At(c, "edit", "need")
    /\ Go(c, "held")
    /\ UNCHANGED <<task, shared, detached, dropped, bounds>>

\* need_built: a cached report without its bundle is built again.
NeedBuilt(c) ==
    LET k == client[c].key
    IN  /\ At(c, "edit", "need")
        /\ Want(k)
        /\ Go(c, IF IsBuilt(k) THEN "held" ELSE "join")
        /\ UNCHANGED <<task, jobs, answers, built, gate, detached, dropped, bounds>>

\* mutant: a build past its replay is not joined
RunningJob(k) ==
    IF jobs[k] # NoTask /\ task[jobs[k]].stage \in {"queued", "build", "replay"}
    THEN jobs[k] ELSE NoTask

JobOf(k) == jobs[k]

\* Join the build running for the key, or start one.  What is already sent
\* is there at once.
Join(c) ==
    LET k == client[c].key
        t == JobOf(k)
    IN  /\ client[c].pc = "join"
        /\ IF t # NoTask
           THEN /\ client' = [client EXCEPT
                      ![c].pc = IF task[t].stage # "remove" THEN "wait"
                                ELSE IF task[t].ok THEN "told" ELSE "refused",
                      ![c].task = t]
                /\ UNCHANGED <<task, jobs, gate>>
           ELSE LET n == CHOOSE n \in Task : task[n].stage = "free"
                IN
                /\ \E m \in Task : task[m].stage = "free"
                /\ task' = [task EXCEPT ![n] =
                       [stage |-> "queued", key |-> k, ok |-> FALSE]]
                /\ jobs' = [jobs EXCEPT ![k] = n]
                /\ Enter(n)
                /\ client' = [client EXCEPT ![c].pc = "wait", ![c].task = n]
        /\ UNCHANGED <<answers, built, wanted, detached, dropped, bounds>>

\* BUNDLE_WAIT is over: 202.  A reader asks again; an editor looks whether
\* the bundle is held by now.
StillBuilding(c) ==
    /\ client[c].pc = "wait"
    /\ client' = [client EXCEPT
          ![c].pc = IF client[c].kind = "edit" THEN "held" ELSE "start",
          ![c].task = NoTask]
    /\ UNCHANGED <<task, shared, detached, dropped, bounds>>

\* The build failed: 400.
Refuse(c) ==
    /\ client[c].pc = "refused" /\ Reply(c, "error")
    /\ UNCHANGED <<task, shared, detached, dropped, bounds>>

\* The build succeeded: its report is in the cache, or 500.
Serve(c) ==
    LET k == client[c].key
    IN  /\ client[c].pc = "told"
        /\ UseAnswer(k)
        /\ IF ~HasAnswer(k) THEN Reply(c, "expired")
           ELSE IF client[c].kind = "edit" THEN Go(c, "held")
           ELSE Reply(c, "ok")
        /\ UNCHANGED <<task, jobs, built, wanted, gate, detached, dropped, bounds>>

\* The end of held_or_build: run the edit, or 202 and the client asks again.
EditHeld(c) ==
    LET k == client[c].key
    IN  /\ At(c, "edit", "held")
        /\ Want(k)
        /\ Go(c, IF IsBuilt(k) THEN "run" ELSE "start")
        /\ UNCHANGED <<task, jobs, answers, built, gate, detached, dropped, bounds>>

EditEnd(c) ==
    /\ At(c, "edit", "run")
    /\ \/ Reply(c, "ok") /\ UNCHANGED mishaps
       \/ Mishap /\ Reply(c, "error")
    /\ UNCHANGED <<task, shared, detached, dropped, asked>>

\* The client is gone: its handler is dropped, with its place in the queue or
\* its permit; a replay it runs runs on.
Disconnect(c) ==
    /\ client[c].pc \in {"queued", "run", "wait"}
    /\ Mishap
    /\ client' = [client EXCEPT ![c] = Idle]
    /\ gate' = Without(gate, c)
    /\ detached' = detached + (IF At(c, "at", "run") THEN 1 ELSE 0)
    /\ UNCHANGED <<task, jobs, answers, built, wanted, dropped, asked>>

DetachedEnds ==
    /\ detached > 0 /\ detached' = detached - 1
    /\ UNCHANGED <<client, task, shared, dropped, bounds>>

Handle(c) ==
    \/ AtLook(c) \/ LookAgain(c) \/ AtEnd(c)
    \/ ViewLook(c) \/ ReadLook(c) \/ EditLook(c) \/ EditBase(c) \/ NeedBuilt(c)
    \/ Join(c) \/ StillBuilding(c) \/ Refuse(c) \/ Serve(c)
    \/ EditHeld(c) \/ EditEnd(c)

-----------------------------------------------------------------------------
\* A spawned build

\* bundle_for: the bundle someone put meanwhile, or a build.
TaskStart(t) ==
    LET k == task[t].key
    IN  /\ task[t].stage = "queued" /\ Holds(t)
        /\ Want(k)
        /\ task' = [task EXCEPT ![t].stage = IF IsBuilt(k) THEN "replay" ELSE "build"]
        /\ UNCHANGED <<client, jobs, answers, built, gate, detached, dropped, bounds>>

TaskBuilt(t) ==
    /\ task[t].stage = "build"
    /\ PutBuilt(task[t].key)
    /\ task' = [task EXCEPT ![t].stage = "replay"]
    /\ UNCHANGED <<client, jobs, answers, gate, detached, dropped, bounds>>

\* mutant: a failed build returns without clearing its table entry
FailLeavingJob(t) ==
    /\ task[t].stage \in {"build", "replay"}
    /\ Mishap
    /\ task' = [task EXCEPT ![t] = Free]
    /\ Release(t)
    /\ client' = [c \in Client |->
          IF client[c].pc = "wait" /\ client[c].task = t
          THEN [client[c] EXCEPT !.pc = "refused"] ELSE client[c]]
    /\ UNCHANGED <<jobs, answers, built, wanted, detached, dropped, asked>>

\* mutant: a failed build keeps its permit
FailKeepingPermit(t) ==
    /\ task[t].stage \in {"build", "replay"}
    /\ Mishap
    /\ task' = [task EXCEPT ![t].stage = "send", ![t].ok = FALSE]
    /\ UNCHANGED <<client, shared, detached, dropped, asked>>

\* The build or its baseline run fails.
TaskFails(t) ==
    /\ task[t].stage \in {"build", "replay"}
    /\ Mishap
    /\ task' = [task EXCEPT ![t].stage = "send", ![t].ok = FALSE]
    /\ Release(t)
    /\ UNCHANGED <<client, jobs, answers, built, wanted, detached, dropped, asked>>

\* mutant: the waiters are told before the report is stored
TellFirst(t) ==
    /\ task[t].stage = "replay"
    /\ task' = [task EXCEPT ![t].stage = "store", ![t].ok = TRUE]
    /\ Release(t)
    /\ client' = [c \in Client |->
          IF client[c].pc = "wait" /\ client[c].task = t
          THEN [client[c] EXCEPT !.pc = "told"] ELSE client[c]]
    /\ UNCHANGED <<jobs, answers, built, wanted, detached, dropped, bounds>>

\* The baseline run is over; the permit goes with it.
TaskRan(t) ==
    /\ task[t].stage = "replay"
    /\ task' = [task EXCEPT ![t].stage = "store", ![t].ok = TRUE]
    /\ Release(t)
    /\ UNCHANGED <<client, jobs, answers, built, wanted, detached, dropped, bounds>>

TaskStore(t) ==
    /\ task[t].stage = "store"
    /\ PutAnswer(task[t].key)
    /\ task' = [task EXCEPT ![t].stage = "send"]
    /\ UNCHANGED <<client, jobs, built, wanted, gate, detached, bounds>>

\* tx.send wakes everyone who waits.
TaskSend(t) ==
    /\ task[t].stage = "send"
    /\ task' = [task EXCEPT ![t].stage = "remove"]
    /\ client' = [c \in Client |->
          IF client[c].pc = "wait" /\ client[c].task = t
          THEN [client[c] EXCEPT !.pc = IF task[t].ok THEN "told" ELSE "refused"]
          ELSE client[c]]
    /\ UNCHANGED <<shared, detached, dropped, bounds>>

TaskRemove(t) ==
    /\ task[t].stage = "remove"
    /\ jobs' = [jobs EXCEPT ![task[t].key] = NoTask]
    /\ task' = [task EXCEPT ![t] = Free]
    /\ UNCHANGED <<client, answers, built, wanted, gate, detached, dropped, bounds>>

Run(t) ==
    \/ TaskStart(t) \/ TaskBuilt(t) \/ TaskFails(t) \/ TaskRan(t)
    \/ TaskStore(t) \/ TaskSend(t) \/ TaskRemove(t)

-----------------------------------------------------------------------------
Init ==
    /\ client = [c \in Client |-> Idle]
    /\ task = [t \in Task |-> Free]
    /\ jobs = [k \in Key |-> NoTask]
    /\ answers = <<>> /\ built = <<>> /\ wanted = <<>> /\ gate = <<>>
    /\ detached = 0 /\ dropped = {}
    /\ asked = 0 /\ mishaps = 0

Next ==
    \/ \E c \in Client : Ask(c) \/ Handle(c) \/ Disconnect(c)
    \/ \E t \in Task : Run(t)
    \/ Expire \/ DetachedEnds

\* A handler goes on, a replay ends, a client that is told 202 asks again.
Fairness ==
    /\ \A c \in Client : WF_vars(Handle(c))
    /\ \A t \in Task : WF_vars(Run(t))

Spec == Init /\ [][Next]_vars /\ Fairness

-----------------------------------------------------------------------------
Live(t) == task[t].stage # "free"

TypeOK ==
    /\ \A c \in Client :
          /\ client[c].pc \in {"idle", "start", "queued", "run", "join", "base",
                               "need", "wait", "told", "refused", "held"}
          /\ client[c].key \in Key /\ client[c].task \in Task \cup {NoTask}
    /\ jobs \in [Key -> Task \cup {NoTask}]
    /\ IsInjective(answers) /\ IsInjective(built) /\ IsInjective(gate)
    /\ Fits(answers) \/ Len(answers) = 1
    /\ ToSet(wanted) = ToSet(built) /\ Len(built) <= BuiltMax
    /\ ToSet(gate) = {c \in Client : client[c].kind = "at"
                                     /\ client[c].pc \in {"queued", "run"}}
                     \cup {t \in Task : task[t].stage \in {"queued", "build", "replay"}}

\* Two builds of one bundle never run beside each other, and a build that runs
\* is the one the table names, so that a visitor joins it instead of paying
\* for it again (BUNDLE_JOBS, main.rs:905-912).
OneBuildPerKey ==
    \A t \in Task : Live(t) => jobs[task[t].key] = t

\* The table names only builds that run, and whoever waits waits for a build
\* of their own key that has not spoken yet: nobody waits for nothing.
NoOrphanJob ==
    /\ \A k \in Key : jobs[k] # NoTask => Live(jobs[k]) /\ task[jobs[k]].key = k
    /\ \A c \in Client : client[c].pc = "wait" =>
          LET t == client[c].task
          IN  /\ task[t].stage \in {"queued", "build", "replay", "store", "send"}
              /\ task[t].key = client[c].key

\* A build that says it succeeded has its report in the cache, or it was
\* dropped since: "the report expired before it could be served" is true.
ReportThere ==
    \A c \in Client : client[c].pc = "told" \/ client[c].status = "expired" =>
        HasAnswer(client[c].key) \/ client[c].key \in dropped

\* A build is shared by all who ask for it: it runs once, nobody waits for
\* nothing, and nobody is told of a report that is not there.
BuildsShared == TypeOK /\ OneBuildPerKey /\ NoOrphanJob /\ ReportThere

\* Every build ends, failed or not, and leaves the table: no permit is lost.
BuildEnds == \A t \in Task : Live(t) ~> ~Live(t)

\* An editor who keeps asking gets the edit run, or is told why not, even when
\* the report outlived the bundle it came from (need_built).
EditorServed ==
    \A c \in Client : At(c, "edit", "start") ~> client[c].pc = "idle"
=============================================================================
