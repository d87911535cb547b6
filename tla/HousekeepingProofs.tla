------------------------- MODULE HousekeepingProofs -------------------------
(*****************************************************************************)
(* What is kept for clients between their requests: nobody's call to a page  *)
(* is lost (Relay), the usage tally survives (UsageTally), the allowance is  *)
(* exact whatever is forgotten (Guard); the worlds and traces of the pages   *)
(* of the debugger (Worlds), the program binaries its replays share          *)
(* (ElfCache), the handle a caller moves through time (ReplaySession), and   *)
(* the versions a thin keeps of a log (KeptSlots).                           *)
(* They share no state; each has an inductive invariant of its own, in       *)
(* named parts.                                                              *)
(*****************************************************************************)
EXTENDS Relay, UsageTally, Guard, Worlds, ElfCache, ReplaySession, KeptSlots,
        WellFoundedInduction, FiniteSetTheorems, TLAPS

-----------------------------------------------------------------------------
\* Relay

Ends == {"reader", "writer"}

Calls == [stage : {"new", "resolved", "registered", "waiting", "over"},
          page : Pages \cup {NoPage}, reply : Callers \cup {Nothing, Lost}, late : BOOLEAN]

RelayTypes ==
    /\ sessions \subseteq Pages /\ receiver \subseteq Pages /\ idle \subseteq Pages
    /\ closers \subseteq Pages \X Ends
    /\ socket \in [Pages -> {"off", "up", "lost", "closed", "gone"}]
    /\ pending \in [Pages -> SUBSET Callers]
    /\ call \in [Callers -> Calls]
    /\ \A c \in Callers : call[c].stage # "new" => call[c].page \in Pages

\* An answer is the caller's own, and none arrives before the call is registered.
RepliesOwn ==
    \A c \in Callers :
        /\ call[c].reply \in {Nothing, Lost, c}
        /\ call[c].stage \in {"new", "resolved"} => call[c].reply = Nothing

\* The table of pending calls holds exactly the calls nobody has answered yet.
PendingExact ==
    /\ \A p \in Pages : \A c \in pending[p] :
          call[c].page = p /\ call[c].stage \in {"registered", "waiting"} /\ call[c].reply = Nothing
    /\ \A c \in Callers :
          call[c].stage \in {"registered", "waiting"} /\ call[c].reply = Nothing
            => c \in pending[call[c].page]

\* A session is in the registry only while its socket is open or its reader
\* task has not seen it close; an idle one has no call on its way.
SessionsOpen ==
    /\ \A p \in sessions : socket[p] \in {"up", "lost"}
    /\ \A c \in Callers : call[c].stage = "waiting" => call[c].page \notin idle

\* A call queued in time has an answer, or somebody who will still fail it.
Watched ==
    \A c \in Callers :
        call[c].stage = "waiting" /\ call[c].reply = Nothing /\ ~call[c].late =>
            \/ call[c].page \in sessions
            \/ \E task \in Ends : <<call[c].page, task>> \in closers

RelayInv == RelayTypes /\ RepliesOwn /\ PendingExact /\ SessionsOpen /\ Watched

LEMMA RelayInitInv == RelayInit => RelayInv
  BY RepliesAssumption
  DEF RelayInit, RelayInv, RelayTypes, RepliesOwn, PendingExact, SessionsOpen, Watched, Calls, NoPage, Nothing

\* One step per action: what each can disturb.
LEMMA RelayStepInv == RelayInv /\ [RelayNext]_relayVars => RelayInv'
  <1> SUFFICES ASSUME RelayInv, [RelayNext]_relayVars
               PROVE  RelayInv'
    OBVIOUS
  <1> USE RepliesAssumption
      DEF RelayInv, RelayTypes, RepliesOwn, PendingExact, SessionsOpen, Watched, Ends, Calls
  <1>1. ASSUME NEW p \in Pages, Connect(p)
        PROVE  RelayInv'
    BY <1>1 DEF Connect
  <1>2. ASSUME NEW p \in Pages, GoIdle(p)
        PROVE  RelayInv'
    BY <1>2 DEF GoIdle
  <1>3. ASSUME NEW p \in Pages, WriteDown(p)
        PROVE  RelayInv'
    BY <1>3 DEF WriteDown, Removed
  <1>4. ASSUME NEW p \in Pages, Disconnect(p)
        PROVE  RelayInv'
    BY <1>4 DEF Disconnect
  <1>5. ASSUME NEW p \in Pages, CloseSession(p)
        PROVE  RelayInv'
    BY <1>5 DEF CloseSession, Removed
  <1>6. ASSUME NEW p \in Pages, StopWriter(p)
        PROVE  RelayInv'
    BY <1>6 DEF StopWriter
  <1>7. ASSUME NEW p \in Pages, NEW task \in Ends, FailAll(p, task)
        PROVE  RelayInv'
    <2>1. /\ pending' = [pending EXCEPT ![p] = {}] /\ UNCHANGED <<sessions, socket, receiver, idle>>
          /\ closers' = closers \ {<<p, task>>} /\ <<p, task>> \in closers
      BY <1>7 DEF FailAll
    <2>2. \A c \in Callers : call'[c].stage = call[c].stage /\ call'[c].page = call[c].page
                              /\ call'[c].late = call[c].late
                              /\ call'[c].reply = IF c \in pending[p] THEN Lost ELSE call[c].reply
      BY <1>7 DEF FailAll
    <2>3. Nothing # Lost
      BY DEF Nothing, Lost
    <2>4. call' \in [Callers -> Calls]
      BY <1>7 DEF FailAll
    <2>5. RelayTypes'
      BY <2>1, <2>2, <2>3, <2>4
    <2>6. RepliesOwn'
      BY <2>1, <2>2, <2>3, <2>4
    <2>7. PendingExact'
      BY <2>1, <2>2, <2>3, <2>4
    <2>8. SessionsOpen'
      BY <2>1, <2>2, <2>3, <2>4
    <2>9. Watched'
      BY <2>1, <2>2, <2>3, <2>4
    <2>10. QED
      BY <2>5, <2>6, <2>7, <2>8, <2>9
  <1>8. ASSUME NEW c \in Callers, NEW p \in Pages, Obtain(c, p)
        PROVE  RelayInv'
    <2>1. /\ \A x \in Callers \ {c} : call'[x] = call[x]
          /\ call[c].stage = "new" /\ call'[c].stage = "resolved" /\ call'[c].page = p
          /\ call'[c].reply = call[c].reply /\ call'[c].late = call[c].late
          /\ UNCHANGED <<sessions, socket, closers, receiver, pending, idle>>
      BY <1>8 DEF Obtain
    <2>2. call' \in [Callers -> Calls]
      <3>1. [call[c] EXCEPT !.stage = "resolved", !.page = p] \in Calls
        <4>1. call[c] \in Calls
          OBVIOUS
        <4>2. [call[c] EXCEPT !.stage = "resolved"] \in Calls
          BY <4>1
        <4>3. QED
          BY <4>2
      <3>2. QED
        BY <1>8, <3>1 DEF Obtain
    <2>3. \A q \in Pages : c \notin pending[q]
      BY <2>1
    <2>4. RelayTypes'
      BY <2>1, <2>2, <2>3
    <2>5. RepliesOwn'
      BY <2>1, <2>2, <2>3
    <2>6. PendingExact'
      BY <2>1, <2>2, <2>3
    <2>7. SessionsOpen'
      BY <2>1, <2>2, <2>3
    <2>8. Watched'
      BY <2>1, <2>2, <2>3
    <2>9. QED
      BY <2>4, <2>5, <2>6, <2>7, <2>8
  <1>9. ASSUME NEW p \in Pages, NEW c \in Callers, Deliver(p, c)
        PROVE  RelayInv'
    <2>1. CASE ~(p \in sessions /\ c \in pending[p])
      BY <1>9, <2>1 DEF Deliver
    <2>2. CASE p \in sessions /\ c \in pending[p]
      <3>1. /\ \A x \in Callers \ {c} : call'[x] = call[x]
            /\ call'[c].reply = c /\ call'[c].stage = call[c].stage
            /\ call'[c].page = call[c].page /\ call'[c].late = call[c].late
            /\ pending' = [pending EXCEPT ![p] = @ \ {c}]
            /\ UNCHANGED <<sessions, socket, closers, receiver, idle>>
        BY <1>9, <2>2 DEF Deliver
      <3>2. call' \in [Callers -> Calls]
        BY <1>9, <2>2 DEF Deliver
      <3>3. c # Nothing /\ call[c].page = p /\ call[c].stage \in {"registered", "waiting"}
        BY <2>2
      <3>4. RelayTypes'
        BY <2>2, <3>1, <3>2, <3>3
      <3>5. RepliesOwn'
        BY <2>2, <3>1, <3>2, <3>3
      <3>6. PendingExact'
        BY <2>2, <3>1, <3>2, <3>3
      <3>7. SessionsOpen'
        BY <2>2, <3>1, <3>2, <3>3
      <3>8. Watched'
        BY <2>2, <3>1, <3>2, <3>3
      <3>9. QED
        BY <3>4, <3>5, <3>6, <3>7, <3>8
    <2>3. QED
      BY <2>1, <2>2
  <1>10. ASSUME NEW c \in Callers, Register(c)
         PROVE  RelayInv'
    BY <1>10 DEF Register
  <1>11. ASSUME NEW c \in Callers, Queue(c)
         PROVE  RelayInv'
    <2>1. CASE call[c].page \in receiver
      <3>1. /\ \A x \in Callers \ {c} : call'[x] = call[x]
            /\ call[c].stage = "registered" /\ call'[c].stage = "waiting"
            /\ call'[c].page = call[c].page /\ call'[c].reply = call[c].reply
            /\ call'[c].late = (call[c].page \notin sessions)
            /\ idle' = idle \ {call[c].page}
            /\ UNCHANGED <<sessions, socket, closers, receiver, pending>>
        BY <1>11, <2>1 DEF Queue
      <3>2. call' \in [Callers -> Calls]
        BY <1>11, <2>1 DEF Queue
      <3>3. RelayTypes'
        BY <3>1, <3>2
      <3>4. RepliesOwn'
        BY <3>1, <3>2
      <3>5. PendingExact'
        BY <3>1, <3>2
      <3>6. SessionsOpen'
        BY <3>1, <3>2
      <3>7. Watched'
        BY <3>1, <3>2
      <3>8. QED
        BY <3>3, <3>4, <3>5, <3>6, <3>7
    <2>2. CASE call[c].page \notin receiver
      <3>1. /\ \A x \in Callers \ {c} : call'[x] = call[x]
            /\ call[c].stage = "registered" /\ call'[c].stage = "over"
            /\ call'[c].page = call[c].page /\ call'[c].reply = call[c].reply
            /\ call'[c].late = call[c].late
            /\ pending' = [pending EXCEPT ![call[c].page] = @ \ {c}]
            /\ idle' = idle \ {call[c].page}
            /\ UNCHANGED <<sessions, socket, closers, receiver>>
        BY <1>11, <2>2 DEF Queue
      <3>2. call' \in [Callers -> Calls]
        BY <1>11, <2>2 DEF Queue
      <3>3. RelayTypes'
        BY <3>1, <3>2
      <3>4. RepliesOwn'
        BY <3>1, <3>2
      <3>5. PendingExact'
        BY <3>1, <3>2
      <3>6. SessionsOpen'
        BY <3>1, <3>2
      <3>7. Watched'
        BY <3>1, <3>2
      <3>8. QED
        BY <3>3, <3>4, <3>5, <3>6, <3>7
    <2>3. QED
      BY <2>1, <2>2
  <1>12. ASSUME NEW c \in Callers, Answered(c)
         PROVE  RelayInv'
    BY <1>12 DEF Answered
  <1>13. ASSUME NEW c \in Callers, GiveUp(c)
         PROVE  RelayInv'
    <2>1. /\ \A x \in Callers \ {c} : call'[x] = call[x]
          /\ call[c].stage = "waiting" /\ call[c].reply = Nothing /\ call'[c].stage = "over"
          /\ call'[c].page = call[c].page /\ call'[c].reply = Nothing /\ call'[c].late = call[c].late
          /\ pending' = [pending EXCEPT ![call[c].page] = @ \ {c}]
          /\ UNCHANGED <<sessions, socket, closers, receiver, idle>>
      BY <1>13 DEF GiveUp
    <2>2. call' \in [Callers -> Calls]
      BY <1>13 DEF GiveUp
    <2>3. RelayTypes'
      BY <2>1, <2>2
    <2>4. RepliesOwn'
      BY <2>1, <2>2
    <2>5. PendingExact'
      BY <2>1, <2>2
    <2>6. SessionsOpen'
      BY <2>1, <2>2
    <2>7. Watched'
      BY <2>1, <2>2
    <2>8. QED
      BY <2>3, <2>4, <2>5, <2>6, <2>7
  <1>14. CASE UNCHANGED relayVars
    BY <1>14 DEF relayVars
  <1> HIDE DEF RelayInv, RelayTypes, RepliesOwn, PendingExact, SessionsOpen, Watched
  <1>15. QED
    BY <1>1, <1>2, <1>3, <1>4, <1>5, <1>6, <1>7, <1>8, <1>9, <1>10, <1>11, <1>12, <1>13, <1>14
    DEF RelayNext

LEMMA RelayInvSound == RelayInv => RelaySound
  <1> SUFFICES ASSUME RelayInv
               PROVE  RelaySound
    OBVIOUS
  <1>1. ASSUME NEW c \in Callers, Stranded(c)
        PROVE  call[c].late
    <2>1. socket[call[c].page] = "gone" /\ call[c].stage = "waiting" /\ call[c].reply = Nothing
      BY <1>1 DEF Stranded
    <2>2. call[c].page \notin sessions
      BY <2>1 DEF RelayInv, SessionsOpen
    <2>3. \A task \in Ends : <<call[c].page, task>> \notin closers
      BY <1>1 DEF Stranded
    <2>4. call[c].late \in BOOLEAN
      BY DEF RelayInv, RelayTypes, Calls
    <2>5. QED
      BY <2>1, <2>2, <2>3, <2>4 DEF RelayInv, Watched
  <1>2. QED
    BY <1>1 DEF RelaySound, RelayInv, RepliesOwn, PendingExact

\* For every number of pages and callers: a caller only ever gets the answer to
\* its own call, what is pending still waits for its answer, and once a page is
\* gone and cleaned up after only a call queued too late still waits, in
\* whichever order the two tasks of its socket end (relay.rs).
THEOREM RelayCorrect == RelaySpec => []RelaySound
  <1>1. RelaySpec => []RelayInv
    BY RelayInitInv, RelayStepInv, PTL DEF RelaySpec
  <1>2. QED
    BY <1>1, RelayInvSound, PTL

-----------------------------------------------------------------------------
\* UsageTally

Tallies ==
    {s \in [requests : Nat, views : Nat, seen : Nat, days : SUBSET Nat, clients : SUBSET Nat,
            endpoints : SUBSET Nat] : s.seen = 0 => s = NoTally}
Pushes == [stage : {"idle", "upload", "clear", "done"}, text : Tallies]

TallyTypes ==
    /\ day \in Nat /\ day > 0 /\ best \in Nat
    /\ tally \in Tallies /\ onDisk \in Tallies /\ durable \in Tallies
    /\ dirty \in BOOLEAN /\ lucky \in BOOLEAN /\ beside \in BOOLEAN
    /\ pusher \in [Pushers -> Pushes]
    /\ process \in {"up", "stopping", "exited", "down"}

\* Nobody pushes in a process that is gone, and the last push is one of a
\* process that stops.
PushersLive ==
    /\ process \in {"exited", "down"} => ~Pushing
    /\ pusher["shutdown"].stage # "idle" => process \in {"stopping", "exited"}

\* What the durable copy, the counters and a push under way say of each other.
CopiesAgree ==
    lucky /\ ~beside =>
        /\ Total(durable) = best
        /\ process # "down" => Total(tally) >= best /\ (~dirty => durable = tally)
        /\ process = "exited" => ~dirty
        /\ \A w \in Pushers :
              /\ pusher[w].stage = "upload" => pusher[w].text = tally
              /\ pusher[w].stage = "clear" => durable = tally
        /\ pusher["shutdown"].stage = "done" => ~dirty

TallyInv == TallyTypes /\ PushersLive /\ CopiesAgree

\* The total of a tally is a number, and the larger of two is the later.
LEMMA TotalType ==
    ASSUME NEW s \in Tallies
    PROVE  Total(s) \in Nat
  BY DEF Tallies, Total

LEMMA LargerOf ==
    ASSUME NEW a \in Nat, NEW b \in Nat, a <= b
    PROVE  Max({a, b}) = b
  <1>1. \A x \in {a, b} : b >= x
    OBVIOUS
  <1>2. \A x \in {a, b} : (\A y \in {a, b} : x >= y) => x = b
    OBVIOUS
  <1>3. QED
    BY <1>1, <1>2 DEF Max

\* Counting adds one to the total and marks the day, whatever detail is pruned.
LEMMA CountedOne ==
    ASSUME NEW s \in Tallies, day \in Nat, day > 0
    PROVE  /\ Recorded(s) \in Tallies /\ Total(Recorded(s)) = Total(s) + 1
           /\ Viewed(s) \in Tallies /\ Total(Viewed(s)) = Total(s) + 1
  <1> DEFINE recs == [requests : Nat, views : Nat, seen : Nat, days : SUBSET Nat,
                      clients : SUBSET Nat, endpoints : SUBSET Nat]
  <1>1. s \in recs /\ NoTally.seen = 0
    BY DEF Tallies, NoTally
  <1>2. Touched(s) \in recs /\ Touched(s).seen = day
        /\ Touched(s).requests = s.requests /\ Touched(s).views = s.views
    BY <1>1 DEF Touched
  <1>3. ASSUME NEW t \in recs
        PROVE  /\ Pruned(t) \in recs /\ Pruned(t).seen = t.seen
               /\ Pruned(t).requests = t.requests /\ Pruned(t).views = t.views
    BY <1>3 DEF Pruned
  <1> DEFINE r == [Touched(s) EXCEPT !.requests = @ + 1, !.endpoints = @ \cup {day}]
             v == [Touched(s) EXCEPT !.views = @ + 1]
  <1>4. r \in recs /\ r.seen = day /\ r.requests = s.requests + 1 /\ r.views = s.views
    <2>1. [Touched(s) EXCEPT !.requests = @ + 1] \in recs
      BY <1>2
    <2>2. [[Touched(s) EXCEPT !.requests = @ + 1] EXCEPT !.endpoints = @ \cup {day}] \in recs
      BY <2>1
    <2>3. QED
      BY <1>1, <1>2, <2>2
  <1>5. v \in recs /\ v.seen = day /\ v.requests = s.requests /\ v.views = s.views + 1
    BY <1>1, <1>2
  <1> HIDE DEF r, v
  <1>6. Recorded(s) \in {r, Pruned(r)} /\ Viewed(s) \in {v, Pruned(v)}
    BY DEF Recorded, Viewed, r, v
  <1>7. /\ Recorded(s) \in recs /\ Recorded(s).seen = day
        /\ Recorded(s).requests = s.requests + 1 /\ Recorded(s).views = s.views
        /\ Viewed(s) \in recs /\ Viewed(s).seen = day
        /\ Viewed(s).requests = s.requests /\ Viewed(s).views = s.views + 1
    BY <1>3, <1>4, <1>5, <1>6
  <1>8. QED
    BY <1>1, <1>7 DEF Tallies, Total

LEMMA TallyInitInv == TallyInit => TallyInv
  <1> SUFFICES ASSUME TallyInit
               PROVE  TallyInv
    OBVIOUS
  <1>1. NoTally \in Tallies /\ NotPushing \in Pushes /\ Total(NoTally) = 0
    BY DEF NoTally, Tallies, NotPushing, Pushes, Total
  <1>2. TallyTypes
    <2>1. pusher \in [Pushers -> Pushes]
      BY <1>1 DEF TallyInit
    <2>2. day \in Nat /\ day > 0 /\ best \in Nat /\ process = "up"
      BY DEF TallyInit
    <2>3. tally \in Tallies /\ onDisk \in Tallies /\ durable \in Tallies
      BY <1>1 DEF TallyInit
    <2>4. dirty \in BOOLEAN /\ lucky \in BOOLEAN /\ beside \in BOOLEAN
      BY DEF TallyInit
    <2>5. QED
      BY <2>1, <2>2, <2>3, <2>4 DEF TallyTypes
  <1>3. PushersLive /\ CopiesAgree
    BY <1>1 DEF TallyInit, PushersLive, CopiesAgree, Pushing, NotPushing, Pushers
  <1>4. QED
    BY <1>2, <1>3 DEF TallyInv

\* One step per action, a push in its three stages.
LEMMA TallyStepInv == TallyInv /\ [TallyNext]_tallyVars => TallyInv'
  <1> SUFFICES ASSUME TallyInv, [TallyNext]_tallyVars
               PROVE  TallyInv'
    OBVIOUS
  <1>1. /\ NoTally \in Tallies /\ NotPushing \in Pushes
        /\ \A w \in Pushers : Finished(w) \in Pushes /\ Finished(w).stage \in {"idle", "done"}
    BY DEF NoTally, Tallies, NotPushing, Pushes, Finished
  <1>2. ASSUME NEW s \in Tallies, NEW save \in BOOLEAN, Total(s) = Total(tally) + 1, Count_(s, save)
        PROVE  TallyInv'
    <2>1. TallyTypes'
      BY <1>2 DEF Count_, TallyInv, TallyTypes
    <2>2. PushersLive'
      BY <1>2 DEF Count_, TallyInv, PushersLive, Pushing
    <2>3. CopiesAgree'
      <3>1. Total(tally) \in Nat /\ Total(tally') = Total(tally) + 1 /\ best \in Nat
        BY <1>2, TotalType DEF Count_, TallyInv, TallyTypes
      <3>2. SUFFICES ASSUME lucky', ~beside'
                     PROVE  CopiesAgree'
        BY DEF CopiesAgree
      <3>3. /\ lucky /\ ~beside /\ ~Pushing /\ process = "up" /\ process' = "up" /\ dirty' = TRUE
            /\ UNCHANGED <<durable, best, pusher>>
        BY <1>2, <3>2 DEF Count_, TallyInv, TallyTypes, Pushing
      <3>4. \A w \in Pushers : pusher[w].stage \in {"idle", "done"}
        BY <3>3 DEF Pushing
      <3>5. pusher["shutdown"].stage = "idle"
        BY <3>3 DEF TallyInv, PushersLive
      <3>6. Total(durable) = best /\ Total(tally) >= best
        BY <3>3 DEF TallyInv, CopiesAgree
      <3>7. QED
        BY <3>1, <3>3, <3>4, <3>5, <3>6 DEF CopiesAgree
    <2>4. QED
      BY <2>1, <2>2, <2>3 DEF TallyInv
  <1>3. CASE NextDay
    BY <1>3 DEF NextDay, TallyInv, TallyTypes, PushersLive, CopiesAgree, Pushing
  <1>4. CASE Shutdown
    BY <1>4 DEF Shutdown, TallyInv, TallyTypes, PushersLive, CopiesAgree, Pushing
  <1>5. CASE Exited
    BY <1>5 DEF Exited, TallyInv, TallyTypes, PushersLive, CopiesAgree, Pushing
  <1>6. CASE Killed
    <2>1. TallyTypes'
      BY <1>1, <1>6 DEF Killed, TallyInv, TallyTypes
    <2>2. PushersLive'
      BY <1>6 DEF Killed, PushersLive, Pushing, NotPushing, Pushers
    <2>3. CopiesAgree'
      BY <1>6 DEF Killed, TallyInv, CopiesAgree, NotPushing, Pushers
    <2>4. QED
      BY <2>1, <2>2, <2>3 DEF TallyInv
  <1>7. ASSUME NEW w \in Pushers, Snapshotted(w)
        PROVE  TallyInv'
    <2>1. [stage |-> "upload", text |-> tally] \in Pushes
      BY DEF TallyInv, TallyTypes, Pushes
    <2>2. TallyTypes'
      BY <1>7, <2>1 DEF Snapshotted, TallyInv, TallyTypes
    <2>3. PushersLive'
      BY <1>7, <2>2 DEF Snapshotted, TallyInv, TallyTypes, PushersLive, Pushers
    <2>4. CopiesAgree'
      BY <1>7 DEF Snapshotted, TallyInv, TallyTypes, PushersLive, CopiesAgree, Pushing, Pushers
    <2>5. QED
      BY <2>2, <2>3, <2>4 DEF TallyInv
  <1>8. ASSUME NEW w \in Pushers, Cleaned(w)
        PROVE  TallyInv'
    <2>1. TallyTypes'
      BY <1>1, <1>8 DEF Cleaned, TallyInv, TallyTypes
    <2>2. PushersLive'
      BY <1>1, <1>8, <2>1 DEF Cleaned, TallyInv, TallyTypes, PushersLive, Pushing, Pushers
    <2>3. CopiesAgree'
      BY <1>1, <1>8 DEF Cleaned, TallyInv, TallyTypes, CopiesAgree, Pushers
    <2>4. QED
      BY <2>1, <2>2, <2>3 DEF TallyInv
  <1>9. ASSUME NEW w \in Pushers, NEW ok \in BOOLEAN, Uploaded(w, ok)
        PROVE  TallyInv'
    <2>1. /\ pusher[w] \in Pushes /\ pusher[w].text \in Tallies /\ best \in Nat
          /\ [pusher[w] EXCEPT !.stage = "clear"] \in Pushes
      BY DEF TallyInv, TallyTypes, Pushes
    <2>2. durable' \in Tallies /\ Total(durable') \in Nat /\ best' \in Nat
      <3>1. durable' \in Tallies
        BY <1>9, <2>1 DEF Uploaded, TallyInv, TallyTypes
      <3>2. Total(durable') \in Nat
        BY <3>1, TotalType
      <3>3. best' = Max({best, Total(durable')})
        BY <1>9 DEF Uploaded
      <3>4. Max({Total(durable'), best}) = Max({best, Total(durable')})
        <4>1. {Total(durable'), best} = {best, Total(durable')}
          OBVIOUS
        <4>2. QED
          BY <4>1
      <3>5. best' \in {best, Total(durable')}
        BY <2>1, <3>2, <3>3, <3>4, LargerOf
      <3>6. QED
        BY <2>1, <3>1, <3>2, <3>5
    <2>3. TallyTypes'
      BY <1>1, <1>9, <2>1, <2>2 DEF Uploaded, TallyInv, TallyTypes
    <2>4. PushersLive'
      BY <1>1, <1>9, <2>3 DEF Uploaded, TallyInv, TallyTypes, PushersLive, Pushing, Pushers
    <2>5. CopiesAgree'
      <3>1. SUFFICES ASSUME lucky', ~beside'
                     PROVE  CopiesAgree'
        BY DEF CopiesAgree
      <3>2. lucky /\ ok /\ ~beside /\ process # "down"
        BY <1>9, <3>1 DEF Uploaded, TallyInv, TallyTypes, PushersLive, Pushing
      <3>3. durable' = tally /\ Total(tally) >= best
        BY <1>9, <3>2 DEF Uploaded, TallyInv, CopiesAgree
      <3>4. best' = Total(durable')
        BY <1>9, <2>1, <2>2, <3>3, LargerOf DEF Uploaded
      <3>5. QED
        BY <1>9, <2>2, <3>2, <3>3, <3>4 DEF Uploaded, TallyInv, CopiesAgree, Pushers, TallyTypes
    <2>6. QED
      BY <2>3, <2>4, <2>5 DEF TallyInv
  <1>10. ASSUME NEW kept \in BOOLEAN, NEW reached \in BOOLEAN, Boot(kept, reached)
        PROVE  TallyInv'
    <2> DEFINE file == IF kept THEN onDisk ELSE NoTally
    <2>1. file \in Tallies /\ Restored(file, durable, reached) \in {file, durable}
      BY <1>1 DEF Restored, TallyInv, TallyTypes
    <2>2. TallyTypes'
      BY <1>1, <1>10, <2>1 DEF Boot, TallyInv, TallyTypes
    <2>3. PushersLive'
      BY <1>10 DEF Boot, PushersLive, Pushing, NotPushing, Pushers
    <2>4. CopiesAgree'
      <3>1. SUFFICES ASSUME lucky', ~beside'
                     PROVE  CopiesAgree'
        BY DEF CopiesAgree
      <3>2. lucky /\ ~beside /\ reached /\ file.seen <= durable.seen
        BY <1>10, <3>1 DEF Boot, TallyInv, TallyTypes
      <3>3. tally' = durable
        <4>1. CASE durable # NoTally
          <5>1. durable.seen >= file.seen
            BY <2>1, <3>2 DEF TallyInv, TallyTypes, Tallies
          <5>2. QED
            BY <1>10, <3>2, <4>1, <5>1 DEF Boot, Restored
        <4>2. CASE durable = NoTally
          <5>1. file.seen = 0
            BY <2>1, <3>2, <4>2 DEF NoTally, Tallies
          <5>2. file = NoTally
            BY <2>1, <5>1 DEF Tallies
          <5>3. QED
            BY <1>10, <4>2, <5>2 DEF Boot, Restored
        <4>3. QED
          BY <4>1, <4>2
      <3>4. Total(durable) = best /\ Total(durable) \in Nat
        BY <3>2, TotalType DEF TallyInv, TallyTypes, CopiesAgree
      <3>5. QED
        BY <1>10, <3>3, <3>4 DEF Boot, CopiesAgree, NotPushing, Pushers
    <2>5. QED
      BY <2>2, <2>3, <2>4 DEF TallyInv
  <1>11. CASE UNCHANGED tallyVars
    BY <1>11 DEF tallyVars, TallyInv, TallyTypes, PushersLive, CopiesAgree, Pushing
  <1>12. ASSUME NEW save \in BOOLEAN, Count_(Recorded(tally), save) \/ Count_(Viewed(tally), save)
         PROVE  TallyInv'
    <2>1. tally \in Tallies /\ day \in Nat /\ day > 0
      BY DEF TallyInv, TallyTypes
    <2>2. QED
      BY <1>2, <1>12, <2>1, CountedOne
  <1>13. QED
    BY <1>3, <1>4, <1>5, <1>6, <1>7, <1>8, <1>9, <1>10, <1>11, <1>12 DEF TallyNext

LEMMA TallyInvKept == TallyInv => TallyKept
  BY DEF TallyInv, CopiesAgree, TallyKept

\* For every count of requests and days: while no push or restore fails and
\* nothing happens beside a push, a clean exit leaves everything counted in the
\* durable copy, which never counts less than it did, whichever of the two
\* pushers is at work when the process is told to stop (usage.rs).
THEOREM TallyCorrect == TallySpec => []TallyKept
  <1>1. TallySpec => []TallyInv
    BY TallyInitInv, TallyStepInv, PTL DEF TallySpec
  <1>2. QED
    BY <1>1, TallyInvKept, PTL

-----------------------------------------------------------------------------
\* Guard

\* Every set of numbers has a smallest.
LEMMA SmallestOf ==
    ASSUME NEW T \in SUBSET Nat, T # {}
    PROVE  \E i \in T : \A j \in T : i <= j
  <1> DEFINE R == {ss \in Nat \X Nat : ss[1] < ss[2]}
  <1>1. R = OpToRel(<, Nat)
    BY Zenon DEF OpToRel
  <1>2. IsWellFoundedOn(R, Nat)
    BY <1>1, NatLessThanWellFounded, Zenon
  <1>3. \E x \in T : \A y \in T : <<y, x>> \notin R
    <2> HIDE DEF R
    <2>1. T \subseteq Nat
      OBVIOUS
    <2>2. QED
      BY <1>2, <2>1, WFMin, Zenon
  <1>4. PICK i \in T : \A j \in T : <<j, i>> \notin R
    BY <1>3
  <1>5. \A j \in T : i <= j
    <2>1. TAKE j \in T
    <2>2. i \in Nat /\ j \in Nat
      OBVIOUS
    <2>3. <<j, i>> \notin R
      BY <1>4
    <2>4. ~(j < i)
      BY <2>2, <2>3
    <2>5. QED
      BY <2>2, <2>4
  <1>6. QED
    BY <1>5

\* Times a client was admitted at: ascending, and none in the future.
Ascending(s) ==
    /\ s \in Seq(Nat)
    /\ \A k \in 1 .. Len(s) : s[k] <= clock
    /\ \A j, k \in 1 .. Len(s) : j <= k => s[j] <= s[k]

\* MaxPerWindow admissions span a window.
Spaced(s) ==
    \A k \in 1 .. Len(s) : k + MaxPerWindow \in 1 .. Len(s) => s[k + MaxPerWindow] - s[k] >= Window

\* What is remembered of a client is the end of what it was admitted, and what
\* is forgotten is no longer in the window.
Remembered(s, a) ==
    /\ s \in Seq(Nat) /\ Len(s) <= Len(a)
    /\ \A k \in 1 .. Len(s) : s[k] = a[Len(a) - Len(s) + k]
    /\ \A k \in 1 .. Len(a) - Len(s) : ~Young(a[k], Window)

Forgettable(a) == \A k \in 1 .. Len(a) : ~Young(a[k], Window)

GuardInv ==
    /\ clock \in Nat
    /\ admitted \in [Peers -> Seq(Nat)]
    /\ \A p \in Peers :
         /\ Ascending(admitted[p]) /\ Spaced(admitted[p])
         /\ IF p \in DOMAIN hits THEN Remembered(hits[p], admitted[p]) ELSE Forgettable(admitted[p])
    /\ \A v \in DOMAIN cached : cached[v] \in Nat
    /\ IsFiniteSet(DOMAIN cached) /\ Cardinality(DOMAIN cached) <= MaxEntries

LEMMA BetweenEqual ==
    ASSUME NEW n \in Nat, NEW m \in Nat, m <= n, n = 0 \/ n <= m
    PROVE  m = n
  OBVIOUS

\* The times outside the window come first.
LEMMA GoneFirst ==
    ASSUME NEW s, Ascending(s), clock \in Nat
    PROVE  \E m \in 0 .. Len(s) :
              /\ \A k \in 1 .. Len(s) : k <= m <=> ~Young(s[k], Window)
              /\ Gone(s) = 1 .. m /\ InWindow(s) = m + 1 .. Len(s)
              /\ Cardinality(Gone(s)) = m /\ Cardinality(InWindow(s)) = Len(s) - m
  <1>1. /\ s \in Seq(Nat) /\ Len(s) \in Nat /\ DOMAIN s = 1 .. Len(s) /\ Window \in Nat
        /\ \A k \in 1 .. Len(s) : s[k] \in Nat
        /\ InWindow(s) = {k \in 1 .. Len(s) : clock - s[k] < Window}
    BY GuardAssumption DEF Ascending, InWindow, Young
  <1>2. \E m \in 0 .. Len(s) : \A k \in 1 .. Len(s) : k <= m <=> ~Young(s[k], Window)
    <2>1. CASE InWindow(s) = {}
      <3>1. \A k \in 1 .. Len(s) : k <= Len(s) <=> ~Young(s[k], Window)
        <4>1. TAKE k \in 1 .. Len(s)
        <4>2. k \notin InWindow(s) /\ k <= Len(s)
          BY <1>1, <2>1
        <4>3. QED
          BY <1>1, <4>2 DEF Young
      <3>2. Len(s) \in 0 .. Len(s)
        BY <1>1
      <3>3. QED
        BY <3>1, <3>2
    <2>2. CASE InWindow(s) # {}
      <3>1. PICK i \in InWindow(s) : \A j \in InWindow(s) : i <= j
        <4>1. InWindow(s) \in SUBSET Nat
          BY <1>1
        <4>2. QED
          BY <2>2, <4>1, SmallestOf
      <3>2. i - 1 \in 0 .. Len(s) /\ i \in 1 .. Len(s)
        BY <1>1, <3>1
      <3>3. ASSUME NEW k \in 1 .. Len(s)
            PROVE  k <= i - 1 <=> ~Young(s[k], Window)
        <4>1. CASE k <= i - 1
          BY <1>1, <3>1, <3>2, <4>1 DEF Young
        <4>2. CASE ~(k <= i - 1)
          <5>1. i <= k /\ s[i] <= s[k] /\ clock - s[i] < Window
            BY <1>1, <3>1, <3>2, <4>2 DEF Ascending
          <5>2. clock - s[k] < Window
            BY <1>1, <3>2, <5>1
          <5>3. QED
            BY <4>2, <5>2 DEF Young
        <4>3. QED
          BY <4>1, <4>2
      <3>4. QED
        BY <3>2, <3>3
    <2>3. QED
      BY <2>1, <2>2
  <1>3. PICK m \in 0 .. Len(s) : \A k \in 1 .. Len(s) : k <= m <=> ~Young(s[k], Window)
    BY <1>2
  <1>4. m \in Nat /\ m <= Len(s) /\ m + 1 \in Nat
    BY <1>1
  <1>5. InWindow(s) = m + 1 .. Len(s)
    <2>1. ASSUME NEW k \in InWindow(s)
          PROVE  k \in m + 1 .. Len(s)
      BY <1>1, <1>3, <1>4, <2>1 DEF Young
    <2>2. ASSUME NEW k \in m + 1 .. Len(s)
          PROVE  k \in InWindow(s)
      BY <1>1, <1>3, <1>4, <2>2 DEF Young
    <2>3. QED
      BY <2>1, <2>2
  <1>6. Gone(s) = 1 .. m
    BY <1>1, <1>4, <1>5 DEF Gone
  <1>7. Cardinality(1 .. m) = m /\ Cardinality(m + 1 .. Len(s)) = Len(s) - m
    <2>1. Cardinality(1 .. m) = IF 1 > m THEN 0 ELSE m - 1 + 1
      BY <1>1, <1>4, FS_Interval
    <2>2. Cardinality(m + 1 .. Len(s)) = IF m + 1 > Len(s) THEN 0 ELSE Len(s) - (m + 1) + 1
      <3>1. m + 1 \in Int /\ Len(s) \in Int
        BY <1>1, <1>4
      <3>2. QED
        BY <3>1, FS_Interval
    <2>3. QED
      BY <1>1, <1>4, <2>1, <2>2
  <1>8. QED
    BY <1>3, <1>5, <1>6, <1>7

\* Whatever of a client was forgotten, its recent hits are its admissions in
\* the window.
LEMMA RecentTrue ==
    ASSUME GuardInv, NEW p \in Peers
    PROVE  \E m \in 0 .. Len(admitted[p]) :
              /\ \A k \in 1 .. Len(admitted[p]) : k <= m <=> ~Young(admitted[p][k], Window)
              /\ Cardinality(InWindow(admitted[p])) = Len(admitted[p]) - m
              /\ Recent(p) \in Seq(Nat) /\ Len(Recent(p)) = Len(admitted[p]) - m
              /\ \A k \in 1 .. Len(admitted[p]) - m : Recent(p)[k] = admitted[p][m + k]
  <1> DEFINE a == admitted[p]
             h == hits[p]
  <1>1. clock \in Nat /\ Ascending(a) /\ a \in Seq(Nat) /\ Len(a) \in Nat /\ Window \in Nat /\ DOMAIN a = 1 .. Len(a)
    BY GuardAssumption DEF GuardInv, Ascending
  <1>2. PICK m \in 0 .. Len(a) :
              /\ \A k \in 1 .. Len(a) : k <= m <=> ~Young(a[k], Window)
              /\ Cardinality(InWindow(a)) = Len(a) - m
    BY <1>1, GoneFirst
  <1> HIDE DEF a, h
  <1>3. CASE p \notin Lively(hits)
    <2>1. Recent(p) = <<>>
      BY <1>3 DEF Recent
    <2>2. m = Len(a)
      <3>1. CASE p \notin DOMAIN hits
        <4>1. \A k \in 1 .. Len(a) : ~Young(a[k], Window)
          BY <3>1 DEF GuardInv, Forgettable, a
        <4>2. Len(a) = 0 \/ Len(a) <= m
          <5>1. Len(a) > 0 => Len(a) \in 1 .. Len(a)
            BY <1>1
          <5>2. QED
            BY <1>1, <1>2, <4>1, <5>1
        <4>3. m \in Nat /\ m <= Len(a)
          BY <1>1, <1>2
        <4>4. QED
          BY <1>1, <4>2, <4>3, BetweenEqual
      <3>2. CASE p \in DOMAIN hits
        <4>1. Remembered(h, a) /\ (h = <<>> \/ ~Young(Last(h), Window))
          BY <1>3, <3>2 DEF Lively, GuardInv, a, h
        <4>2. h \in Seq(Nat) /\ Len(h) \in Nat /\ Len(h) <= Len(a)
          BY <4>1 DEF Remembered
        <4>3. Len(a) = 0 \/ ~Young(a[Len(a)], Window)
          <5>1. CASE Len(h) = 0
            BY <1>1, <4>1, <4>2, <5>1 DEF Remembered
          <5>2. CASE Len(h) > 0
            <6>1. h # <<>> /\ Last(h) = h[Len(h)]
              BY <4>2, <5>2 DEF Last
            <6>2. h[Len(h)] = a[Len(a)]
              <7>1. Len(h) \in 1 .. Len(h) /\ Len(a) - Len(h) + Len(h) = Len(a)
                BY <1>1, <4>2, <5>2
              <7>2. h[Len(h)] = a[Len(a) - Len(h) + Len(h)]
                BY <4>1, <7>1 DEF Remembered
              <7>3. QED
                BY <7>1, <7>2
            <6>3. QED
              BY <4>1, <6>1, <6>2
          <5>3. QED
            BY <4>2, <5>1, <5>2
        <4>4. Len(a) = 0 \/ Len(a) <= m
          <5>1. Len(a) > 0 => Len(a) \in 1 .. Len(a)
            BY <1>1
          <5>2. QED
            BY <1>1, <1>2, <4>3, <5>1
        <4>5. m \in Nat /\ m <= Len(a)
          BY <1>1, <1>2
        <4>6. QED
          BY <1>1, <4>4, <4>5, BetweenEqual
      <3>3. QED
        BY <3>1, <3>2
    <2>3. QED
      BY <1>1, <1>2, <2>1, <2>2 DEF a
  <1>4. CASE p \in Lively(hits)
    <2>1. Remembered(h, a) /\ h \in Seq(Nat) /\ Len(h) \in Nat /\ Len(h) <= Len(a)
      BY <1>4 DEF Lively, GuardInv, Remembered, a, h
    <2>2. PICK d \in Nat : d = Len(a) - Len(h) /\ d + Len(h) = Len(a)
      <3>1. Len(a) - Len(h) \in Nat /\ (Len(a) - Len(h)) + Len(h) = Len(a)
        BY <1>1, <2>1
      <3>2. QED
        BY <3>1
    <2>3. ASSUME NEW k \in 1 .. Len(h)
          PROVE  h[k] = a[d + k] /\ d + k \in 1 .. Len(a)
      <3>1. h[k] = a[Len(a) - Len(h) + k]
        BY <2>1 DEF Remembered
      <3>2. Len(a) - Len(h) = d
        BY <2>2
      <3>3. d + k \in 1 .. Len(a)
        BY <1>1, <2>1, <2>2
      <3>4. QED
        BY <3>1, <3>2, <3>3
    <2>4. d <= m
      <3>1. CASE d = 0
        BY <3>1
      <3>2. CASE d > 0
        <4>1. d \in 1 .. Len(a) /\ d \in 1 .. d
          BY <1>1, <2>1, <2>2, <3>2
        <4>2. ~Young(a[d], Window)
          <5>1. \A k \in 1 .. Len(a) - Len(h) : ~Young(a[k], Window)
            BY <2>1 DEF Remembered
          <5>2. QED
            BY <2>2, <4>1, <5>1
        <4>3. QED
          BY <1>2, <4>1, <4>2
      <3>3. QED
        BY <2>2, <3>1, <3>2
    <2>5. Ascending(h)
      <3>1. \A k \in 1 .. Len(h) : h[k] <= clock
        BY <1>1, <2>3 DEF Ascending
      <3>2. ASSUME NEW j \in 1 .. Len(h), NEW k \in 1 .. Len(h), j <= k
            PROVE  h[j] <= h[k]
        <4>1. d + j <= d + k
          BY <3>2, <2>1
        <4>2. QED
          BY <1>1, <2>3, <4>1 DEF Ascending
      <3>3. QED
        BY <2>1, <3>1, <3>2 DEF Ascending
    <2>6. PICK n \in 0 .. Len(h) :
              /\ \A k \in 1 .. Len(h) : k <= n <=> ~Young(h[k], Window)
              /\ Cardinality(Gone(h)) = n
      BY <1>1, <2>5, GoneFirst
    <2>7. n = m - d
      <3>1. \A k \in 1 .. Len(h) : k <= n <=> d + k <= m
        BY <1>2, <2>3, <2>6
      <3>2. m - d \in 0 .. Len(h)
        BY <1>1, <1>2, <2>1, <2>2, <2>4
      <3>3. CASE n < m - d
        <4>1. n + 1 \in 1 .. Len(h)
          BY <2>1, <2>6, <3>2, <3>3
        <4>2. QED
          BY <2>2, <3>1, <3>2, <3>3, <4>1
      <3>4. CASE n > m - d
        <4>1. n \in 1 .. Len(h)
          BY <2>1, <2>6, <3>2, <3>4
        <4>2. QED
          BY <2>2, <3>1, <3>2, <3>4, <4>1
      <3>5. QED
        BY <2>6, <3>2, <3>3, <3>4
    <2>8. Recent(p) = SubSeq(h, n + 1, Len(h))
      BY <1>4, <2>6 DEF Recent, h
    <2>9. n \in Nat /\ n <= Len(h)
      BY <2>1, <2>6
    <2>10. /\ Recent(p) \in Seq(Nat) /\ Len(Recent(p)) = Len(h) - n
           /\ \A k \in 1 .. Len(h) - n : Recent(p)[k] = h[n + k]
      BY <2>1, <2>8, <2>9
    <2>11. Len(h) - n = Len(a) - m
      BY <1>1, <1>2, <2>1, <2>2, <2>7, <2>9
    <2>12. ASSUME NEW k \in 1 .. Len(a) - m
           PROVE  Recent(p)[k] = a[m + k]
      <3>1. n + k \in 1 .. Len(h) /\ d + (n + k) = m + k
        BY <1>2, <2>1, <2>2, <2>7, <2>9, <2>11
      <3>2. Recent(p)[k] = h[n + k] /\ h[n + k] = a[d + (n + k)]
        BY <2>3, <2>10, <2>11, <3>1
      <3>3. QED
        BY <3>1, <3>2
    <2>13. QED
      BY <1>2, <2>10, <2>11, <2>12 DEF a
  <1>5. QED
    BY <1>3, <1>4

\* Room is made before a body is stored: one entry more never passes the cap.
LEMMA KeptHasRoom ==
    ASSUME GuardInv
    PROVE  /\ Kept(cached) \subseteq DOMAIN cached /\ IsFiniteSet(Kept(cached))
           /\ Cardinality(Kept(cached)) < MaxEntries
  <1> DEFINE live == {v \in DOMAIN cached : Young(cached[v], Ttl)}
             oldest == CHOOSE v \in live : \A w \in live : cached[v] <= cached[w]
  <1>1. MaxEntries \in Nat /\ MaxEntries > 0
    BY GuardAssumption
  <1>2. /\ live \subseteq DOMAIN cached /\ IsFiniteSet(live) /\ Cardinality(live) \in Nat
        /\ Cardinality(live) <= MaxEntries
    <2>1. live \subseteq DOMAIN cached /\ IsFiniteSet(DOMAIN cached)
      BY DEF GuardInv
    <2>2. IsFiniteSet(live) /\ Cardinality(live) <= Cardinality(DOMAIN cached)
      <3> HIDE DEF live
      <3>1. QED
        BY <2>1, FS_Subset
    <2>3. Cardinality(live) \in Nat /\ Cardinality(DOMAIN cached) \in Nat
      <3> HIDE DEF live
      <3>1. QED
        BY <2>1, <2>2, FS_CardinalityType
    <2>4. Cardinality(DOMAIN cached) <= MaxEntries
      BY DEF GuardInv
    <2> HIDE DEF live
    <2>5. QED
      BY <1>1, <2>1, <2>2, <2>3, <2>4
  <1>3. CASE ~(Cardinality(live) >= MaxEntries)
    <2>1. Kept(cached) = live
      BY <1>3 DEF Kept
    <2> HIDE DEF live
    <2>2. QED
      BY <1>1, <1>2, <1>3, <2>1
  <1>4. CASE Cardinality(live) >= MaxEntries
    <2>1. Kept(cached) = live \ {oldest}
      BY <1>4 DEF Kept
    <2>2. oldest \in live
      <3>1. live # {}
        <4> HIDE DEF live
        <4>1. QED
          BY <1>1, <1>2, <1>4, FS_EmptySet
      <3>2. PICK at \in {cached[v] : v \in live} : \A x \in {cached[v] : v \in live} : at <= x
        <4>1. {cached[v] : v \in live} \in SUBSET Nat
          BY DEF GuardInv
        <4>2. {cached[v] : v \in live} # {}
          BY <3>1
        <4> HIDE DEF live
        <4>3. QED
          BY <4>1, <4>2, SmallestOf
      <3>3. \E v \in live : \A w \in live : cached[v] <= cached[w]
        BY <3>2
      <3> HIDE DEF live
      <3>4. QED
        BY <3>3
    <2> HIDE DEF live, oldest
    <2>3. /\ IsFiniteSet(live \ {oldest})
          /\ Cardinality(live \ {oldest}) = Cardinality(live) - 1
      BY <1>2, <2>2, FS_RemoveElement
    <2>4. QED
      BY <1>1, <1>2, <2>1, <2>3
  <1>5. QED
    BY <1>3, <1>4

\* An admission: the client is remembered and forgotten as the allowance needs.
LEMMA GetInv ==
    ASSUME GuardInv, NEW p \in Peers, NEW u \in Urls, Get(p, u)
    PROVE  GuardInv'
  <1>1. /\ hits' = Checked(p) /\ UNCHANGED <<clock, cached>> /\ clock \in Nat
        /\ admitted' = IF Allowed(p) THEN [admitted EXCEPT ![p] = Append(@, clock)] ELSE admitted
        /\ Window \in Nat /\ MaxPerWindow \in Nat /\ MaxPerWindow > 0
    BY GuardAssumption DEF Get, GuardInv
  <1>2. DOMAIN hits' = Lively(hits) \cup {p}
    BY <1>1 DEF Checked
  <1>3. ASSUME NEW q \in Peers, q # p
        PROVE  /\ Ascending(admitted[q])' /\ Spaced(admitted[q])'
               /\ IF q \in DOMAIN hits' THEN Remembered(hits[q], admitted[q])'
                                        ELSE Forgettable(admitted[q])'
    <2>1. /\ admitted'[q] = admitted[q] /\ admitted[q] \in Seq(Nat)
          /\ Ascending(admitted[q]) /\ Spaced(admitted[q])
      BY <1>1, <1>3 DEF GuardInv
    <2>2. Ascending(admitted[q])' /\ Spaced(admitted[q])'
      BY <1>1, <2>1 DEF Ascending, Spaced
    <2>3. CASE q \in Lively(hits)
      <3>1. q \in DOMAIN hits' /\ hits'[q] = hits[q] /\ Remembered(hits[q], admitted[q])
        BY <1>1, <1>2, <1>3, <2>3 DEF Checked, Lively, GuardInv
      <3>2. QED
        BY <1>1, <2>1, <2>2, <3>1 DEF Remembered, Young
    <2>4. CASE q \notin Lively(hits)
      <3>1. q \notin DOMAIN hits' /\ Recent(q) = <<>>
        BY <1>2, <1>3, <2>4 DEF Recent
      <3>2. PICK m \in 0 .. Len(admitted[q]) :
              /\ \A k \in 1 .. Len(admitted[q]) : k <= m <=> ~Young(admitted[q][k], Window)
              /\ Len(Recent(q)) = Len(admitted[q]) - m
        BY RecentTrue
      <3>3. Len(admitted[q]) \in Nat /\ 0 = Len(admitted[q]) - m
        BY <2>1, <3>1, <3>2
      <3>4. \A k \in 1 .. Len(admitted[q]) : ~Young(admitted[q][k], Window)
        BY <3>2, <3>3
      <3>5. QED
        BY <1>1, <2>1, <2>2, <3>1, <3>4 DEF Forgettable, Young
    <2>5. QED
      BY <2>3, <2>4
  <1>4. /\ Ascending(admitted[p])' /\ Spaced(admitted[p])' /\ admitted'[p] \in Seq(Nat)
        /\ p \in DOMAIN hits' /\ Remembered(hits[p], admitted[p])'
    <2> DEFINE a == admitted[p]
    <2>1. Ascending(a) /\ Spaced(a) /\ a \in Seq(Nat) /\ Len(a) \in Nat
      BY DEF GuardInv
    <2>2. PICK m \in 0 .. Len(a) :
              /\ \A k \in 1 .. Len(a) : k <= m <=> ~Young(a[k], Window)
              /\ Recent(p) \in Seq(Nat) /\ Len(Recent(p)) = Len(a) - m
              /\ \A k \in 1 .. Len(a) - m : Recent(p)[k] = a[m + k]
      BY RecentTrue
    <2>3. m \in Nat /\ m <= Len(a)
      BY <2>1, <2>2
    <2>4. CASE ~Allowed(p)
      <3>1. admitted'[p] = a /\ p \in DOMAIN hits' /\ hits'[p] = Recent(p)
        BY <1>1, <1>2, <2>4 DEF Checked
      <3>2. Ascending(admitted[p])' /\ Spaced(admitted[p])'
        BY <1>1, <2>1, <3>1 DEF Ascending, Spaced
      <3>3. Len(Recent(p)) <= Len(a) /\ Len(a) - Len(Recent(p)) = m
        BY <2>1, <2>2, <2>3
      <3>4. Remembered(hits[p], admitted[p])'
        <4>1. \A k \in 1 .. Len(Recent(p)) : Recent(p)[k] = a[m + k]
          BY <2>2
        <4>2. \A k \in 1 .. m : ~Young(a[k], Window)
          BY <2>1, <2>2, <2>3
        <4>3. QED
          BY <1>1, <2>2, <3>1, <3>3, <4>1, <4>2 DEF Remembered, Young
      <3>5. QED
        BY <2>1, <3>1, <3>2, <3>4
    <2>5. CASE Allowed(p)
      <3> DEFINE s == Recent(p)
                 b == Append(a, clock)
                 h == Append(s, clock)
      <3>1. admitted'[p] = b /\ p \in DOMAIN hits' /\ hits'[p] = h
        BY <1>1, <1>2, <2>1, <2>5 DEF Checked, GuardInv
      <3>2. PICK n \in Nat, l \in Nat : n = Len(a) /\ l = Len(s) /\ n = m + l /\ l < MaxPerWindow
        <4>1. Len(a) \in Nat /\ Len(s) \in Nat /\ Len(s) < MaxPerWindow
          BY <2>1, <2>2, <2>5 DEF Allowed
        <4>2. Len(a) = m + Len(s)
          <5>1. Len(s) = Len(a) - m
            BY <2>2
          <5> HIDE DEF a, s
          <5>2. QED
            BY <2>3, <4>1, <5>1
        <4> HIDE DEF a, s
        <4>3. QED
          BY <4>1, <4>2
      <3>3. /\ a \in Seq(Nat) /\ s \in Seq(Nat)
            /\ \A k \in 1 .. n : a[k] \in Nat /\ a[k] <= clock /\ (k <= m <=> ~Young(a[k], Window))
            /\ \A j, k \in 1 .. n : j <= k => a[j] <= a[k]
            /\ \A k \in 1 .. n : k + MaxPerWindow \in 1 .. n => a[k + MaxPerWindow] - a[k] >= Window
        BY <2>1, <2>2, <3>2 DEF Ascending, Spaced
      <3>4. \A k \in 1 .. l : s[k] = a[m + k]
        <4>1. \A k \in 1 .. Len(a) - m : s[k] = a[m + k]
          BY <2>2
        <4>2. Len(a) - m = l
          <5> HIDE DEF a, s
          <5>1. QED
            BY <2>3, <3>2
        <4> HIDE DEF a, s
        <4>3. QED
          BY <4>1, <4>2
      <3> HIDE DEF a, s
      <3>5. /\ b \in Seq(Nat) /\ Len(b) = n + 1 /\ b[n + 1] = clock
            /\ \A k \in 1 .. n : b[k] = a[k]
        <4>1. clock \in Nat /\ a \in Seq(Nat) /\ Len(a) = n
          BY <1>1, <3>2, <3>3
        <4>2. b \in Seq(Nat) /\ Len(b) = n + 1
          BY <4>1
        <4>3. b[n + 1] = clock
          BY <4>1
        <4>4. \A k \in 1 .. n : b[k] = a[k]
          BY <4>1
        <4> HIDE DEF b
        <4>5. QED
          BY <4>2, <4>3, <4>4
      <3>6. /\ h \in Seq(Nat) /\ Len(h) = l + 1 /\ h[l + 1] = clock
            /\ \A k \in 1 .. l : h[k] = s[k]
        BY <1>1, <3>2, <3>3
      <3> HIDE DEF b, h
      <3>7. Ascending(b)
        <4>1. ASSUME NEW k \in 1 .. n + 1
              PROVE  b[k] \in Nat /\ b[k] <= clock
          <5>1. CASE k = n + 1
            BY <1>1, <3>5, <5>1
          <5>2. CASE k \in 1 .. n
            BY <3>3, <3>5, <5>2
          <5>3. QED
            BY <3>2, <5>1, <5>2
        <4>2. ASSUME NEW j \in 1 .. n + 1, NEW k \in 1 .. n + 1, j <= k
              PROVE  b[j] <= b[k]
          <5>1. CASE k = n + 1
            BY <4>1, <5>1, <3>5
          <5>2. CASE k \in 1 .. n
            <6>1. j \in 1 .. n
              BY <3>2, <4>2, <5>2
            <6>2. QED
              BY <3>3, <3>5, <4>2, <5>2, <6>1
          <5>3. QED
            BY <3>2, <5>1, <5>2
        <4>3. QED
          BY <3>5, <4>1, <4>2 DEF Ascending
      <3>8. Spaced(b)
        <4>1. SUFFICES ASSUME NEW k \in 1 .. n + 1, k + MaxPerWindow \in 1 .. n + 1
                       PROVE  b[k + MaxPerWindow] - b[k] >= Window
          BY <3>5 DEF Spaced
        <4>2. k \in 1 .. n
          BY <1>1, <3>2, <4>1
        <4>3. CASE k + MaxPerWindow \in 1 .. n
          BY <3>3, <3>5, <4>2, <4>3
        <4>4. CASE k + MaxPerWindow = n + 1
          <5>1. k <= m
            BY <1>1, <2>3, <3>2, <4>2, <4>4
          <5>2. ~(clock - a[k] < Window) /\ a[k] \in Nat
            BY <3>3, <4>2, <5>1 DEF Young
          <5>3. b[k + MaxPerWindow] = clock /\ b[k] = a[k]
            BY <3>5, <4>2, <4>4
          <5>4. QED
            BY <1>1, <5>2, <5>3
        <4>5. QED
          BY <1>1, <3>2, <4>1, <4>2, <4>3, <4>4
      <3>9. Remembered(h, b)
        <4>1. Len(h) <= Len(b) /\ Len(b) - Len(h) = m
          BY <2>3, <3>2, <3>5, <3>6
        <4>2. ASSUME NEW k \in 1 .. l + 1
              PROVE  h[k] = b[m + k]
          <5>1. CASE k = l + 1
            <6>1. m + k = n + 1
              BY <2>3, <3>2, <5>1
            <6>2. QED
              BY <3>5, <3>6, <5>1, <6>1
          <5>2. CASE k \in 1 .. l
            <6>1. m + k \in 1 .. n
              BY <2>3, <3>2, <5>2
            <6>2. QED
              BY <3>4, <3>5, <3>6, <5>2, <6>1
          <5>3. QED
            BY <3>2, <5>1, <5>2
        <4>3. ASSUME NEW k \in 1 .. m
              PROVE  ~Young(b[k], Window)
          <5>1. k \in 1 .. n /\ k <= m
            BY <2>3, <3>2
          <5>2. QED
            BY <3>3, <3>5, <5>1
        <4>4. QED
          BY <3>6, <4>1, <4>2, <4>3 DEF Remembered
      <3>10. QED
        BY <1>1, <3>1, <3>5, <3>7, <3>8, <3>9 DEF Ascending, Spaced, Remembered, Young
    <2>6. QED
      BY <2>4, <2>5
  <1>5. admitted' \in [Peers -> Seq(Nat)]
    BY <1>1, <1>4 DEF GuardInv
  <1>6. QED
    BY <1>1, <1>3, <1>4, <1>5 DEF GuardInv

LEMMA GuardInitInv == GuardInit => GuardInv
  <1> SUFFICES ASSUME GuardInit
               PROVE  GuardInv
    OBVIOUS
  <1>1. IsFiniteSet({}) /\ Cardinality({}) = 0 /\ MaxEntries >= 0
    BY FS_EmptySet, GuardAssumption
  <1>2. QED
    BY <1>1 DEF GuardInit, GuardInv, Ascending, Spaced, Forgettable

\* An admission (GetInv), an answer that is stored, a tick.
LEMMA GuardStepInv == GuardInv /\ [GuardNext]_guardVars => GuardInv'
  <1> SUFFICES ASSUME GuardInv, [GuardNext]_guardVars
               PROVE  GuardInv'
    OBVIOUS
  <1>1. ASSUME NEW p \in Peers, NEW u \in Urls, Get(p, u)
        PROVE  GuardInv'
    BY <1>1, GetInv
  <1>2. ASSUME NEW h \in running, NEW ok \in BOOLEAN, Finish(h, ok)
        PROVE  GuardInv'
    <2>1. UNCHANGED <<clock, hits, admitted>>
      BY <1>2 DEF Finish
    <2>2. /\ \A v \in DOMAIN cached' : cached'[v] \in Nat
          /\ IsFiniteSet(DOMAIN cached') /\ Cardinality(DOMAIN cached') <= MaxEntries
      <3>1. CASE ~ok
        BY <1>2, <3>1 DEF Finish, GuardInv
      <3>2. CASE ok
        <4>1. /\ DOMAIN cached' = Kept(cached) \cup {h.url}
              /\ \A v \in DOMAIN cached' : cached'[v] = IF v = h.url THEN clock ELSE cached[v]
          BY <1>2, <3>2 DEF Finish
        <4>2. /\ Kept(cached) \subseteq DOMAIN cached /\ IsFiniteSet(Kept(cached))
              /\ Cardinality(Kept(cached)) < MaxEntries
          BY KeptHasRoom
        <4>3. /\ IsFiniteSet(Kept(cached) \cup {h.url}) /\ Cardinality(Kept(cached)) \in Nat
              /\ Cardinality(Kept(cached) \cup {h.url}) =
                   IF h.url \in Kept(cached) THEN Cardinality(Kept(cached)) ELSE Cardinality(Kept(cached)) + 1
          BY <4>2, FS_AddElement, FS_CardinalityType
        <4>4. Cardinality(Kept(cached) \cup {h.url}) <= MaxEntries
          BY <4>2, <4>3, GuardAssumption
        <4>5. \A v \in DOMAIN cached' : cached'[v] \in Nat
          BY <4>1, <4>2 DEF GuardInv
        <4>6. QED
          BY <4>1, <4>3, <4>4, <4>5
      <3>3. QED
        BY <3>1, <3>2
    <2>3. QED
      BY <2>1, <2>2 DEF GuardInv, Ascending, Spaced, Remembered, Forgettable, Young
  <1>3. CASE Pass
    <2>1. clock' = clock + 1 /\ clock \in Nat /\ UNCHANGED <<hits, cached, admitted>>
      BY <1>3 DEF Pass, GuardInv
    <2>2. \A t \in Nat : ~Young(t, Window) => ~Young(t, Window)'
      BY <2>1, GuardAssumption DEF Young
    <2>3. ASSUME NEW p \in Peers
          PROVE  /\ Ascending(admitted[p])' /\ Spaced(admitted[p])'
                 /\ IF p \in DOMAIN hits' THEN Remembered(hits[p], admitted[p])'
                                          ELSE Forgettable(admitted[p])'
      <3>1. /\ admitted[p] \in Seq(Nat) /\ Len(admitted[p]) \in Nat
            /\ \A k \in 1 .. Len(admitted[p]) : admitted[p][k] \in Nat
        BY DEF GuardInv
      <3>2. Ascending(admitted[p])' /\ Spaced(admitted[p])'
        BY <2>1, <3>1 DEF GuardInv, Ascending, Spaced
      <3>3. CASE p \in DOMAIN hits
        <4>1. Remembered(hits[p], admitted[p])
          BY <3>3 DEF GuardInv
        <4>2. Len(hits[p]) \in Nat
          BY <4>1 DEF Remembered
        <4>3. \A k \in 1 .. Len(admitted[p]) - Len(hits[p]) : k \in 1 .. Len(admitted[p])
          <5>1. Len(admitted[p]) \in Nat
            BY <3>1
          <5>2. QED
            BY <4>2, <5>1
        <4>4. hits'[p] = hits[p] /\ admitted'[p] = admitted[p] /\ p \in DOMAIN hits'
          BY <2>1, <3>3
        <4>5. ASSUME NEW k \in 1 .. Len(admitted[p]) - Len(hits[p])
              PROVE  ~Young(admitted[p][k], Window)'
          <5>1. admitted[p][k] \in Nat /\ ~Young(admitted[p][k], Window)
            BY <3>1, <4>1, <4>3 DEF Remembered
          <5>2. admitted'[p][k] = admitted[p][k]
            BY <4>4
          <5>3. QED
            BY <2>1, <5>1, <5>2, GuardAssumption DEF Young
        <4>6. Remembered(hits[p], admitted[p])'
          BY <4>1, <4>4, <4>5 DEF Remembered
        <4>7. QED
          BY <3>2, <4>4, <4>6
      <3>4. CASE p \notin DOMAIN hits
        BY <2>1, <2>2, <3>1, <3>2, <3>4 DEF GuardInv, Forgettable
      <3>5. QED
        BY <3>3, <3>4
    <2>4. QED
      BY <2>1, <2>3 DEF GuardInv
  <1>4. CASE UNCHANGED guardVars
    BY <1>4 DEF guardVars, GuardInv, Ascending, Spaced, Remembered, Forgettable, Young
  <1>5. QED
    BY <1>1, <1>2, <1>3, <1>4 DEF GuardNext

LEMMA GuardInvSound == GuardInv => GuardSound
  <1> SUFFICES ASSUME GuardInv
               PROVE  GuardSound
    OBVIOUS
  <1>1. ASSUME NEW p \in Peers
        PROVE  /\ \A k \in DOMAIN admitted[p] : k + MaxPerWindow \in DOMAIN admitted[p] =>
                     admitted[p][k + MaxPerWindow] - admitted[p][k] >= Window
               /\ Allowed(p) <=> Cardinality(InWindow(admitted[p])) < MaxPerWindow
    <2>1. Spaced(admitted[p]) /\ DOMAIN admitted[p] = 1 .. Len(admitted[p])
      BY DEF GuardInv, Ascending
    <2>2. Cardinality(InWindow(admitted[p])) = Len(Recent(p))
      BY RecentTrue
    <2>3. QED
      BY <2>1, <2>2 DEF Spaced, Allowed
  <1>2. QED
    BY <1>1 DEF GuardInv, GuardSound

\* For every window, allowance and cap, and however long the program runs:
\* forgetting quiet clients neither lends them a request nor costs them one, and
\* the cache of bodies stays within its cap (guard.rs, rate_check, cache_put).
THEOREM GuardCorrect == GuardSpec => []GuardSound
  <1>1. GuardSpec => []GuardInv
    BY GuardInitInv, GuardStepInv, PTL DEF GuardSpec
  <1>2. QED
    BY <1>1, GuardInvSound, PTL

-----------------------------------------------------------------------------
\* Worlds

Pins == Tiers \cup {"best"}
TraceRecs == [sig : Sigs, tier : Tiers, world : Nat, was : Nat, pinned : Pins]
RequestRecs == [sig : Sigs, pinned : Pins, changed : BOOLEAN, was : Nat, stage : {"look", "build"},
                tier : Tiers, held : TraceRecs \cup {None}]

\* World w is the one the cache would hand out for this key, or it left the cache.
Cached(s, tier, w) ==
    /\ <<s, tier>> \in DOMAIN worlds
    /\ worlds[<<s, tier>>].world = w /\ Within(worlds[<<s, tier>>], WorldTtl)
Accounted(s, tier, w) == w \in lost \/ Cached(s, tier, w)

Placed(t) == t.world \in 1 .. Len(built) /\ built[t.world].tier = t.tier

\* A trace fit to be shown: of its tier, of an accounted world, and true to the
\* chain if it is of current state.
Plain(t) ==
    /\ t \in TraceRecs /\ Placed(t) /\ Accounted(t.sig, t.tier, t.world)
    /\ t.tier = "now" => built[t.world].succeeds

CacheTrue ==
    /\ tick \in Nat /\ built \in Seq([tier : Tiers, succeeds : BOOLEAN])
    /\ DOMAIN worlds \subseteq Sigs \X Tiers
    /\ \A k \in DOMAIN worlds :
          /\ worlds[k].at \in Nat /\ worlds[k].at <= tick
          /\ worlds[k].world \in 1 .. Len(built) /\ built[worlds[k].world].tier = k[2]
    /\ \A j, k \in DOMAIN worlds : worlds[j].world = worlds[k].world => j = k

StoreTrue ==
    /\ DOMAIN traces \subseteq Sigs
    /\ \A s \in DOMAIN traces : Plain(traces[s].trace)

PagesTrue ==
    /\ base \in [Viewers -> TraceRecs \cup {None}] /\ rerun \in [Viewers -> TraceRecs \cup {None}]
    /\ \A v \in Viewers :
         /\ base[v] # None => Plain(base[v])
         /\ rerun[v] # None =>
              /\ Placed(rerun[v])
              /\ rerun[v].pinned # "best" => rerun[v].world = rerun[v].was \/ rerun[v].was \in lost

\* What a request in flight still owes: a pinned re-run finds the world of its
\* base trace or knows that it is lost, and the current tier is tried only with
\* the reconstructed trace in hand.
Owed(r) ==
    /\ r \in RequestRecs
    /\ r.changed /\ r.pinned # "best" =>
         /\ r.tier = r.pinned /\ Accounted(r.sig, r.tier, r.was)
         /\ r.stage = "build" => r.was \in lost
    /\ ~r.changed => r.pinned = "best"
    /\ r.pinned = "best" /\ r.tier = "now" => r.held # None
    /\ r.held # None =>
         Plain(r.held) /\ r.held.sig = r.sig /\ r.held.tier = "at_slot" /\ ~r.changed

RequestsTrue ==
    /\ asked \in [Viewers -> RequestRecs \cup {None}]
    /\ \A v \in Viewers : asked[v] # None => Owed(asked[v])

WorldsInv == CacheTrue /\ StoreTrue /\ PagesTrue /\ RequestsTrue

\* What a step leaves true of every trace: the worlds built stay built, and a
\* world leaves the cache only into `lost`.
Lasting ==
    /\ \A t \in TraceRecs : Placed(t) => Placed(t)'
    /\ \A s \in Sigs, tier \in Tiers, w \in Nat : Accounted(s, tier, w) => Accounted(s, tier, w)'
    /\ \A t \in TraceRecs : Plain(t) => Plain(t)'
    /\ \A w \in lost : w \in lost'

LEMMA NoneApart ==
    ASSUME NEW t \in TraceRecs \cup RequestRecs
    PROVE  t # None
  BY SigsAssumption DEF TraceRecs, RequestRecs, None

LEMMA ElementOf ==
    ASSUME NEW S, NEW s \in Seq(S), NEW i \in 1 .. Len(s)
    PROVE  s[i] \in S
  OBVIOUS

\* A step that leaves the cache alone leaves every trace as it is.
LEMMA LastingStill ==
    ASSUME CacheTrue, UNCHANGED <<tick, worlds, built, lost>>
    PROVE  CacheTrue' /\ Lasting
  BY DEF CacheTrue, Lasting, Placed, Plain, Accounted, Cached, Within

LEMMA LastingGrown ==
    ASSUME CacheTrue, NEW tier \in Tiers, NEW succeeds \in BOOLEAN,
           built' = Append(built, [tier |-> tier, succeeds |-> succeeds]),
           UNCHANGED <<tick, worlds, lost>>
    PROVE  CacheTrue' /\ Lasting
  <1>1. /\ built \in Seq([tier : Tiers, succeeds : BOOLEAN]) /\ Len(built) \in Nat
        /\ built' \in Seq([tier : Tiers, succeeds : BOOLEAN])
        /\ Len(built') = Len(built) + 1 /\ \A w \in 1 .. Len(built) : built'[w] = built[w]
    BY DEF CacheTrue
  <1>2. CacheTrue'
    BY <1>1 DEF CacheTrue
  <1>3. \A t \in TraceRecs : Placed(t) => Placed(t)' /\ built'[t.world] = built[t.world]
    BY <1>1 DEF Placed
  <1>4. \A s \in Sigs, k \in Tiers, w \in Nat : Accounted(s, k, w) => Accounted(s, k, w)'
    BY DEF Accounted, Cached, Within
  <1>5. \A t \in TraceRecs : Plain(t) => Plain(t)'
    BY <1>3, <1>4 DEF Plain, TraceRecs
  <1>6. QED
    BY <1>2, <1>3, <1>4, <1>5 DEF Lasting

LEMMA LastingTick ==
    ASSUME CacheTrue, Tick
    PROVE  CacheTrue' /\ Lasting
  <1>1. /\ tick \in Nat /\ tick' = tick + 1 /\ UNCHANGED <<worlds, built>>
        /\ \A w \in lost : w \in lost'
    BY DEF Tick, CacheTrue
  <1>2. CacheTrue'
    BY <1>1 DEF CacheTrue
  <1>3. ASSUME NEW s \in Sigs, NEW k \in Tiers, NEW w \in Nat, Cached(s, k, w)
        PROVE  Accounted(s, k, w)'
    <2>1. <<s, k>> \in DOMAIN worlds /\ worlds[<<s, k>>].world = w
      BY <1>3 DEF Cached
    <2>2. CASE tick' - worlds[<<s, k>>].at < WorldTtl
      BY <1>1, <2>1, <2>2 DEF Accounted, Cached, Within
    <2>3. CASE tick' - worlds[<<s, k>>].at >= WorldTtl
      BY <2>1, <2>3 DEF Tick, Accounted
    <2>4. worlds[<<s, k>>].at \in Nat /\ WorldTtl \in Nat
      BY <2>1, WorldsAssumption DEF CacheTrue
    <2>5. QED
      BY <2>2, <2>3, <2>4, <1>1
  <1>4. \A s \in Sigs, k \in Tiers, w \in Nat : Accounted(s, k, w) => Accounted(s, k, w)'
    BY <1>1, <1>3 DEF Accounted
  <1>5. \A t \in TraceRecs : Placed(t) => Placed(t)'
    BY <1>1 DEF Placed
  <1>6. \A t \in TraceRecs : Plain(t) => Plain(t)'
    BY <1>1, <1>4, <1>5 DEF Plain, TraceRecs
  <1>7. QED
    BY <1>1, <1>2, <1>4, <1>5, <1>6 DEF Lasting

\* A world put in the cache: what it pushes out is lost, and it is found there.
LEMMA LastingPut ==
    ASSUME CacheTrue, NEW s \in Sigs, NEW tier \in Tiers, NEW succeeds \in BOOLEAN,
           built' = Append(built, [tier |-> tier, succeeds |-> succeeds]),
           worlds' = Put(<<s, tier>>, Len(built) + 1),
           lost' = lost \cup (In(worlds) \ In(worlds')),
           tick' = tick
    PROVE  CacheTrue' /\ Lasting /\ \A w \in Nat : w = Len(built) + 1 => Cached(s, tier, w)'
  <1> DEFINE key == <<s, tier>>
  <1>1. PICK w \in Nat : w = Len(built) + 1
    BY DEF CacheTrue
  <1>2. /\ built \in Seq([tier : Tiers, succeeds : BOOLEAN]) /\ Len(built) \in Nat
        /\ built' \in Seq([tier : Tiers, succeeds : BOOLEAN])
        /\ Len(built') = w /\ \A x \in 1 .. Len(built) : built'[x] = built[x]
        /\ built'[w] = [tier |-> tier, succeeds |-> succeeds]
    BY <1>1 DEF CacheTrue
  <1>3. PICK kept \in SUBSET DOMAIN worlds :
          worlds' = [k \in kept \cup {key} |-> IF k = key THEN [at |-> tick, world |-> w] ELSE worlds[k]]
    BY <1>1 DEF Put
  <1>4. key \in Sigs \X Tiers /\ key[2] = tier /\ key = <<s, tier>> /\ w = Len(built) + 1
    BY <1>1
  <1> HIDE DEF key
  <1>5. /\ DOMAIN worlds' = kept \cup {key}
        /\ worlds'[key].world = w /\ worlds'[key].at = tick
        /\ \A k \in kept \ {key} : worlds'[k] = worlds[k]
    BY <1>3
  <1>6. CacheTrue'
    <2>1. ASSUME NEW k \in DOMAIN worlds'
          PROVE  /\ worlds'[k].at \in Nat /\ worlds'[k].at <= tick'
                 /\ worlds'[k].world \in 1 .. Len(built') /\ built'[worlds'[k].world].tier = k[2]
      <3>1. CASE k = key
        <4>1. tick \in Nat
          BY DEF CacheTrue
        <4>2. worlds'[k].at = tick /\ worlds'[k].world = w
          BY <1>5, <3>1
        <4>3. worlds'[k].at \in Nat /\ worlds'[k].at <= tick'
          BY <4>1, <4>2
        <4>4. worlds'[k].world \in 1 .. Len(built')
          BY <4>2, <1>4, <1>2
        <4>5. built'[w].tier = tier
          BY <1>2
        <4>6. built'[worlds'[k].world].tier = k[2]
          BY <4>2, <4>5, <1>4, <3>1
        <4>7. QED
          BY <4>3, <4>4, <4>6
      <3>2. CASE k # key
        <4>1. k \in DOMAIN worlds /\ worlds'[k] = worlds[k]
          BY <1>5, <3>2
        <4>2. /\ worlds[k].at \in Nat /\ worlds[k].at <= tick
              /\ worlds[k].world \in 1 .. Len(built) /\ built[worlds[k].world].tier = k[2]
          BY <4>1 DEF CacheTrue
        <4>3. QED
          BY <1>2, <4>1, <4>2
      <3>3. QED
        BY <3>1, <3>2
    <2>2. ASSUME NEW j \in DOMAIN worlds', NEW k \in DOMAIN worlds', worlds'[j].world = worlds'[k].world
          PROVE  j = k
      <3>1. \A l \in DOMAIN worlds' \ {key} : l \in DOMAIN worlds /\ worlds'[l].world = worlds[l].world
                                           /\ worlds'[l].world # w
        <4>1. TAKE l \in DOMAIN worlds' \ {key}
        <4>2. l \in DOMAIN worlds /\ worlds'[l] = worlds[l]
          BY <1>5
        <4>3. worlds[l].world \in 1 .. Len(built)
          BY <4>2 DEF CacheTrue
        <4>4. QED
          BY <4>2, <4>3, <1>4, <1>2
      <3>2. CASE j = key \/ k = key
        BY <1>5, <2>2, <3>1, <3>2
      <3>3. CASE j # key /\ k # key
        BY <2>2, <3>1, <3>3 DEF CacheTrue
      <3>4. QED
        BY <3>2, <3>3
    <2>3. DOMAIN worlds' \subseteq Sigs \X Tiers
      BY <1>4, <1>5 DEF CacheTrue
    <2>4. QED
      BY <1>2, <2>1, <2>2, <2>3 DEF CacheTrue
  <1>7. Cached(s, tier, w)'
    <2>1. tick \in Nat /\ WorldTtl \in Nat /\ WorldTtl > 0
      BY WorldsAssumption DEF CacheTrue
    <2>2. tick' - worlds'[key].at < WorldTtl
      BY <2>1, <1>5
    <2>3. QED
      BY <1>4, <1>5, <2>2 DEF Cached, Within
  <1>8. ASSUME NEW z \in Sigs, NEW k \in Tiers, NEW x \in Nat, Cached(z, k, x)
        PROVE  Accounted(z, k, x)'
    <2>1. <<z, k>> \in DOMAIN worlds /\ worlds[<<z, k>>].world = x
      BY <1>8 DEF Cached
    <2>2. x \in In(worlds) /\ x # w
      BY <2>1, <1>4, <1>2 DEF In, CacheTrue
    <2>3. CASE x \notin In(worlds')
      BY <2>2, <2>3 DEF Accounted
    <2>4. CASE x \in In(worlds')
      <3>1. PICK j \in DOMAIN worlds' : worlds'[j].world = x
        BY <2>4 DEF In
      <3>2. j \in kept \ {key} /\ worlds[j].world = x
        BY <3>1, <1>5, <2>2
      <3>3. j = <<z, k>>
        BY <3>2, <2>1 DEF CacheTrue
      <3>4. QED
        BY <1>5, <1>8, <2>1, <3>2, <3>3 DEF Accounted, Cached, Within
    <2>5. QED
      BY <2>3, <2>4
  <1>9. \A z \in Sigs, k \in Tiers, x \in Nat : Accounted(z, k, x) => Accounted(z, k, x)'
    BY <1>8 DEF Accounted
  <1>10. \A t \in TraceRecs : Placed(t) => Placed(t)' /\ built'[t.world] = built[t.world]
    BY <1>2 DEF Placed
  <1>11. \A t \in TraceRecs : Plain(t) => Plain(t)'
    BY <1>9, <1>10 DEF Plain, TraceRecs
  <1>12. QED
    BY <1>4, <1>6, <1>7, <1>9, <1>10, <1>11 DEF Lasting

\* An answer of a good trace leaves every page, the store and every request good.
LEMMA Answering ==
    ASSUME WorldsInv, CacheTrue', Lasting, NEW v \in Viewers, asked[v] # None,
           NEW t, Answer(v, asked[v], t), UNCHANGED tick,
           t \in TraceRecs, Placed(t)', t.sig = asked[v].sig,
           ~asked[v].changed => Plain(t)',
           asked[v].changed /\ asked[v].pinned # "best" => t.world = asked[v].was \/ asked[v].was \in lost'
    PROVE  WorldsInv'
  <1> DEFINE r == asked[v]
  <1>1. r \in RequestRecs /\ r.sig \in Sigs /\ r.was \in Nat /\ r.pinned \in Pins
    BY DEF WorldsInv, RequestsTrue, RequestRecs
  <1>2. asked' = [asked EXCEPT ![v] = None]
    BY DEF Answer
  <1>3. RequestsTrue'
    <2>1. asked' \in [Viewers -> RequestRecs \cup {None}]
      BY <1>2 DEF WorldsInv, RequestsTrue
    <2>2. ASSUME NEW u \in Viewers, asked'[u] # None
          PROVE  Owed(asked[u])' 
      <3>1. asked'[u] = asked[u] /\ Owed(asked[u])
        BY <1>2, <2>2 DEF WorldsInv, RequestsTrue
      <3>2. QED
        BY <3>1, NoneApart DEF Owed, Lasting, RequestRecs
    <2>3. QED
      BY <2>1, <2>2 DEF RequestsTrue
  <1>4. CASE r.changed
    <2>1. PICK t2 \in TraceRecs : /\ rerun' = [rerun EXCEPT ![v] = t2]
                                 /\ t2.tier = t.tier /\ t2.world = t.world
                                 /\ t2.was = r.was /\ t2.pinned = r.pinned
      <3>1. [t EXCEPT !.was = r.was, !.pinned = r.pinned] \in TraceRecs
        BY <1>1 DEF TraceRecs
      <3>2. rerun' = [rerun EXCEPT ![v] = [t EXCEPT !.was = r.was, !.pinned = r.pinned]]
        BY <1>4 DEF Answer
      <3>3. QED
        BY <3>1, <3>2 DEF TraceRecs
    <2>2. UNCHANGED <<base, traces>>
      BY <1>4 DEF Answer
    <2>3. StoreTrue'
      BY <2>2 DEF WorldsInv, StoreTrue, Lasting, Plain
    <2>4. PagesTrue'
      BY <2>1, <2>2, <1>4 DEF WorldsInv, PagesTrue, Lasting, Placed
    <2>5. QED
      BY <1>3, <2>3, <2>4 DEF WorldsInv
  <1>5. CASE ~r.changed
    <2>1. base' = [base EXCEPT ![v] = t] /\ traces' = Stored(r.sig, t) /\ rerun' = rerun
      BY <1>5 DEF Answer
    <2>2. StoreTrue'
      <3>1. PICK kept \in SUBSET DOMAIN traces :
              traces' = [u \in kept \cup {r.sig} |->
                           IF u = r.sig THEN [at |-> tick, trace |-> t] ELSE traces[u]]
        BY <2>1 DEF Stored
      <3>2. QED
        BY <3>1, <1>1, <1>5 DEF WorldsInv, StoreTrue, Lasting, Plain
    <2>3. PagesTrue'
      BY <2>1, <1>5 DEF WorldsInv, PagesTrue, Lasting, Placed
    <2>4. QED
      BY <1>3, <2>2, <2>3 DEF WorldsInv
  <1>6. QED
    BY <1>1, <1>4, <1>5

\* What build does with the world a request was given.
LEMMA Tracing ==
    ASSUME WorldsInv, CacheTrue', Lasting, NEW v \in Viewers, NEW r \in RequestRecs, r = asked[v],
           NEW w \in Nat, NEW agrees \in BOOLEAN, Traced(v, w, agrees), UNCHANGED tick,
           w \in 1 .. Len(built'), built'[w].tier = r.tier, built'[w].succeeds = agrees,
           Accounted(r.sig, r.tier, w)',
           r.changed /\ r.pinned # "best" => w = r.was \/ r.was \in lost'
    PROVE  WorldsInv'
  <1> DEFINE t == [sig |-> r.sig, tier |-> r.tier, world |-> w, was |-> 0, pinned |-> r.pinned]
  <1>1. r \in RequestRecs /\ Owed(r) /\ asked[v] # None
    BY NoneApart DEF WorldsInv, RequestsTrue
  <1>2. t \in TraceRecs /\ Placed(t)' /\ t.sig = r.sig /\ t.tier = r.tier /\ t.world = w
    BY <1>1 DEF RequestRecs, TraceRecs, Placed
  <1>3. (t.tier = "now" => agrees) => Plain(t)'
    BY <1>2 DEF Plain
  <1> HIDE DEF t
  <1>4. CASE r.pinned = "best" /\ r.tier = "at_slot" /\ ~agrees /\ ~r.changed
    <2>1. /\ asked' = [asked EXCEPT ![v] = [r EXCEPT !.tier = "now", !.stage = "look", !.held = t]]
          /\ UNCHANGED <<base, rerun, traces>>
      BY <1>4 DEF Traced, t
    <2>2. PICK q \in RequestRecs : /\ asked' = [asked EXCEPT ![v] = q]
                                  /\ q.sig = r.sig /\ q.changed = r.changed /\ q.pinned = r.pinned /\ q.held = t
      <3>1. [r EXCEPT !.tier = "now"] \in RequestRecs
        BY <1>1 DEF RequestRecs, Tiers
      <3>2. [[r EXCEPT !.tier = "now"] EXCEPT !.stage = "look"] \in RequestRecs
        BY <3>1 DEF RequestRecs
      <3>3. [r EXCEPT !.tier = "now", !.stage = "look", !.held = t] \in RequestRecs
        BY <3>2, <1>2 DEF RequestRecs
      <3>4. QED
        BY <2>1, <3>3 DEF RequestRecs
    <2>3. Owed(q)'
      <3>1. t # None /\ Plain(t)' /\ t.tier = "at_slot"
        BY <1>2, <1>3, <1>4, NoneApart
      <3>2. QED
        BY <2>2, <3>1, <1>2, <1>4 DEF Owed
    <2>4. RequestsTrue'
      <3>1. \A u \in Viewers \ {v} : asked[u] # None => Owed(asked[u])'
        <4>1. TAKE u \in Viewers \ {v}
        <4>2. asked'[u] = asked[u]
          BY <2>2
        <4>3. QED
          BY <4>2 DEF Owed, Lasting, RequestRecs, WorldsInv, RequestsTrue
      <3>2. QED
        BY <2>2, <2>3, <3>1 DEF WorldsInv, RequestsTrue
    <2>5. StoreTrue' /\ PagesTrue'
      BY <2>1 DEF WorldsInv, StoreTrue, PagesTrue, Lasting, Plain
    <2>6. QED
      BY <2>4, <2>5 DEF WorldsInv
  <1>5. CASE ~(r.pinned = "best" /\ r.tier = "at_slot" /\ ~agrees /\ ~r.changed)
    <2>1. Answer(v, r, Better(r, t, agrees))
      BY <1>5 DEF Traced, t
    <2>2. CASE r.pinned = "best" /\ r.tier = "now" /\ ~agrees
      <3>1. Better(r, t, agrees) = r.held
        BY <2>2 DEF Better
      <3>2. Plain(r.held) /\ r.held.sig = r.sig /\ ~r.changed
        BY <1>1, <2>2 DEF Owed
      <3>3. Plain(r.held)' /\ Placed(r.held)' /\ r.held \in TraceRecs
        BY <3>2 DEF Lasting, Plain
      <3>4. QED
        BY <1>1, <2>1, <3>1, <3>2, <3>3, Answering
    <2>3. CASE ~(r.pinned = "best" /\ r.tier = "now" /\ ~agrees)
      <3>1. Better(r, t, agrees) = t
        BY <2>3 DEF Better
      <3>2. ~r.changed => Plain(t)'
        BY <1>1, <1>2, <1>3, <1>5, <2>3 DEF Owed, RequestRecs, Tiers
      <3>3. QED
        BY <1>1, <2>1, <3>1, <3>2, <1>2, Answering
    <2>4. QED
      BY <2>2, <2>3
  <1>6. QED
    BY <1>4, <1>5

LEMMA WorldsInitInv == WorldsInit => WorldsInv
  BY DEF WorldsInit, WorldsInv, CacheTrue, StoreTrue, PagesTrue, RequestsTrue

\* A request changes, nothing else does.
LEMMA Asking ==
    ASSUME WorldsInv, CacheTrue', Lasting, UNCHANGED <<traces, base, rerun>>,
           NEW v \in Viewers, NEW q \in RequestRecs, asked' = [asked EXCEPT ![v] = q], Owed(q)'
    PROVE  WorldsInv'
  <1>1. StoreTrue' /\ PagesTrue'
    BY DEF WorldsInv, StoreTrue, PagesTrue, Lasting, Plain
  <1>2. ASSUME NEW u \in Viewers \ {v}, asked[u] # None
        PROVE  Owed(asked[u])' /\ asked'[u] = asked[u]
    <2>1. asked'[u] = asked[u] /\ Owed(asked[u])
      BY <1>2 DEF WorldsInv, RequestsTrue
    <2>2. QED
      BY <2>1 DEF Owed, Lasting, RequestRecs
  <1>3. asked' \in [Viewers -> RequestRecs \cup {None}] /\ asked'[v] = q
    BY DEF WorldsInv, RequestsTrue
  <1>4. RequestsTrue'
    BY <1>2, <1>3 DEF RequestsTrue
  <1>5. QED
    BY <1>1, <1>4 DEF WorldsInv

\* Steps that only keep: the caches and the books of the pages as they were.
LEMMA Keeping ==
    ASSUME WorldsInv, CacheTrue', Lasting, UNCHANGED <<traces, base, rerun, asked>>
    PROVE  WorldsInv'
  <1>1. StoreTrue' /\ PagesTrue'
    BY DEF WorldsInv, StoreTrue, PagesTrue, Lasting, Plain
  <1>2. \A v \in Viewers : asked[v] # None => Owed(asked[v])'
    BY DEF WorldsInv, RequestsTrue, Owed, Lasting, RequestRecs
  <1>3. QED
    BY <1>1, <1>2 DEF WorldsInv, RequestsTrue

\* One step per action; each leaves every accounted trace accounted (Lasting).
LEMMA WorldsStepInv == WorldsInv /\ [WorldsNext]_worldVars => WorldsInv'
  <1> SUFFICES ASSUME WorldsInv, [WorldsNext]_worldVars
               PROVE  WorldsInv'
    OBVIOUS
  <1>1. CacheTrue
    BY DEF WorldsInv
  <1>2. ASSUME NEW v \in Viewers, NEW s \in Sigs, View(v, s)
        PROVE  WorldsInv'
    <2>1. CacheTrue' /\ Lasting
      BY <1>1, <1>2, LastingStill DEF View
    <2>2. CASE Hit(traces, s, TraceTtl)
      <3>1. /\ base' = [base EXCEPT ![v] = traces[s].trace] /\ UNCHANGED <<asked, rerun, traces>>
            /\ Plain(traces[s].trace)
        BY <1>2, <2>2 DEF View, WorldsInv, StoreTrue, Hit
      <3>2. StoreTrue'
        BY <2>1, <3>1 DEF WorldsInv, StoreTrue, Lasting, Plain
      <3>3. PagesTrue'
        BY <2>1, <3>1 DEF WorldsInv, PagesTrue, Lasting, Plain
      <3>4. RequestsTrue'
        BY <2>1, <3>1 DEF WorldsInv, RequestsTrue, Owed, Lasting, RequestRecs
      <3>5. QED
        BY <2>1, <3>2, <3>3, <3>4 DEF WorldsInv
    <2>3. CASE ~Hit(traces, s, TraceTtl)
      <3>1. PICK q : q = Request(s, "best", FALSE, 0)
        OBVIOUS
      <3>2. asked' = [asked EXCEPT ![v] = q] /\ UNCHANGED <<base, rerun, traces>>
        BY <1>2, <2>3, <3>1 DEF View
      <3>3. q \in RequestRecs /\ ~q.changed /\ q.pinned = "best" /\ q.tier = "at_slot" /\ q.held = None
        BY <3>1 DEF Request, RequestRecs, Pins, Tiers
      <3>4. QED
        BY <2>1, <3>2, <3>3, Asking DEF Owed
    <2>4. QED
      BY <2>2, <2>3
  <1>3. ASSUME NEW v \in Viewers, NEW pinned \in Pins, Rerun(v, pinned)
        PROVE  WorldsInv'
    <2>1. CacheTrue' /\ Lasting
      BY <1>1, <1>3, LastingStill DEF Rerun
    <2>2. PICK b : b = base[v]
      OBVIOUS
    <2>3. b # None /\ Plain(b) /\ pinned \in {b.tier, "best"} /\ b \in TraceRecs
      BY <1>3, <2>2 DEF Rerun, WorldsInv, PagesTrue, Plain
    <2>4. PICK q : q = Request(b.sig, pinned, TRUE, b.world)
      OBVIOUS
    <2>5. asked' = [asked EXCEPT ![v] = q] /\ UNCHANGED <<base, rerun, traces>>
      BY <1>3, <2>2, <2>4 DEF Rerun
    <2>6. /\ q \in RequestRecs /\ q.changed /\ q.pinned = pinned /\ q.held = None /\ q.stage = "look"
          /\ q.sig = b.sig /\ q.was = b.world
          /\ pinned = "best" => q.tier = "at_slot"
          /\ pinned # "best" => q.tier = b.tier
      BY <2>3, <2>4 DEF Request, RequestRecs, TraceRecs, Pins, Tiers
    <2>7. Plain(b)'
      BY <2>1, <2>3 DEF Lasting
    <2>8. Owed(q)'
      <3>1. pinned # "best" => q.tier = q.pinned /\ Accounted(q.sig, q.tier, q.was)'
        BY <2>3, <2>6, <2>7 DEF Plain
      <3>2. QED
        BY <2>6, <3>1 DEF Owed
    <2>9. QED
      BY <2>1, <2>5, <2>6, <2>8, Asking
  <1>4. ASSUME NEW v \in Viewers, Look(v)
        PROVE  WorldsInv'
    <2>1. CacheTrue' /\ Lasting /\ UNCHANGED <<tick, worlds, built, lost>>
      BY <1>1, <1>4, LastingStill DEF Look
    <2>2. PICK r : r = asked[v]
      OBVIOUS
    <2>3. r \in RequestRecs /\ Owed(r) /\ KeyOf(r) = <<r.sig, r.tier>> /\ r # None
      BY <1>4, <2>2 DEF Look, WorldsInv, RequestsTrue, KeyOf, Owed
    <2>4. CASE Hit(worlds, KeyOf(r), WorldTtl)
      <3>1. PICK w \in Nat : w = worlds[KeyOf(r)].world
        BY <1>1, <2>4 DEF CacheTrue, Hit
      <3>2. /\ w \in 1 .. Len(built) /\ built[w].tier = r.tier /\ built[w].succeeds \in BOOLEAN
            /\ Cached(r.sig, r.tier, w)
        <4>1. <<r.sig, r.tier>> \in DOMAIN worlds /\ w = worlds[<<r.sig, r.tier>>].world
          BY <2>3, <2>4, <3>1 DEF Hit
        <4>2. w \in 1 .. Len(built) /\ built[w].tier = r.tier
          BY <1>1, <4>1 DEF CacheTrue
        <4>3. built[w] \in [tier : Tiers, succeeds : BOOLEAN]
          <5>1. built \in Seq([tier : Tiers, succeeds : BOOLEAN])
            BY <1>1 DEF CacheTrue
          <5>2. QED
            BY <4>2, <5>1, ElementOf
        <4>4. QED
          BY <2>3, <2>4, <4>1, <4>2, <4>3 DEF Cached, Hit
      <3>3. PICK agrees \in BOOLEAN : agrees = built[w].succeeds
        BY <3>2
      <3>4. Traced(v, w, agrees)
        BY <1>4, <2>2, <2>4, <3>1, <3>3 DEF Look
      <3>5. Accounted(r.sig, r.tier, w)'
        BY <2>1, <3>2 DEF Accounted, Cached, Within
      <3>6. r.changed /\ r.pinned # "best" => w = r.was \/ r.was \in lost'
        BY <2>1, <2>3, <3>2 DEF Owed, Accounted, Cached
      <3>7. w \in 1 .. Len(built') /\ built'[w].tier = r.tier /\ built'[w].succeeds = agrees
        BY <2>1, <3>2, <3>3
      <3>8. QED
        BY <2>1, <2>2, <2>3, <3>4, <3>5, <3>6, <3>7, Tracing
    <2>5. CASE ~Hit(worlds, KeyOf(r), WorldTtl)
      <3>1. PICK q : q = [r EXCEPT !.stage = "build"]
        OBVIOUS
      <3>2. asked' = [asked EXCEPT ![v] = q] /\ UNCHANGED <<base, rerun, traces>>
        BY <1>4, <2>2, <2>5, <3>1 DEF Look
      <3>3. /\ q \in RequestRecs /\ q.sig = r.sig /\ q.changed = r.changed /\ q.pinned = r.pinned
            /\ q.was = r.was /\ q.tier = r.tier /\ q.held = r.held
        BY <2>3, <3>1 DEF RequestRecs
      <3>4. ~Cached(r.sig, r.tier, r.was)
        BY <2>3, <2>5 DEF Cached, Hit
      <3>5. Owed(r)' /\ (r.changed /\ r.pinned # "best" => r.was \in lost')
        BY <2>1, <2>3, <3>4 DEF Owed, Lasting, Accounted, RequestRecs
      <3>6. Owed(q)'
        BY <3>3, <3>5 DEF Owed
      <3>7. QED
        BY <2>1, <3>2, <3>3, <3>6, Asking
    <2>6. QED
      BY <2>4, <2>5
  <1>5. ASSUME NEW v \in Viewers, Fail(v)
        PROVE  WorldsInv'
    <2>1. CacheTrue' /\ Lasting /\ UNCHANGED tick
      BY <1>1, <1>5, LastingStill DEF Fail
    <2>2. PICK r : r = asked[v]
      OBVIOUS
    <2>3. r \in RequestRecs /\ Owed(r) /\ r # None
      BY <1>5, <2>2 DEF Fail, WorldsInv, RequestsTrue, Owed
    <2>4. CASE r.held # None
      <3>1. Answer(v, r, r.held)
        BY <1>5, <2>2, <2>4 DEF Fail
      <3>2. /\ r.held \in TraceRecs /\ Plain(r.held)' /\ Placed(r.held)'
            /\ r.held.sig = r.sig /\ ~r.changed
        BY <2>1, <2>3, <2>4 DEF Owed, Plain, Lasting
      <3>3. QED
        BY <2>1, <2>2, <2>3, <3>1, <3>2, Answering
    <2>5. CASE r.held = None
      <3>1. asked' = [asked EXCEPT ![v] = None] /\ UNCHANGED <<base, rerun, traces>>
        BY <1>5, <2>2, <2>5 DEF Fail
      <3>2. StoreTrue' /\ PagesTrue'
        BY <2>1, <3>1 DEF WorldsInv, StoreTrue, PagesTrue, Lasting, Plain
      <3>3. asked' \in [Viewers -> RequestRecs \cup {None}]
        BY <3>1 DEF WorldsInv, RequestsTrue
      <3>4. ASSUME NEW u \in Viewers, asked'[u] # None
            PROVE  Owed(asked[u])'
        <4>1. asked'[u] = asked[u] /\ Owed(asked[u])
          BY <3>1, <3>4 DEF WorldsInv, RequestsTrue
        <4>2. QED
          BY <4>1, <2>1 DEF Owed, Lasting, RequestRecs
      <3>5. QED
        BY <2>1, <3>2, <3>3, <3>4 DEF WorldsInv, RequestsTrue
    <2>6. QED
      BY <2>4, <2>5
  <1>6. ASSUME NEW v \in Viewers, NEW succeeds \in BOOLEAN, Build(v, succeeds)
        PROVE  WorldsInv'
    <2>1. PICK r : r = asked[v]
      OBVIOUS
    <2>2. r \in RequestRecs /\ Owed(r) /\ KeyOf(r) = <<r.sig, r.tier>> /\ r # None /\ r.stage = "build"
      BY <1>6, <2>1 DEF Build, WorldsInv, RequestsTrue, KeyOf, Owed
    <2>3. r.sig \in Sigs /\ r.tier \in Tiers
      BY <2>2 DEF RequestRecs
    <2>4. PICK w \in Nat : w = Len(built) + 1
      BY <1>1 DEF CacheTrue
    <2>5. /\ built' = Append(built, [tier |-> r.tier, succeeds |-> succeeds])
          /\ worlds' = Put(<<r.sig, r.tier>>, Len(built) + 1)
          /\ lost' = lost \cup (In(worlds) \ In(worlds')) /\ tick' = tick
          /\ Traced(v, w, succeeds)
      BY <1>6, <2>1, <2>2, <2>4 DEF Build
    <2>6. CacheTrue' /\ Lasting /\ Cached(r.sig, r.tier, w)'
      BY <1>1, <2>3, <2>4, <2>5, LastingPut
    <2>7. w \in 1 .. Len(built') /\ built'[w].tier = r.tier /\ built'[w].succeeds = succeeds
      BY <1>1, <2>4, <2>5, <2>3 DEF CacheTrue
    <2>8. r.changed /\ r.pinned # "best" => r.was \in lost'
      BY <2>2, <2>6 DEF Owed, Lasting
    <2>9. Accounted(r.sig, r.tier, w)'
      BY <2>6 DEF Accounted
    <2>10. QED
      BY <2>1, <2>2, <2>5, <2>6, <2>7, <2>8, <2>9, Tracing
  <1>7. ASSUME NEW tier \in Tiers, NEW succeeds \in BOOLEAN, Profile(tier, succeeds)
        PROVE  WorldsInv'
    BY <1>1, <1>7, LastingGrown, Keeping DEF Profile
  <1>8. CASE Tick
    BY <1>1, <1>8, LastingTick, Keeping DEF Tick
  <1>9. CASE UNCHANGED worldVars
    BY <1>1, <1>9, LastingStill, Keeping DEF worldVars
  <1>10. QED
    BY <1>2, <1>3, <1>4, <1>5, <1>6, <1>7, <1>8, <1>9 DEF WorldsNext, Pins

LEMMA WorldsInvHonest == WorldsInv => TracesHonest
  BY DEF WorldsInv, PagesTrue, Plain, Placed, TracesHonest

\* For every number of transactions and viewers, and however many worlds are
\* built: a trace ran in a world of the tier it names, one of current state that
\* nobody pinned agrees with the chain, and a pinned re-run is of its base's
\* world unless that left the cache.
THEOREM WorldsCorrect == WorldsSpec => []TracesHonest
  <1>1. WorldsSpec => []WorldsInv
    BY WorldsInitInv, WorldsStepInv, PTL DEF WorldsSpec
  <1>2. QED
    BY <1>1, WorldsInvHonest, PTL

-----------------------------------------------------------------------------
\* ElfCache

Entries == [key : Upgradeable \X Nat, elf : Nat]

\* The cache is a map, and a binary is never kept under the slot of a later one.
EntriesTrue(s) ==
    /\ s \in Seq(Entries)
    /\ \A i \in 1 .. Len(s) : s[i].elf >= s[i].key[2]
    /\ \A i, j \in 1 .. Len(s) : s[i].key = s[j].key => i = j

WithinBudget(s) == Len(s) > 1 => ElfBytes(s) <= ElfBudget

\* A fetch knows a slot its program had, and what it read since is no older.
FetchTrue(f) ==
    /\ f.stage # "idle" => f.program \in Upgradeable
    /\ f.slot \in Nat /\ f.elf \in Nat
    /\ f.stage \in {"look", "read"} => f.slot <= upgraded[f.program]
    /\ f.stage \in {"store", "done"} => f.elf >= f.slot

FetchRecs == [stage : {"idle", "look", "read", "store", "done"},
              program : Upgradeable \cup {NoFetch.program}, slot : Nat, elf : Nat]

ElfInv ==
    /\ upgraded \in [Upgradeable -> Nat]
    /\ EntriesTrue(elfs) /\ WithinBudget(elfs)
    /\ fetch \in [Fetchers -> FetchRecs]
    /\ \A t \in Fetchers : FetchTrue(fetch[t])

\* The elements of a sequence without its k-th.
LEMMA RemoveAtProperties ==
    ASSUME NEW S, NEW s \in Seq(S), NEW k \in 1 .. Len(s)
    PROVE  /\ RemoveAt(s, k) \in Seq(S) /\ Len(RemoveAt(s, k)) = Len(s) - 1
           /\ \A i \in 1 .. Len(s) - 1 : RemoveAt(s, k)[i] = IF i < k THEN s[i] ELSE s[i + 1]
  <1> DEFINE a == SubSeq(s, 1, k - 1)
             b == SubSeq(s, k + 1, Len(s))
  <1>1. Len(s) \in Nat /\ k \in Nat /\ 1 <= k /\ k <= Len(s)
    OBVIOUS
  <1>2. a \in Seq(S) /\ Len(a) = k - 1 /\ \A i \in 1 .. k - 1 : a[i] = s[i]
    BY <1>1
  <1>3. b \in Seq(S) /\ Len(b) = Len(s) - k /\ \A i \in 1 .. Len(s) - k : b[i] = s[k + i]
    BY <1>1
  <1>4. RemoveAt(s, k) = a \o b
    BY DEF RemoveAt
  <1> HIDE DEF a, b
  <1>5. /\ a \o b \in Seq(S) /\ Len(a \o b) = Len(s) - 1
        /\ \A i \in 1 .. Len(a \o b) : (a \o b)[i] = IF i <= Len(a) THEN a[i] ELSE b[i - Len(a)]
    <2>1. a \in Seq(S) /\ b \in Seq(S) /\ Len(a) + Len(b) = Len(s) - 1
      BY <1>1, <1>2, <1>3
    <2>2. a \o b \in Seq(S) /\ Len(a \o b) = Len(a) + Len(b)
      BY <2>1
    <2>3. \A i \in 1 .. Len(a) + Len(b) : (a \o b)[i] = IF i <= Len(a) THEN a[i] ELSE b[i - Len(a)]
      BY <2>1
    <2>4. QED
      BY <2>1, <2>2, <2>3
  <1>6. ASSUME NEW i \in 1 .. Len(s) - 1
        PROVE  (a \o b)[i] = IF i < k THEN s[i] ELSE s[i + 1]
    <2>1. CASE i < k
      BY <1>1, <1>2, <1>5, <2>1
    <2>2. CASE ~(i < k)
      <3>1. i - (k - 1) \in 1 .. Len(s) - k /\ k + (i - (k - 1)) = i + 1
        BY <1>1, <2>2
      <3>2. (a \o b)[i] = b[i - (k - 1)]
        BY <1>1, <1>2, <1>5, <2>2
      <3>3. QED
        BY <1>1, <1>3, <2>2, <3>1, <3>2
    <2>3. QED
      BY <2>1, <2>2
  <1>7. QED
    BY <1>4, <1>5, <1>6

\* store_elf first takes the entry of its key out, of which there is at most one.
LEMMA WithoutKey ==
    ASSUME EntriesTrue(elfs), NEW key
    PROVE  /\ EntriesTrue(Without(key))
           /\ \A i \in 1 .. Len(Without(key)) : Without(key)[i].key # key
           /\ Len(Without(key)) <= Len(elfs)
           /\ ToSet(Without(key)) = {e \in ToSet(elfs) : e.key # key}
           /\ (\E e \in ToSet(elfs) : e.key = key) => Len(Without(key)) = Len(elfs) - 1
  <1> DEFINE held == {i \in DOMAIN elfs : elfs[i].key = key}
             w == Without(key)
  <1>1. elfs \in Seq(Entries) /\ DOMAIN elfs = 1 .. Len(elfs) /\ Len(elfs) \in Nat
    BY DEF EntriesTrue
  <1>2. CASE held = {}
    <2>1. w = elfs
      BY <1>2 DEF Without
    <2>2. \A i \in 1 .. Len(elfs) : elfs[i].key # key
      BY <1>1, <1>2
    <2>3. ToSet(elfs) = {e \in ToSet(elfs) : e.key # key}
      BY <1>1, <2>2 DEF ToSet
    <2>4. ~\E e \in ToSet(elfs) : e.key = key
      BY <1>1, <2>2 DEF ToSet
    <2>5. /\ EntriesTrue(elfs) /\ \A i \in 1 .. Len(elfs) : elfs[i].key # key
          /\ Len(elfs) <= Len(elfs)
      BY <1>1, <2>2
    <2>6. QED
      BY <2>1, <2>3, <2>4, <2>5, Zenon
  <1>3. CASE held # {}
    <2>1. PICK k \in held : w = RemoveAt(elfs, k)
      BY <1>3 DEF Without
    <2>2. k \in 1 .. Len(elfs) /\ elfs[k].key = key
      BY <1>1, <2>1
    <2>3. /\ RemoveAt(elfs, k) \in Seq(Entries) /\ Len(RemoveAt(elfs, k)) = Len(elfs) - 1
          /\ \A i \in 1 .. Len(elfs) - 1 :
                RemoveAt(elfs, k)[i] = IF i < k THEN elfs[i] ELSE elfs[i + 1]
      BY <1>1, <2>2, RemoveAtProperties
    <2>4. /\ w \in Seq(Entries) /\ Len(w) = Len(elfs) - 1 /\ DOMAIN w = 1 .. Len(elfs) - 1
          /\ \A i \in 1 .. Len(elfs) - 1 : w[i] = IF i < k THEN elfs[i] ELSE elfs[i + 1]
      BY <2>1, <2>3
    <2> HIDE DEF w
    <2>5. \A i \in 1 .. Len(w) : \E j \in 1 .. Len(elfs) :
             j # k /\ w[i] = elfs[j] /\ j = IF i < k THEN i ELSE i + 1
      BY <1>1, <2>2, <2>4
    <2>6. \A j \in 1 .. Len(elfs) : j # k => elfs[j].key # key
      BY <2>2 DEF EntriesTrue
    <2>7. EntriesTrue(w)
      <3>1. \A i \in 1 .. Len(w) : w[i].elf >= w[i].key[2]
        BY <2>5 DEF EntriesTrue
      <3>2. ASSUME NEW i1 \in 1 .. Len(w), NEW i2 \in 1 .. Len(w), w[i1].key = w[i2].key
            PROVE  i1 = i2
        <4>1. PICK j1 \in 1 .. Len(elfs) : w[i1] = elfs[j1] /\ j1 = IF i1 < k THEN i1 ELSE i1 + 1
          BY <2>5
        <4>2. PICK j2 \in 1 .. Len(elfs) : w[i2] = elfs[j2] /\ j2 = IF i2 < k THEN i2 ELSE i2 + 1
          BY <2>5
        <4>3. j1 = j2
          BY <3>2, <4>1, <4>2 DEF EntriesTrue
        <4>4. QED
          BY <4>1, <4>2, <4>3, <2>2
      <3>3. QED
        BY <2>4, <3>1, <3>2 DEF EntriesTrue
    <2>8. \A i \in 1 .. Len(w) : w[i].key # key
      BY <2>5, <2>6
    <2>9. ToSet(w) = {e \in ToSet(elfs) : e.key # key}
      <3>1. ASSUME NEW e \in ToSet(w)
            PROVE  e \in ToSet(elfs) /\ e.key # key
        <4>1. PICK i \in 1 .. Len(w) : e = w[i]
          BY <2>4 DEF ToSet
        <4>2. QED
          BY <1>1, <4>1, <2>5, <2>8 DEF ToSet
      <3>2. ASSUME NEW e \in ToSet(elfs), e.key # key
            PROVE  e \in ToSet(w)
        <4>1. PICK j \in 1 .. Len(elfs) : e = elfs[j]
          BY <1>1 DEF ToSet
        <4>2. j # k
          BY <2>2, <3>2, <4>1
        <4>3. PICK i \in 1 .. Len(elfs) - 1 : w[i] = elfs[j]
          <5>1. CASE j < k
            <6>1. j \in 1 .. Len(elfs) - 1 /\ w[j] = elfs[j]
              BY <1>1, <2>2, <2>4, <5>1
            <6>2. QED
              BY <6>1
          <5>2. CASE j > k
            <6>1. j - 1 \in 1 .. Len(elfs) - 1 /\ ~(j - 1 < k) /\ (j - 1) + 1 = j
              BY <1>1, <2>2, <5>2
            <6>2. w[j - 1] = elfs[j]
              BY <2>4, <6>1
            <6>3. QED
              BY <6>1, <6>2
          <5>3. QED
            BY <4>2, <5>1, <5>2, <2>2
        <4>4. QED
          BY <2>4, <4>1, <4>3 DEF ToSet
      <3>3. QED
        BY <3>1, <3>2
    <2>10. QED
      BY <1>1, <2>4, <2>7, <2>8, <2>9 DEF w
  <1>4. QED
    BY <1>2, <1>3

\* The new entry goes last; no other has its key.
LEMMA AppendEntry ==
    ASSUME NEW s, EntriesTrue(s), NEW e \in Entries, e.elf >= e.key[2],
           \A i \in 1 .. Len(s) : s[i].key # e.key
    PROVE  /\ EntriesTrue(Append(s, e)) /\ Len(Append(s, e)) = Len(s) + 1
           /\ ToSet(Append(s, e)) = ToSet(s) \cup {e}
  <1>1. s \in Seq(Entries) /\ Len(s) \in Nat
    BY DEF EntriesTrue
  <1>2. /\ Append(s, e) \in Seq(Entries) /\ Len(Append(s, e)) = Len(s) + 1
        /\ \A i \in 1 .. Len(s) : Append(s, e)[i] = s[i]
        /\ Append(s, e)[Len(s) + 1] = e
        /\ DOMAIN Append(s, e) = 1 .. Len(s) + 1 /\ DOMAIN s = 1 .. Len(s)
    BY <1>1
  <1>3. \A i \in 1 .. Len(s) + 1 : i \in 1 .. Len(s) \/ i = Len(s) + 1
    BY <1>1
  <1>4. EntriesTrue(Append(s, e))
    BY <1>2, <1>3 DEF EntriesTrue
  <1>5. ToSet(Append(s, e)) = ToSet(s) \cup {e}
    <2>1. ASSUME NEW x \in ToSet(Append(s, e))
          PROVE  x \in ToSet(s) \cup {e}
      BY <1>2, <1>3 DEF ToSet
    <2>2. ASSUME NEW x \in ToSet(s)
          PROVE  x \in ToSet(Append(s, e))
      <3>1. PICK i \in 1 .. Len(s) : x = s[i]
        BY <1>2 DEF ToSet
      <3>2. i \in 1 .. Len(s) + 1 /\ x = Append(s, e)[i]
        BY <1>1, <1>2, <3>1
      <3>3. QED
        BY <1>2, <3>2 DEF ToSet
    <2>3. e \in ToSet(Append(s, e))
      <3>1. Len(s) + 1 \in DOMAIN Append(s, e)
        BY <1>1, <1>2
      <3>2. QED
        BY <1>2, <3>1 DEF ToSet
    <2>4. QED
      BY <2>1, <2>2, <2>3
  <1>6. QED
    BY <1>2, <1>4, <1>5

\* Entries go from the front until the rest fits; the last stays.
LEMMA EvictedTrue ==
    ASSUME NEW put, EntriesTrue(put), Len(put) >= 1
    PROVE  LET n == CHOOSE i \in 1..Len(put) :
                      /\ i = Len(put) \/ ElfBytes(SubSeq(put, i, Len(put))) <= ElfBudget
                      /\ \A j \in 1..i - 1 : ~(ElfBytes(SubSeq(put, j, Len(put))) <= ElfBudget)
           IN  EntriesTrue(SubSeq(put, n, Len(put))) /\ WithinBudget(SubSeq(put, n, Len(put)))
  <1> DEFINE fits == {i \in 1 .. Len(put) :
                        i = Len(put) \/ ElfBytes(SubSeq(put, i, Len(put))) <= ElfBudget}
             Good(i) == /\ i = Len(put) \/ ElfBytes(SubSeq(put, i, Len(put))) <= ElfBudget
                        /\ \A j \in 1..i - 1 : ~(ElfBytes(SubSeq(put, j, Len(put))) <= ElfBudget)
             n == CHOOSE i \in 1 .. Len(put) : Good(i)
  <1>1. put \in Seq(Entries) /\ Len(put) \in Nat /\ Len(put) \in 1 .. Len(put)
    BY DEF EntriesTrue
  <1>2. PICK m \in fits : \A j \in fits : m <= j
    <2>1. fits \in SUBSET (1 .. Len(put)) /\ fits # {}
      BY <1>1
    <2> HIDE DEF fits
    <2>2. QED
      BY <1>1, <2>1, SmallestOf
  <1>3. Good(m)
    <2>1. ASSUME NEW j \in 1 .. m - 1
          PROVE  ~(ElfBytes(SubSeq(put, j, Len(put))) <= ElfBudget)
      <3>1. j \in 1 .. Len(put) /\ j < m
        BY <1>1, <1>2
      <3>2. j \notin fits
        BY <1>1, <1>2, <3>1
      <3>3. QED
        BY <3>1, <3>2
    <2>2. QED
      BY <1>2, <2>1
  <1>4. n \in 1 .. Len(put) /\ Good(n)
    BY <1>2, <1>3
  <1>5. n = Len(put) \/ ElfBytes(SubSeq(put, n, Len(put))) <= ElfBudget
    BY <1>4
  <1>6. SUFFICES EntriesTrue(SubSeq(put, n, Len(put))) /\ WithinBudget(SubSeq(put, n, Len(put)))
    OBVIOUS
  <1> DEFINE s == SubSeq(put, n, Len(put))
  <1> HIDE DEF n, Good
  <1>7. /\ s \in Seq(Entries) /\ Len(s) = Len(put) - n + 1
        /\ \A i \in 1 .. Len(s) : s[i] = put[n + i - 1] /\ n + i - 1 \in 1 .. Len(put)
    BY <1>1, <1>4
  <1> HIDE DEF s
  <1>8. EntriesTrue(s)
    <2>1. \A i \in 1 .. Len(s) : s[i].elf >= s[i].key[2]
      BY <1>7 DEF EntriesTrue
    <2>2. ASSUME NEW i \in 1 .. Len(s), NEW j \in 1 .. Len(s), s[i].key = s[j].key
          PROVE  i = j
      <3>1. n + i - 1 \in 1 .. Len(put) /\ n + j - 1 \in 1 .. Len(put)
        BY <1>7
      <3>2. put[n + i - 1].key = put[n + j - 1].key
        BY <1>7, <2>2
      <3>3. n + i - 1 = n + j - 1
        BY <3>1, <3>2 DEF EntriesTrue
      <3>4. QED
        BY <1>4, <3>3
    <2>3. QED
      BY <1>7, <2>1, <2>2 DEF EntriesTrue
  <1>9. WithinBudget(s)
    BY <1>1, <1>4, <1>5, <1>7 DEF WithinBudget, s
  <1>10. QED
    BY <1>8, <1>9 DEF s

LEMMA ElfInitInv == ElfInit => ElfInv
  BY ElfAssumption
  DEF ElfInit, ElfInv, EntriesTrue, WithinBudget, FetchTrue, FetchRecs, NoFetch

\* An upgrade leaves older entries true; a store keeps the map and the budget.
LEMMA ElfStepInv == ElfInv /\ [ElfNext]_elfVars => ElfInv'
  <1> SUFFICES ASSUME ElfInv, [ElfNext]_elfVars
               PROVE  ElfInv'
    OBVIOUS
  <1>1. ASSUME NEW p \in Upgradeable, Upgrade(p)
        PROVE  ElfInv'
    BY <1>1 DEF Upgrade, ElfInv, FetchTrue, FetchRecs
  <1>2. ASSUME NEW t \in Fetchers, NEW p \in Upgradeable, ReadHeader(t, p)
        PROVE  ElfInv'
    BY <1>2 DEF ReadHeader, ElfInv, FetchTrue, FetchRecs
  <1>3. ASSUME NEW t \in Fetchers, LookUp(t)
        PROVE  ElfInv'
    <2> DEFINE f == fetch[t]
               found == {e \in ToSet(elfs) : e.key = ElfKey(f)}
    <2>1. f.stage = "look" /\ UNCHANGED <<upgraded, fetches>> /\ f \in FetchRecs /\ FetchTrue(f)
      BY <1>3 DEF LookUp, ElfInv
    <2>2. CASE found = {} /\ fetch' = [fetch EXCEPT ![t].stage = "read"] /\ UNCHANGED elfs
      BY <2>1, <2>2 DEF ElfInv, FetchTrue, FetchRecs
    <2>3. ASSUME NEW e \in found,
                 fetch' = [fetch EXCEPT ![t].stage = "done", ![t].elf = e.elf],
                 elfs' = Append(Without(ElfKey(f)), e)
          PROVE  ElfInv'
      <3> DEFINE key == ElfKey(f)
      <3>1. e \in ToSet(elfs) /\ e.key = key /\ key[2] = f.slot
        BY DEF ElfKey
      <3>2. e \in Entries /\ e.elf >= e.key[2]
        BY <3>1 DEF ElfInv, EntriesTrue, ToSet
      <3> HIDE DEF key
      <3>3. /\ EntriesTrue(Without(key)) /\ Len(Without(key)) = Len(elfs) - 1
            /\ \A i \in 1 .. Len(Without(key)) : Without(key)[i].key # e.key
            /\ ToSet(Without(key)) = {x \in ToSet(elfs) : x.key # key}
        BY <3>1, WithoutKey DEF ElfInv
      <3>4. elfs' = Append(Without(key), e)
        BY <2>3 DEF key
      <3>5. /\ EntriesTrue(elfs') /\ Len(elfs') = Len(Without(key)) + 1
            /\ ToSet(elfs') = ToSet(Without(key)) \cup {e}
        BY <3>2, <3>3, <3>4, AppendEntry
      <3>6. ToSet(elfs') = ToSet(elfs)
        <4>1. \A x \in ToSet(elfs) : x.key = key => x = e
          BY <3>1 DEF ElfInv, EntriesTrue, ToSet
        <4>2. QED
          BY <3>1, <3>3, <3>5, <4>1
      <3>7. Len(elfs') = Len(elfs)
        BY <3>3, <3>5 DEF ElfInv, EntriesTrue
      <3>8. WithinBudget(elfs')
        BY <3>6, <3>7 DEF ElfInv, WithinBudget, ElfBytes
      <3>9. fetch' \in [Fetchers -> FetchRecs]
        <4>1. [f EXCEPT !.stage = "done"] \in FetchRecs
          BY <2>1 DEF FetchRecs
        <4>2. [[f EXCEPT !.stage = "done"] EXCEPT !.elf = e.elf] \in FetchRecs
          BY <3>2, <4>1 DEF FetchRecs, Entries
        <4>3. QED
          BY <2>3, <4>2 DEF ElfInv
      <3>10. \A u \in Fetchers : FetchTrue(fetch[u])'
        BY <2>1, <2>3, <3>1, <3>2 DEF ElfInv, FetchTrue, FetchRecs, Entries
      <3>11. QED
        BY <2>1, <3>5, <3>8, <3>9, <3>10 DEF ElfInv
    <2>4. QED
      BY <1>3, <2>2, <2>3 DEF LookUp
  <1>4. ASSUME NEW t \in Fetchers, ReadAccount(t)
        PROVE  ElfInv'
    <2>1. CASE fetch' = [fetch EXCEPT ![t] = NoFetch]
      BY <1>4, <2>1 DEF ReadAccount, ElfInv, FetchTrue, FetchRecs, NoFetch
    <2>2. CASE fetch' = [fetch EXCEPT ![t].stage = "store", ![t].elf = upgraded[fetch[t].program]]
      <3>1. /\ fetch[t].stage = "read" /\ fetch[t] \in FetchRecs /\ UNCHANGED <<upgraded, elfs>>
            /\ upgraded[fetch[t].program] \in Nat /\ fetch[t].slot <= upgraded[fetch[t].program]
            /\ fetch[t].program \in Upgradeable
        BY <1>4 DEF ReadAccount, ElfInv, FetchTrue
      <3>2. fetch' \in [Fetchers -> FetchRecs]
        <4>1. [fetch[t] EXCEPT !.stage = "store"] \in FetchRecs
          BY <3>1 DEF FetchRecs
        <4>2. [[fetch[t] EXCEPT !.stage = "store"] EXCEPT !.elf = upgraded[fetch[t].program]] \in FetchRecs
          BY <3>1, <4>1 DEF FetchRecs
        <4>3. QED
          BY <2>2, <4>2 DEF ElfInv
      <3>3. \A u \in Fetchers : FetchTrue(fetch[u])'
        BY <2>2, <3>1 DEF ElfInv, FetchTrue, FetchRecs
      <3>4. QED
        BY <3>1, <3>2, <3>3 DEF ElfInv
    <2>3. QED
      BY <1>4, <2>1, <2>2 DEF ReadAccount
  <1>5. ASSUME NEW t \in Fetchers, StoreElf(t)
        PROVE  ElfInv'
    <2> DEFINE f == fetch[t]
               entry == [key |-> ElfKey(f), elf |-> f.elf]
               put == Append(Without(ElfKey(f)), entry)
    <2>1. f.stage = "store" /\ UNCHANGED <<upgraded, fetches>> /\ f \in FetchRecs /\ FetchTrue(f)
      BY <1>5 DEF StoreElf, ElfInv
    <2>2. entry \in Entries /\ entry.elf >= entry.key[2] /\ entry.key = ElfKey(f)
      BY <2>1 DEF FetchTrue, FetchRecs, Entries, ElfKey
    <2>3. /\ EntriesTrue(Without(ElfKey(f)))
          /\ \A i \in 1 .. Len(Without(ElfKey(f))) : Without(ElfKey(f))[i].key # ElfKey(f)
      BY WithoutKey DEF ElfInv
    <2> HIDE DEF entry
    <2>4. EntriesTrue(put) /\ Len(put) = Len(Without(ElfKey(f))) + 1
      BY <2>2, <2>3, AppendEntry
    <2>5. Len(put) >= 1
      BY <2>3, <2>4 DEF EntriesTrue
    <2> HIDE DEF put
    <2>6. EntriesTrue(elfs') /\ WithinBudget(elfs')
      BY <1>5, <2>4, <2>5, EvictedTrue DEF StoreElf, put, entry
    <2>7. fetch' \in [Fetchers -> FetchRecs] /\ \A u \in Fetchers : FetchTrue(fetch[u])'
      BY <1>5, <2>1 DEF StoreElf, ElfInv, FetchTrue, FetchRecs
    <2>8. QED
      BY <2>1, <2>6, <2>7 DEF ElfInv
  <1>6. CASE UNCHANGED elfVars
    BY <1>6 DEF elfVars, ElfInv, FetchTrue
  <1>7. QED
    BY <1>1, <1>2, <1>3, <1>4, <1>5, <1>6 DEF ElfNext

LEMMA ElfInvFresh == ElfInv => ElfFresh
  BY DEF ElfInv, EntriesTrue, WithinBudget, FetchTrue, ElfFresh, ToSet

\* For every number of programs, upgrades and readers: a fetch never serves a
\* binary older than the chain held when it began, none is kept under the slot
\* of a later one, and the cache keeps to its budget but for the entry just put.
THEOREM ElfCorrect == ElfSpec => []ElfFresh
  <1>1. ElfSpec => []ElfInv
    BY ElfInitInv, ElfStepInv, PTL DEF ElfSpec
  <1>2. QED
    BY <1>1, ElfInvFresh, PTL

-----------------------------------------------------------------------------
\* ReplaySession: division by a width

\* The quotient of a number is the multiple next below it.
LEMMA Quotient ==
    ASSUME NEW n \in Nat, NEW w \in Nat \ {0}
    PROVE  /\ n \div w \in Nat
           /\ (n \div w) * w <= n /\ n < (n \div w + 1) * w
  BY SMT

\* What is less times over is less.
LEMMA TimesLess ==
    ASSUME NEW x \in Int, NEW y \in Int, NEW w \in Nat \ {0}, x * w < y * w
    PROVE  x < y
  BY SMT

\* A sum taken times over.
LEMMA TimesSum ==
    ASSUME NEW x \in Int, NEW y \in Int, NEW w \in Int
    PROVE  (x + y) * w = x * w + y * w /\ x * w \in Int
  BY SMT

\* The quotient of a sum is the sum of the quotients, or one more.
LEMMA QuotientOfSum ==
    ASSUME NEW m \in Nat, NEW n \in Nat, NEW w \in Nat \ {0}
    PROVE  /\ m \div w + n \div w <= (m + n) \div w
           /\ (m + n) \div w <= m \div w + n \div w + 1
  <1> DEFINE p == m \div w
             q == n \div w
             r == (m + n) \div w
  <1>1. p \in Nat /\ p * w <= m /\ m < (p + 1) * w
    BY Quotient
  <1>2. q \in Nat /\ q * w <= n /\ n < (q + 1) * w
    BY Quotient
  <1>3. r \in Nat /\ r * w <= m + n /\ m + n < (r + 1) * w
    <2>1. m + n \in Nat
      OBVIOUS
    <2>2. QED
      BY <2>1, Quotient
  <1> HIDE DEF p, q, r
  <1>4. w \in Int /\ (p + 1) * w = p * w + w /\ (q + 1) * w = q * w + w /\ p * w \in Int /\ q * w \in Int
        /\ 1 * w = w
    BY <1>1, <1>2, TimesSum
  <1>5. (p + q) * w = p * w + q * w /\ ((p + 1) + (q + 1)) * w = (p + 1) * w + (q + 1) * w
        /\ r * w \in Int /\ (r + 1) * w \in Int /\ (p + 1) * w \in Int /\ (q + 1) * w \in Int
    <2>1. p \in Int /\ q \in Int /\ p + 1 \in Int /\ q + 1 \in Int /\ r \in Int /\ r + 1 \in Int
      BY <1>1, <1>2, <1>3
    <2>2. QED
      BY <2>1, <1>4, TimesSum
  <1>6. (p + q) * w < (r + 1) * w
    BY <1>1, <1>2, <1>3, <1>4, <1>5
  <1>7. r * w < ((p + 1) + (q + 1)) * w
    BY <1>1, <1>2, <1>3, <1>4, <1>5
  <1>8. p + q < r + 1
    <2>1. p + q \in Int /\ r + 1 \in Int
      BY <1>1, <1>2, <1>3
    <2>2. QED
      BY <2>1, <1>6, TimesLess
  <1>9. r < (p + 1) + (q + 1)
    <2>1. r \in Int /\ (p + 1) + (q + 1) \in Int
      BY <1>1, <1>2, <1>3
    <2>2. QED
      BY <2>1, <1>7, TimesLess
  <1>10. QED
    BY <1>1, <1>2, <1>3, <1>8, <1>9 DEF p, q, r

-----------------------------------------------------------------------------
\* How far the epoch may be from the epoch of the slot.

Near(slot, epoch, j) ==
    -j <= epoch - slot \div PerEpoch /\ epoch - slot \div PerEpoch <= j

\* A jump by n slots, and by the epochs that are in n, both saturating.
LEMMA JumpNear ==
    ASSUME NEW slot \in Nat, NEW epoch \in Nat, NEW j \in Nat, Near(slot, epoch, j), NEW n \in Int
    PROVE  LET s == Saturated(slot + n)
               e == Saturated(epoch + Trunc(n, PerEpoch))
           IN  /\ s \in Nat /\ e \in Nat
               /\ Near(s, e, j + 1)
               /\ n = 0 => s = slot /\ e = epoch
  <1>1. PerEpoch \in Nat \ {0}
    BY ReplayAssumption
  <1> DEFINE s == Saturated(slot + n)
             e == Saturated(epoch + Trunc(n, PerEpoch))
             a == slot \div PerEpoch
  <1>2. a \in Nat /\ -j <= epoch - a /\ epoch - a <= j
    BY <1>1, Quotient DEF Near
  <1>3. CASE n >= 0
    <2> DEFINE d == n \div PerEpoch
               b == (slot + n) \div PerEpoch
    <2>1. d \in Nat /\ b \in Nat /\ a + d <= b /\ b <= a + d + 1
      <3>1. n \in Nat /\ slot + n \in Nat
        BY <1>3
      <3>2. QED
        BY <3>1, <1>1, Quotient, QuotientOfSum
    <2>2. s = slot + n /\ e = epoch + d
      <3>1. Trunc(n, PerEpoch) = d
        BY <1>3 DEF Trunc
      <3>2. s = slot + n
        BY <1>3 DEF Saturated
      <3>3. e = Saturated(epoch + d)
        BY <3>1
      <3> HIDE DEF d, b, e
      <3>4. QED
        BY <2>1, <3>2, <3>3 DEF Saturated
    <2>3. s \div PerEpoch = b
      BY <2>2
    <2> HIDE DEF a, b, d, s, e
    <2>4. -(j + 1) <= e - b /\ e - b <= j + 1 /\ s \in Nat /\ e \in Nat
      BY <1>2, <1>3, <2>1, <2>2
    <2>5. n = 0 => s = slot
      BY <2>2
    <2>6. n = 0 => d = 0
      BY <1>1 DEF d
    <2>7. n = 0 => e = epoch
      BY <2>2, <2>6
    <2>8. Near(s, e, j + 1)
      BY <2>3, <2>4 DEF Near
    <2>9. QED
      BY <2>4, <2>5, <2>7, <2>8 DEF s, e
  <1>4. CASE n < 0
    <2> DEFINE m == -n
               d == m \div PerEpoch
    <2>1. m \in Nat /\ d \in Nat /\ Trunc(n, PerEpoch) = -d /\ m # 0 /\ slot + n = slot - m
      BY <1>1, <1>4, Quotient DEF Trunc
    <2>2. e = Saturated(epoch - d) /\ s = Saturated(slot - m)
      BY <1>4, <2>1
    <2> HIDE DEF m
    <2>3. CASE slot >= m
      <3> DEFINE b == (slot - m) \div PerEpoch
      <3>1. b \in Nat /\ b + d <= a /\ a <= b + d + 1
        <4>1. slot - m \in Nat /\ (slot - m) + m = slot
          BY <2>1, <2>3
        <4>2. QED
          BY <4>1, <2>1, <1>1, Quotient, QuotientOfSum
      <3>2. s = slot - m
        BY <2>1, <2>2, <2>3 DEF Saturated
      <3>3. s \div PerEpoch = b
        BY <3>2
      <3> HIDE DEF a, b, d, s, e
      <3>4. e = IF epoch < d THEN 0 ELSE epoch - d
        BY <2>1, <2>2 DEF Saturated
      <3>5. -(j + 1) <= e - b /\ e - b <= j + 1 /\ s \in Nat /\ e \in Nat
        BY <1>2, <2>1, <2>3, <3>1, <3>2, <3>4
      <3>6. Near(s, e, j + 1)
        BY <3>3, <3>5 DEF Near
      <3>7. QED
        BY <1>4, <3>5, <3>6 DEF s, e
    <2>4. CASE slot < m
      <3>1. a <= d
        <4>1. m - slot \in Nat /\ (m - slot) + slot = m
          BY <2>1, <2>4
        <4>2. (m - slot) \div PerEpoch \in Nat
          BY <4>1, <1>1, Quotient
        <4>3. (m - slot) \div PerEpoch + a <= d
          BY <4>1, <1>1, QuotientOfSum
        <4> HIDE DEF a, d
        <4>4. QED
          BY <4>2, <4>3, <1>2, <2>1
      <3>2. s = 0
        BY <2>1, <2>2, <2>4 DEF Saturated
      <3>3. 0 \div PerEpoch = 0
        BY <1>1
      <3> HIDE DEF a, d, s, e
      <3>4. e = IF epoch < d THEN 0 ELSE epoch - d
        BY <2>1, <2>2 DEF Saturated
      <3>5. -(j + 1) <= e - 0 /\ e - 0 <= j + 1 /\ s \in Nat /\ e \in Nat
        BY <1>2, <2>1, <3>1, <3>2, <3>4
      <3>6. Near(s, e, j + 1)
        BY <3>2, <3>3, <3>5 DEF Near
      <3>7. QED
        BY <1>4, <3>5, <3>6 DEF s, e
    <2>5. QED
      BY <2>1, <2>3, <2>4
  <1>5. QED
    BY <1>3, <1>4

-----------------------------------------------------------------------------
\* The types of a handle and its fixture.

Slots == Nat \cup {Unset}
Moved == Int \cup {Unset}
WarpRecs == [epochs : Moved, slots : Moved, seconds : Moved,
             at_time : Moved, at_slot : Slots, at_epoch : Slots]
ToggleSeqs == Seq([id : Gates, active : BOOLEAN])
HandleRecs == [slot : Slots, time : Slots, state : Slots,
               tier : {"none", "current", "reconstructed", "exact"},
               tt : WarpRecs, toggles : ToggleSeqs, elf : {"chain", "patched"}]
FixtureRecs == [slot : Slots, time : Slots, state : Slots, elf : {"chain", "patched"}]

\* A world made for a slot is of that slot, and the context of an exact one too;
\* unless its warp was replaced, the clock is moved there.
Anchored(r) ==
    /\ r.tier \in {"reconstructed", "exact"} => r.state \in Nat
    /\ r.tier = "exact" => r.slot = r.state
AtItsSlot(r) ==
    r.tier \in {"reconstructed", "exact"} => r.tt = NoWarp \/ r.tt.at_slot = r.state

SessionInv ==
    /\ replay \in HandleRecs /\ wished \in WarpRecs /\ Anchored(replay)
    /\ frozen.file \in FixtureRecs
    /\ frozen.plain => Seen(FromFixture(frozen.file)) = frozen.asserts
    /\ wished = NoWarp => AtItsSlot(replay)

\* The warps a caller can name.
LEMMA NoWarpTyped == NoWarp \in WarpRecs
  BY DEF NoWarp, WarpRecs, Moved, Slots

\* Every warp of a request is one.
LEMMA WarpsTyped == Warps \subseteq WarpRecs
  <1>1. Jumps \subseteq Moved /\ Moments \subseteq Moved /\ Targets \subseteq Slots
        /\ {1, LastWord} \subseteq Slots
    BY ReplayAssumption DEF Moved, Slots
  <1>2. ASSUME NEW tt \in WarpRecs, NEW x \in Moved
        PROVE  /\ \A f \in Relative \cup {"at_time"} : [tt EXCEPT ![f] = x] \in WarpRecs
               /\ [tt EXCEPT !.slots = x] \in WarpRecs /\ [tt EXCEPT !.seconds = x] \in WarpRecs
               /\ [tt EXCEPT !.at_time = x] \in WarpRecs
    BY DEF WarpRecs, Relative
  <1>3. ASSUME NEW tt \in WarpRecs, NEW x \in Slots
        PROVE  [tt EXCEPT !.at_slot = x] \in WarpRecs /\ [tt EXCEPT !.at_epoch = x] \in WarpRecs
    BY DEF WarpRecs
  <1>4. ASSUME NEW w \in Warps PROVE w \in WarpRecs
    <2>1. ASSUME NEW f \in Relative, NEW n \in Jumps PROVE Jump(f, n) \in WarpRecs
      <3>1. n \in Moved
        BY <1>1
      <3>2. QED
        BY <3>1, <1>2, NoWarpTyped DEF Jump
    <2>2. ASSUME NEW n \in Jumps PROVE JumpBoth(n) \in WarpRecs
      <3>1. JumpBoth(n) = [[NoWarp EXCEPT !.slots = n] EXCEPT !.seconds = n]
        BY DEF JumpBoth, NoWarp
      <3>2. n \in Moved
        BY <1>1
      <3>3. [NoWarp EXCEPT !.slots = n] \in WarpRecs
        BY <3>2, <1>2, NoWarpTyped
      <3>4. QED
        BY <3>1, <3>2, <3>3, <1>2
    <2>3. ASSUME NEW s \in Targets, NEW n \in Jumps PROVE JumpFrom(s, n) \in WarpRecs
      <3>1. JumpFrom(s, n) = [[NoWarp EXCEPT !.at_slot = s] EXCEPT !.slots = n]
        BY DEF JumpFrom, NoWarp
      <3>2. [NoWarp EXCEPT !.at_slot = s] \in WarpRecs
        BY <1>1, <1>3, NoWarpTyped
      <3>3. QED
        BY <3>1, <3>2, <1>1, <1>2
    <2>4. ASSUME NEW e \in {1, LastWord}, NEW t \in Moments PROVE DateAt(e, t) \in WarpRecs
      <3>1. DateAt(e, t) = [[NoWarp EXCEPT !.at_epoch = e] EXCEPT !.at_time = t]
        BY DEF DateAt, NoWarp
      <3>2. [NoWarp EXCEPT !.at_epoch = e] \in WarpRecs
        BY <1>1, <1>3, NoWarpTyped
      <3>3. QED
        BY <3>1, <3>2, <1>1, <1>2
    <2>5. QED
      BY <2>1, <2>2, <2>3, <2>4, NoWarpTyped DEF Warps
  <1>5. QED
    BY <1>4

\* The toggles of a request.
LEMMA TogglesTyped == ToggleLists \subseteq ToggleSeqs
  <1>1. ASSUME NEW g \in Gates, NEW on \in BOOLEAN
        PROVE  <<[id |-> g, active |-> on]>> \in ToggleSeqs
    <2> DEFINE toggle == [id |-> g, active |-> on]
    <2>1. toggle \in [id : Gates, active : BOOLEAN]
      OBVIOUS
    <2> HIDE DEF toggle
    <2>2. <<toggle>> \in ToggleSeqs
      BY <2>1 DEF ToggleSeqs
    <2>3. QED
      BY <2>2 DEF toggle
  <1>2. <<>> \in ToggleSeqs
    BY DEF ToggleSeqs
  <1>3. QED
    BY <1>1, <1>2 DEF ToggleLists

\* The worlds a handle is made of.
LEMMA MadeTyped ==
    /\ \A r \in LandedReplays \cup Preflights :
         r \in HandleRecs /\ Anchored(r) /\ AtItsSlot(r)
    /\ NoReplay \in HandleRecs /\ Anchored(NoReplay) /\ AtItsSlot(NoReplay)
  <1>1. ASSUME NEW slot \in Slots, NEW time \in Slots, NEW state \in Slots,
               NEW tier \in {"none", "current", "reconstructed", "exact"}, NEW tt \in WarpRecs
        PROVE  Handle(slot, time, state, tier, tt) \in HandleRecs
    BY DEF Handle, HandleRecs, ToggleSeqs
  <1>2. Unset \in Slots /\ Today \in Slots /\ Landed \in Slots /\ Targets \subseteq Nat /\ Nat \subseteq Slots
    BY ReplayAssumption DEF Slots
  <1>3. \A slot \in Targets \cup {Today, Landed, Unset} : TimesOf(slot) \subseteq Slots
    BY ReplayAssumption, <1>2 DEF TimesOf, Slots
  <1>4. ASSUME NEW given \in Targets \cup {Landed, Unset}, NEW state \in Slots,
               NEW tier \in {"none", "current", "reconstructed", "exact"}, NEW tt \in WarpRecs,
               NEW r \in CurrentWorlds(given, state, tier, tt)
        PROVE  r \in HandleRecs /\ r.tier = tier /\ r.state = state /\ r.tt = tt
    <2>1. PICK slot \in {Today, given} : \E time \in TimesOf(slot) :
                r = Handle(slot, time, state, tier, tt)
      BY DEF CurrentWorlds
    <2>2. PICK time \in TimesOf(slot) : r = Handle(slot, time, state, tier, tt)
      BY <2>1
    <2>3. slot \in Slots /\ time \in Slots
      BY <1>2, <1>3
    <2>4. r \in HandleRecs
      BY <1>1, <2>2, <2>3
    <2>5. QED
      BY <2>2, <2>4 DEF Handle
  <1>5. ASSUME NEW s \in Targets, NEW time \in TimesOf(s)
        PROVE  AtWarp(s, time) \in WarpRecs /\ AtWarp(s, time).at_slot = s
    <2>1. s \in Slots /\ time \in Moved
      BY <1>2, <1>3 DEF Moved, Slots
    <2>2. QED
      BY <2>1, NoWarpTyped DEF AtWarp, WarpRecs
  <1>6. ASSUME NEW r \in ReplaysNow \cup Preflights
        PROVE  r \in HandleRecs /\ r.tier = "current"
    <2>1. r \in CurrentWorlds(Landed, Unset, "current", NoWarp)
          \/ r \in CurrentWorlds(Unset, Unset, "current", NoWarp)
      BY DEF ReplaysNow, Preflights
    <2>2. NoWarp \in WarpRecs /\ Unset \in Slots /\ Landed \in Targets \cup {Landed, Unset}
          /\ Unset \in Targets \cup {Landed, Unset}
          /\ "current" \in {"none", "current", "reconstructed", "exact"}
      BY <1>2, NoWarpTyped
    <2>3. CASE r \in CurrentWorlds(Landed, Unset, "current", NoWarp)
      BY <1>4, <2>2, <2>3
    <2>4. CASE r \in CurrentWorlds(Unset, Unset, "current", NoWarp)
      BY <1>4, <2>2, <2>4
    <2>5. QED
      BY <2>1, <2>3, <2>4
  <1>7. ASSUME NEW s \in Targets, NEW r \in Reconstructions(s)
        PROVE  r \in HandleRecs /\ r.tier = "reconstructed" /\ r.state = s /\ r.tt.at_slot = s
    <2>1. PICK time \in TimesOf(s) : r \in CurrentWorlds(s, s, "reconstructed", AtWarp(s, time))
      BY DEF Reconstructions
    <2>2. AtWarp(s, time) \in WarpRecs /\ AtWarp(s, time).at_slot = s /\ s \in Slots
      BY <1>2, <1>5
    <2>3. QED
      BY <1>4, <2>1, <2>2
  <1>8. ASSUME NEW s \in Targets, NEW r \in Archived(s)
        PROVE  r \in HandleRecs /\ r.tier = "exact" /\ r.state = s /\ r.slot = s /\ r.tt.at_slot = s
    <2>1. PICK time \in TimesOf(s) : r = Handle(s, time, s, "exact", AtWarp(s, time))
      BY DEF Archived
    <2>2. AtWarp(s, time) \in WarpRecs /\ AtWarp(s, time).at_slot = s /\ s \in Slots /\ time \in Slots
      BY <1>2, <1>3, <1>5
    <2>3. r \in HandleRecs
      BY <1>1, <2>1, <2>2
    <2>4. QED
      BY <2>1, <2>2, <2>3 DEF Handle
  <1>9. NoReplay \in HandleRecs /\ NoReplay.tier = "none"
    <2>1. NoReplay \in HandleRecs
      BY <1>1, <1>2, NoWarpTyped DEF NoReplay
    <2>2. QED
      BY <2>1 DEF NoReplay, Handle
  <1>10. QED
    BY <1>2, <1>6, <1>7, <1>8, <1>9 DEF LandedReplays, Anchored, AtItsSlot

\* A fixture is the handle's world, and a thawed handle has no knob turned.
LEMMA FixtureTyped ==
    /\ \A r \in HandleRecs : ToFixture(r) \in FixtureRecs
    /\ \A fx \in FixtureRecs :
         /\ FromFixture(fx) \in HandleRecs /\ FromFixture(fx).tier = "current"
         /\ FromFixture(fx).tt = NoWarp /\ FromFixture(fx).toggles = <<>>
         /\ FromFixture(fx).slot = fx.slot /\ FromFixture(fx).time = fx.time
         /\ FromFixture(fx).state = fx.state /\ FromFixture(fx).elf = fx.elf
         /\ ToFixture(FromFixture(fx)) = fx
  <1>1. ASSUME NEW r \in HandleRecs PROVE ToFixture(r) \in FixtureRecs
    BY DEF HandleRecs, FixtureRecs, ToFixture
  <1>2. ASSUME NEW fx \in FixtureRecs
        PROVE  /\ FromFixture(fx) \in HandleRecs /\ FromFixture(fx).tier = "current"
               /\ FromFixture(fx).tt = NoWarp /\ FromFixture(fx).toggles = <<>>
               /\ FromFixture(fx).slot = fx.slot /\ FromFixture(fx).time = fx.time
               /\ FromFixture(fx).state = fx.state /\ FromFixture(fx).elf = fx.elf
    <2> DEFINE h == Handle(fx.slot, fx.time, fx.state, "current", NoWarp)
    <2>1. fx.slot \in Slots /\ fx.time \in Slots /\ fx.state \in Slots /\ fx.elf \in {"chain", "patched"}
      BY DEF FixtureRecs
    <2>2. <<>> \in ToggleSeqs
      BY DEF ToggleSeqs
    <2>3. h \in HandleRecs
      BY <2>1, <2>2, NoWarpTyped DEF HandleRecs, Handle
    <2>4. h.slot = fx.slot /\ h.time = fx.time /\ h.state = fx.state /\ h.tier = "current"
          /\ h.tt = NoWarp /\ h.toggles = <<>>
      BY DEF Handle
    <2>5. FromFixture(fx) = [h EXCEPT !.elf = fx.elf]
      BY DEF FromFixture
    <2> HIDE DEF h
    <2>6. FromFixture(fx) \in HandleRecs
      BY <2>1, <2>3, <2>5 DEF HandleRecs
    <2>7. QED
      BY <2>3, <2>4, <2>5, <2>6 DEF HandleRecs
  <1>3. ASSUME NEW fx \in FixtureRecs PROVE ToFixture(FromFixture(fx)) = fx
    BY <1>2 DEF FixtureRecs, ToFixture
  <1>4. QED
    BY <1>1, <1>2, <1>3

\* A run depends on nothing else of its handle.
LEMMA SameSeen ==
    ASSUME NEW r, NEW q, r.slot = q.slot, r.time = q.time, r.state = q.state,
           r.elf = q.elf, r.tt = q.tt, r.toggles = q.toggles
    PROVE  Seen(r) = Seen(q)
  <1>1. ClockOf(r) = ClockOf(q)
    BY DEF ClockOf
  <1>2. ActiveIn(r) = ActiveIn(q)
    BY DEF ActiveIn
  <1>3. QED
    BY <1>1, <1>2 DEF Seen

-----------------------------------------------------------------------------
\* The steps.

\* No handle yet.
LEMMA SessionInit == ReplayInit => SessionInv
  BY MadeTyped, FixtureTyped, NoWarpTyped DEF ReplayInit, SessionInv, NotFrozen

\* A knob that keeps the handle typed, and unwished for at its slot, keeps the rest.
LEMMA TurnKeeps ==
    ASSUME SessionInv, NEW r \in HandleRecs, NEW tt \in WarpRecs, Turn(r, tt),
           Anchored(r), tt = NoWarp => AtItsSlot(r)
    PROVE  SessionInv'
  BY DEF SessionInv, Turn

\* An outright or relative move is a warp of the caller's own.
LEMMA MovesTyped ==
    ASSUME NEW tt \in WarpRecs, NEW f \in Relative, NEW n \in Int
    PROVE  /\ [tt EXCEPT ![f] = Or(@, 0) + n] \in WarpRecs
           /\ [tt EXCEPT ![f] = Or(@, 0) + n] # NoWarp
  <1>1. tt[f] \in Moved
    BY DEF WarpRecs, Relative
  <1>2. Or(tt[f], 0) + n \in Int
    BY <1>1 DEF Or, Moved
  <1> DEFINE x == Or(tt[f], 0) + n
             moved == [tt EXCEPT ![f] = x]
  <1> HIDE DEF x
  <1>3. moved \in WarpRecs /\ moved[f] = x
    BY <1>2 DEF WarpRecs, Relative, Moved, x
  <1>4. NoWarp[f] = Unset
    BY DEF NoWarp, Relative
  <1>5. x # Unset
    BY <1>2, ReplayAssumption DEF x
  <1>6. moved # NoWarp
    BY <1>3, <1>4, <1>5
  <1>7. QED
    BY <1>3, <1>6 DEF x

\* Every call keeps the invariant.
LEMMA SessionStep == SessionInv /\ [ReplayNext]_replayVars => SessionInv'
  <1> SUFFICES ASSUME SessionInv, [ReplayNext]_replayVars PROVE SessionInv'
    OBVIOUS
  <1>1. replay \in HandleRecs /\ wished \in WarpRecs /\ replay.tt \in WarpRecs
    BY DEF SessionInv, HandleRecs
  <1>2. ASSUME NEW tt \in WarpRecs PROVE [replay EXCEPT !.tt = tt] \in HandleRecs
    BY <1>1 DEF HandleRecs
  <1>3. ASSUME NEW tgs \in ToggleSeqs PROVE [replay EXCEPT !.toggles = tgs] \in HandleRecs
    BY <1>1 DEF HandleRecs
  <1>4. Anchored(replay)
    BY DEF SessionInv
  <1>5. ASSUME NEW tt \in WarpRecs PROVE Anchored([replay EXCEPT !.tt = tt])
    BY <1>4, <1>1 DEF HandleRecs, Anchored
  <1>6. CASE \E r \in LandedReplays \cup Preflights : Open(r)
    BY <1>6, MadeTyped, NoWarpTyped DEF Open, SessionInv
  <1>7. CASE \E r \in LandedReplays \cup Preflights, tt \in Warps, toggles \in ToggleLists : Serve(r, tt, toggles)
    <2>1. PICK r \in LandedReplays \cup Preflights, tt \in Warps, tgs \in ToggleLists : Serve(r, tt, tgs)
      BY <1>7
    <2>2. r \in HandleRecs /\ Anchored(r) /\ tt \in WarpRecs
      BY MadeTyped, WarpsTyped
    <2>3. tgs \in ToggleSeqs
      BY TogglesTyped
    <2>4. replay' \in HandleRecs /\ wished' = tt /\ replay'.tt = tt /\ replay'.tier = r.tier
          /\ replay'.state = r.state /\ replay'.slot = r.slot /\ frozen' = frozen
      BY <2>1, <2>2, <2>3 DEF Serve, HandleRecs
    <2>5. Anchored(replay') /\ (wished' = NoWarp => AtItsSlot(replay'))
      BY <2>2, <2>4 DEF Anchored, AtItsSlot
    <2>6. QED
      BY <2>2, <2>4, <2>5 DEF SessionInv
  <1>8. CASE Thaw
    <2>1. replay' = FromFixture(frozen.file) /\ wished' = NoWarp /\ frozen' = frozen
      BY <1>8 DEF Thaw
    <2>2. replay' \in HandleRecs /\ replay'.tier = "current"
      BY <2>1, FixtureTyped DEF SessionInv
    <2>3. Anchored(replay') /\ AtItsSlot(replay')
      BY <2>2 DEF Anchored, AtItsSlot
    <2>4. QED
      BY <2>1, <2>2, <2>3, NoWarpTyped DEF SessionInv
  <1>9. CASE \E f \in Relative, n \in Jumps : Advance(f, n)
    <2>1. PICK f \in Relative, n \in Jumps : Advance(f, n)
      BY <1>9
    <2>2. n \in Int
      BY ReplayAssumption
    <2> DEFINE tt == [replay.tt EXCEPT ![f] = Or(@, 0) + n]
               wish == [wished EXCEPT ![f] = Or(@, 0) + n]
    <2>3. tt \in WarpRecs /\ wish \in WarpRecs /\ wish # NoWarp
      BY <1>1, <2>2, MovesTyped
    <2>4. [replay EXCEPT !.tt[f] = Or(@, 0) + n] = [replay EXCEPT !.tt = tt]
      BY <1>1 DEF HandleRecs
    <2>5. Turn([replay EXCEPT !.tt = tt], wish)
      BY <2>1, <2>4 DEF Advance
    <2> HIDE DEF tt, wish
    <2>6. QED
      BY <1>2, <1>5, <2>3, <2>5, TurnKeeps
  <1>10. ASSUME NEW f \in {"at_slot", "at_epoch", "at_time"}, NEW n \in Int, f # "at_time" => n \in Nat,
               WarpTo(f, n)
        PROVE  SessionInv'
    <2> DEFINE tt == [replay.tt EXCEPT ![f] = n]
               wish == [wished EXCEPT ![f] = n]
    <2>1. n \in Moved /\ n # Unset /\ (f # "at_time" => n \in Slots)
      BY <1>10, ReplayAssumption DEF Moved, Slots
    <2>2. tt \in WarpRecs /\ wish \in WarpRecs
      BY <1>1, <2>1 DEF WarpRecs
    <2>3. wish # NoWarp
      <3>1. wish[f] = n
        BY <1>1 DEF WarpRecs
      <3>2. NoWarp[f] = Unset
        BY DEF NoWarp
      <3>3. QED
        BY <2>1, <3>1, <3>2
    <2>4. [replay EXCEPT !.tt[f] = n] = [replay EXCEPT !.tt = tt]
      BY <1>1 DEF HandleRecs
    <2>5. Turn([replay EXCEPT !.tt = tt], wish)
      BY <1>10, <2>4 DEF WarpTo
    <2> HIDE DEF tt, wish
    <2>6. QED
      BY <1>2, <1>5, <2>2, <2>3, <2>5, TurnKeeps
  <1>11. CASE \/ \E s \in Targets : WarpTo("at_slot", s)
             \/ \E e \in {1, LastWord} : WarpTo("at_epoch", e)
             \/ \E t \in Moments : WarpTo("at_time", t)
    <2>1. Targets \subseteq Nat /\ {1, LastWord} \subseteq Nat /\ Moments \subseteq Int
      BY ReplayAssumption
    <2>2. QED
      BY <1>10, <1>11, <2>1
  <1>12. CASE \E tt \in Warps : SetTimeTravel(tt)
    <2>1. PICK tt \in Warps : SetTimeTravel(tt)
      BY <1>12
    <2>2. tt \in WarpRecs
      BY WarpsTyped
    <2> DEFINE r == [replay EXCEPT !.tt = tt]
    <2>3. Turn(r, tt)
      BY <2>1 DEF SetTimeTravel
    <2>4. r \in HandleRecs /\ Anchored(r) /\ r.tt = tt
      BY <1>1, <1>2, <1>5, <2>2 DEF HandleRecs
    <2> HIDE DEF r
    <2>5. tt = NoWarp => AtItsSlot(r)
      BY <2>4 DEF AtItsSlot
    <2>6. QED
      BY <2>2, <2>3, <2>4, <2>5, TurnKeeps
  <1>13. ASSUME NEW r \in HandleRecs, Turn(r, wished), r.tier = replay.tier, r.state = replay.state,
                r.tt = replay.tt, r.slot = replay.slot
         PROVE  SessionInv'
    <2>1. Anchored(r) /\ (wished = NoWarp => AtItsSlot(r))
      BY <1>13 DEF SessionInv, Anchored, AtItsSlot
    <2>2. QED
      BY <1>1, <1>13, <2>1, TurnKeeps
  <1>14. CASE \E g \in Gates, on \in BOOLEAN : SetFeature(g, on)
    <2>1. PICK g \in Gates, on \in BOOLEAN : SetFeature(g, on)
      BY <1>14
    <2>2. Append(replay.toggles, [id |-> g, active |-> on]) \in ToggleSeqs
      BY <1>1 DEF HandleRecs, ToggleSeqs
    <2> DEFINE r == [replay EXCEPT !.toggles = Append(@, [id |-> g, active |-> on])]
    <2>3. r \in HandleRecs /\ r.tier = replay.tier /\ r.state = replay.state
          /\ r.tt = replay.tt /\ r.slot = replay.slot
      BY <1>1, <2>2 DEF HandleRecs
    <2>4. Turn(r, wished)
      BY <2>1 DEF SetFeature
    <2> HIDE DEF r
    <2>5. QED
      BY <1>13, <2>3, <2>4
  <1>15. CASE \E toggles \in ToggleLists : SetFeatures(toggles)
    <2>1. PICK tgs \in ToggleLists : SetFeatures(tgs)
      BY <1>15
    <2>2. tgs \in ToggleSeqs
      BY TogglesTyped
    <2> DEFINE r == [replay EXCEPT !.toggles = tgs]
    <2>3. r \in HandleRecs /\ r.tier = replay.tier /\ r.state = replay.state
          /\ r.tt = replay.tt /\ r.slot = replay.slot
      BY <1>1, <2>2 DEF HandleRecs
    <2>4. Turn(r, wished)
      BY <2>1 DEF SetFeatures
    <2> HIDE DEF r
    <2>5. QED
      BY <1>13, <2>3, <2>4
  <1>16. CASE \E elf \in {"chain", "patched"} : SetProgram(elf)
    <2>1. PICK elf \in {"chain", "patched"} : SetProgram(elf)
      BY <1>16
    <2> DEFINE r == [replay EXCEPT !.elf = elf]
    <2>2. r \in HandleRecs /\ r.tier = replay.tier /\ r.state = replay.state
          /\ r.tt = replay.tt /\ r.slot = replay.slot
      BY <1>1 DEF HandleRecs
    <2>3. Turn(r, wished)
      BY <2>1 DEF SetProgram
    <2> HIDE DEF r
    <2>4. QED
      BY <1>13, <2>2, <2>3
  <1>17. CASE Freeze
    <2>1. UNCHANGED <<replay, wished>> /\ frozen'.file = ToFixture(replay)
          /\ frozen'.asserts = Seen(replay)
      BY <1>17 DEF Freeze
    <2>2. frozen'.plain <=> replay.tt = NoWarp /\ replay.toggles = <<>>
      BY <1>17 DEF Freeze
    <2>3. ToFixture(replay) \in FixtureRecs
      BY <1>1, FixtureTyped
    <2>4. ASSUME replay.tt = NoWarp, replay.toggles = <<>>
          PROVE  Seen(FromFixture(ToFixture(replay))) = Seen(replay)
      <3>1. ToFixture(replay).slot = replay.slot /\ ToFixture(replay).time = replay.time
            /\ ToFixture(replay).state = replay.state /\ ToFixture(replay).elf = replay.elf
        BY DEF ToFixture
      <3> DEFINE q == FromFixture(ToFixture(replay))
      <3>2. q.slot = replay.slot /\ q.time = replay.time /\ q.state = replay.state
            /\ q.elf = replay.elf /\ q.tt = replay.tt /\ q.toggles = replay.toggles
        BY <2>3, <2>4, <3>1, FixtureTyped
      <3> HIDE DEF q
      <3>3. Seen(q) = Seen(replay)
        BY <3>2, SameSeen
      <3>4. QED
        BY <3>3 DEF q
    <2>5. frozen'.plain => Seen(FromFixture(frozen'.file)) = frozen'.asserts
      BY <2>1, <2>2, <2>4
    <2>6. QED
      BY <2>1, <2>3, <2>5 DEF SessionInv
  <1>18. CASE UNCHANGED replayVars
    BY <1>18 DEF SessionInv, replayVars
  <1>19. QED
    BY <1>6, <1>7, <1>8, <1>9, <1>11, <1>12, <1>14, <1>15, <1>16, <1>17, <1>18 DEF ReplayNext

-----------------------------------------------------------------------------
\* The clock.

\* The fields of a clock.
LEMMA ClockTyped ==
    ASSUME NEW slot, NEW epoch, NEW time, NEW start
    PROVE  LET c == Clock(slot, epoch, time, start)
           IN  c.slot = slot /\ c.epoch = epoch /\ c.time = time /\ c.start = start
  BY DEF Clock

\* The conversions yield whole numbers.
LEMMA SecondsTyped ==
    /\ \A n \in Int : Seconds(n) \in Int /\ SlotsIn(n) \in Int
    /\ \A n \in Nat : Seconds(n) \in Nat
    /\ SlotsIn(0) = 0
  <1>1. ASSUME NEW n \in Int PROVE Seconds(n) \in Int /\ SlotsIn(n) \in Int
    BY DEF Seconds, SlotsIn, Trunc
  <1>2. ASSUME NEW n \in Nat PROVE Seconds(n) \in Nat
    BY DEF Seconds, Trunc
  <1>3. SlotsIn(0) = 0
    BY DEF SlotsIn, Trunc
  <1>4. QED
    BY <1>1, <1>2, <1>3

\* A context's own clock.
LEMMA BaseNear ==
    ASSUME NEW slot \in Slots, NEW time \in Slots
    PROVE  LET c == BaseClock(slot, time)
           IN  /\ c.slot \in Nat /\ c.epoch \in Nat /\ c.time \in Int /\ c.start \in Int
               /\ c.start <= c.time /\ Near(c.slot, c.epoch, 0)
               /\ slot # Unset => c.slot = slot
  <1> DEFINE c == BaseClock(slot, time)
  <1>1. PerEpoch \in Nat \ {0} /\ Genesis \in Nat /\ Unset \notin Int
    BY ReplayAssumption
  <1>2. CASE slot = Unset
    <2>1. c = Clock(0, 0, 0, 0)
      BY <1>2 DEF BaseClock
    <2>2. c.slot = 0 /\ c.epoch = 0 /\ c.time = 0 /\ c.start = 0
      BY <2>1, ClockTyped
    <2>3. 0 \div PerEpoch = 0
      BY <1>1
    <2> HIDE DEF c
    <2>4. Near(c.slot, c.epoch, 0)
      BY <2>2, <2>3 DEF Near
    <2>5. QED
      BY <1>2, <2>2, <2>4 DEF c
  <1>3. CASE slot # Unset
    <2> DEFINE at == IF time = Unset THEN Genesis + Seconds(slot) ELSE time
               into == Seconds(slot % PerEpoch)
    <2>1. slot \in Nat
      BY <1>3 DEF Slots
    <2>2. at \in Int
      BY <2>1, <1>1, SecondsTyped DEF Slots
    <2>3. into \in Nat
      <3>1. slot % PerEpoch \in Nat
        BY <1>1, <2>1
      <3>2. QED
        BY <3>1, SecondsTyped
    <2>4. c = Clock(slot, slot \div PerEpoch, at, at - into)
      BY <1>3 DEF BaseClock
    <2>5. c.slot = slot /\ c.epoch = slot \div PerEpoch /\ c.time = at /\ c.start = at - into
      BY <2>4, ClockTyped
    <2>6. slot \div PerEpoch \in Nat
      BY <1>1, <2>1, Quotient
    <2> DEFINE q == slot \div PerEpoch
    <2> HIDE DEF c, at, into, q
    <2>7. Near(c.slot, c.epoch, 0)
      <3>1. c.epoch - c.slot \div PerEpoch = q - q /\ q \in Nat
        BY <2>5, <2>6 DEF q
      <3>2. c.epoch - c.slot \div PerEpoch = 0
        BY <3>1
      <3>3. QED
        BY <3>2 DEF Near
    <2>8. QED
      BY <2>1, <2>2, <2>3, <2>5, <2>6, <2>7 DEF c
  <1>4. QED
    BY <1>2, <1>3

\* The jumps of a warp that can each put the epoch one off.
JumpsIn(tt) ==
    {f \in {"slots", "seconds"} : tt[f] # Unset} \cup IF tt.epochs = Unset THEN {} ELSE {"slots"}

\* A warped clock.
LEMMA WarpedNear ==
    ASSUME NEW tt \in WarpRecs, NEW c, c.slot \in Nat, c.epoch \in Nat, c.time \in Int,
           c.start \in Int, Near(c.slot, c.epoch, 0)
    PROVE  LET w == Warped(tt, c)
           IN  /\ w.slot \in Nat /\ w.time \in Int /\ w.start <= w.time
               /\ tt.at_slot # Unset => w.slot = tt.at_slot
               /\ tt.at_epoch = Unset /\ tt.at_slot = Unset =>
                    /\ w.epoch \in Nat
                    /\ Near(w.slot, w.epoch, Cardinality(JumpsIn(tt)))
               /\ tt.at_epoch = Unset /\ tt.at_slot # Unset => w.epoch = w.slot \div PerEpoch
  <1> DEFINE delta == Or(tt.epochs, 0) * PerEpoch + Or(tt.slots, 0)
             by    == SlotsIn(Or(tt.seconds, 0))
             s1    == Saturated(c.slot + delta)
             e1    == Saturated(c.epoch + Trunc(delta, PerEpoch))
             slot  == Saturated(s1 + by)
             epoch == Saturated(e1 + Trunc(by, PerEpoch))
             time  == Or(tt.at_time, c.time + Seconds(delta) + Or(tt.seconds, 0))
             w     == Warped(tt, c)
  <1>1. /\ tt.epochs \in Moved /\ tt.slots \in Moved /\ tt.seconds \in Moved
        /\ tt.at_time \in Moved /\ tt.at_slot \in Slots /\ tt.at_epoch \in Slots
    BY DEF WarpRecs
  <1>2. PerEpoch \in Nat \ {0} /\ Unset \notin Int
    BY ReplayAssumption
  <1>3. \A x \in Moved : Or(x, 0) \in Int /\ (x = Unset => Or(x, 0) = 0)
    BY DEF Or, Moved
  <1>4. delta \in Int /\ (tt.epochs = Unset /\ tt.slots = Unset => delta = 0)
    <2> DEFINE x == Or(tt.epochs, 0)
               y == Or(tt.slots, 0)
    <2>1. x \in Int /\ y \in Int
      BY <1>1, <1>3
    <2>2. tt.epochs = Unset /\ tt.slots = Unset => x = 0 /\ y = 0
      BY <1>1, <1>3
    <2> HIDE DEF x, y
    <2>3. x * PerEpoch \in Int /\ 0 * PerEpoch = 0
      BY <2>1, <1>2
    <2>4. x * PerEpoch + y \in Int /\ (tt.epochs = Unset /\ tt.slots = Unset => x * PerEpoch + y = 0)
      BY <2>1, <2>2, <2>3
    <2>5. QED
      BY <2>4 DEF x, y
  <1>5. by \in Int /\ (tt.seconds = Unset => by = 0)
    BY <1>1, <1>3, SecondsTyped
  <1>6. w.slot = Or(tt.at_slot, slot) /\ w.epoch = EpochFor(tt, epoch) /\ w.time = time
        /\ w.start = Least(c.start, time)
    BY ClockTyped DEF Warped
  <1>7. time \in Int
    <2>1. Seconds(delta) \in Int /\ Or(tt.seconds, 0) \in Int
      BY <1>1, <1>3, <1>4, SecondsTyped
    <2> HIDE DEF delta
    <2>2. c.time + Seconds(delta) + Or(tt.seconds, 0) \in Int
      BY <2>1
    <2>3. QED
      BY <1>1, <2>2 DEF Or, Moved, delta
  <1>8. w.start <= w.time
    <2> HIDE DEF time, w
    <2>1. QED
      BY <1>6, <1>7 DEF Least
  <1> DEFINE first == IF tt.epochs = Unset /\ tt.slots = Unset THEN 0 ELSE 1
             second == IF tt.seconds = Unset THEN 0 ELSE 1
  <1>9. s1 \in Nat /\ e1 \in Nat /\ Near(s1, e1, first)
    <2> HIDE DEF delta
    <2>1. s1 \in Nat /\ e1 \in Nat /\ Near(s1, e1, 0 + 1) /\ (delta = 0 => s1 = c.slot /\ e1 = c.epoch)
      BY <1>4, JumpNear
    <2>2. QED
      BY <1>4, <2>1
  <1>10. slot \in Nat /\ epoch \in Nat /\ Near(slot, epoch, first + second)
    <2> HIDE DEF s1, e1, by
    <2>1. first \in Nat
      OBVIOUS
    <2>2. slot \in Nat /\ epoch \in Nat /\ Near(slot, epoch, first + 1)
          /\ (by = 0 => slot = s1 /\ epoch = e1)
      BY <1>5, <1>9, <2>1, JumpNear
    <2>3. first + 0 = first
      BY <2>1
    <2> HIDE DEF slot, epoch, first
    <2>4. QED
      BY <1>5, <1>9, <2>2, <2>3
  <1>11. Cardinality(JumpsIn(tt)) = first + second
    <2>1. Cardinality({"slots"} \cup {"seconds"}) = 2
      <3>1. IsFiniteSet({"slots"}) /\ Cardinality({"slots"}) = 1 /\ "seconds" \notin {"slots"}
        BY FS_Singleton
      <3>2. Cardinality({"slots"} \cup {"seconds"}) = Cardinality({"slots"}) + 1
        BY <3>1, FS_AddElement
      <3>3. QED
        BY <3>1, <3>2
    <2>2. JumpsIn(tt) \subseteq {"slots", "seconds"}
      BY DEF JumpsIn
    <2>3. "seconds" \in JumpsIn(tt) <=> second = 1
      BY DEF JumpsIn
    <2>4. "slots" \in JumpsIn(tt) <=> first = 1
      <3>1. CASE tt.epochs = Unset
        BY <3>1 DEF JumpsIn
      <3>2. CASE tt.epochs # Unset
        BY <3>2 DEF JumpsIn
      <3>3. QED
        BY <3>1, <3>2
    <2>5. first \in {0, 1} /\ second \in {0, 1}
      OBVIOUS
    <2> DEFINE J == JumpsIn(tt)
    <2>6. J \subseteq {"slots", "seconds"} /\ ("seconds" \in J <=> second = 1)
          /\ ("slots" \in J <=> first = 1)
      BY <2>2, <2>3, <2>4
    <2> HIDE DEF J, first, second
    <2>7. \/ first = 1 /\ second = 1 /\ J = {"slots"} \cup {"seconds"}
          \/ first = 1 /\ second = 0 /\ J = {"slots"}
          \/ first = 0 /\ second = 1 /\ J = {"seconds"}
          \/ first = 0 /\ second = 0 /\ J = {}
      <3>1. \A x : x \in J <=> (x = "slots" /\ first = 1) \/ (x = "seconds" /\ second = 1)
        BY <2>6
      <3>2. CASE first = 1 /\ second = 1
        BY <3>1, <3>2
      <3>3. CASE first = 1 /\ second = 0
        BY <3>1, <3>3
      <3>4. CASE first = 0 /\ second = 1
        BY <3>1, <3>4
      <3>5. CASE first = 0 /\ second = 0
        BY <3>1, <3>5
      <3>6. QED
        BY <2>5, <3>2, <3>3, <3>4, <3>5
    <2>8. Cardinality(J) = first + second
      <3>1. Cardinality({"slots"}) = 1 /\ Cardinality({"seconds"}) = 1
        BY FS_Singleton
      <3>2. Cardinality({}) = 0
        BY FS_EmptySet
      <3>3. QED
        BY <2>1, <2>7, <3>1, <3>2
    <2>9. QED
      BY <2>8 DEF J
  <1> HIDE DEF w, slot, epoch, first, second
  <1>12. w.slot \in Nat /\ (tt.at_slot # Unset => w.slot = tt.at_slot)
    BY <1>1, <1>6, <1>10 DEF Or, Slots
  <1>13. tt.at_epoch = Unset /\ tt.at_slot = Unset => w.slot = slot /\ w.epoch = epoch
    BY <1>6 DEF Or, EpochFor
  <1>14. tt.at_epoch = Unset /\ tt.at_slot # Unset => w.epoch = w.slot \div PerEpoch
    BY <1>6, <1>12 DEF Or, EpochFor
  <1>15. QED
    BY <1>6, <1>7, <1>8, <1>10, <1>11, <1>12, <1>13, <1>14 DEF w

\* What the invariant and the lemmas on the clock say of a handle.
LEMMA SessionSound == SessionInv => ReplaySound
  <1> SUFFICES ASSUME SessionInv PROVE ReplaySound
    OBVIOUS
  <1> DEFINE c == ClockOf(replay)
             tt == replay.tt
             own == BaseClock(replay.slot, replay.time)
             off == c.epoch - c.slot \div PerEpoch
             jumps == Cardinality(JumpsIn(tt))
  <1>1. replay.slot \in Slots /\ replay.time \in Slots /\ tt \in WarpRecs
    BY DEF SessionInv, HandleRecs
  <1>2. PerEpoch \in Nat \ {0} /\ Unset \notin Int
    BY ReplayAssumption
  <1>3. /\ own.slot \in Nat /\ own.epoch \in Nat /\ own.time \in Int /\ own.start \in Int
        /\ own.start <= own.time /\ Near(own.slot, own.epoch, 0)
        /\ replay.slot # Unset => own.slot = replay.slot
    BY <1>1, BaseNear
  <1>4. c = IF tt = NoWarp THEN own ELSE Warped(tt, own)
    BY DEF ClockOf
  <1>5. NoWarp.at_slot = Unset /\ NoWarp.at_epoch = Unset
    BY DEF NoWarp
  <1>6. Cardinality(JumpsIn(NoWarp)) = 0
    <2>1. JumpsIn(NoWarp) = {}
      BY DEF JumpsIn, NoWarp
    <2>2. QED
      BY <2>1, FS_EmptySet
  <1> HIDE DEF own, c
  <1>7. /\ c.start <= c.time /\ c.slot \in Nat
        /\ tt.at_slot # Unset => c.slot = tt.at_slot
        /\ tt.at_epoch = Unset /\ tt.at_slot = Unset => Near(c.slot, c.epoch, jumps) /\ c.epoch \in Nat
        /\ tt.at_epoch = Unset /\ tt.at_slot # Unset => c.epoch = c.slot \div PerEpoch
    <2>1. CASE tt = NoWarp
      BY <1>3, <1>4, <1>5, <1>6, <2>1
    <2>2. CASE tt # NoWarp
      <3> HIDE DEF tt
      <3>1. QED
        BY <1>1, <1>3, <1>4, <2>2, WarpedNear
    <2>3. QED
      BY <2>1, <2>2
  <1>8. tt.at_epoch = Unset =>
          IF tt.at_slot = Unset THEN -jumps <= off /\ off <= jumps ELSE off = 0
    <2>1. tt.at_epoch = Unset /\ tt.at_slot = Unset => -jumps <= off /\ off <= jumps
      BY <1>7 DEF Near
    <2>2. c.slot \div PerEpoch \in Nat
      BY <1>2, <1>7, Quotient
    <2>3. tt.at_epoch = Unset /\ tt.at_slot # Unset => off = 0
      BY <1>7, <2>2
    <2>4. QED
      BY <2>1, <2>3
  <1>9. ASSUME replay.tier = "exact" \/ (replay.tier = "reconstructed" /\ tt # NoWarp), wished = NoWarp
        PROVE  c.slot = replay.state
    <2>1. replay.state \in Nat /\ (replay.tier = "exact" => replay.slot = replay.state)
          /\ (tt = NoWarp \/ tt.at_slot = replay.state)
      BY <1>9 DEF SessionInv, Anchored, AtItsSlot
    <2>2. CASE tt = NoWarp
      BY <1>2, <1>3, <1>4, <1>9, <2>1, <2>2
    <2>3. CASE tt # NoWarp
      BY <1>2, <1>7, <2>1, <2>3
    <2>4. QED
      BY <2>2, <2>3
  <1>10. ToFixture(FromFixture(frozen.file)) = frozen.file
    BY FixtureTyped DEF SessionInv
  <1>11. frozen.plain => Seen(FromFixture(frozen.file)) = frozen.asserts
    BY DEF SessionInv
  <1>12. QED
    BY <1>7, <1>8, <1>9, <1>10, <1>11 DEF ReplaySound, JumpsIn, c

\* Whatever a caller opens, serves, thaws, moves and freezes, at any slots, by any
\* jumps and with epochs of any length: a fixture frozen with no knob turned thaws
\* to what its test asserts; the epoch of the clock is that of a slot named
\* outright and at most one off per jump else, however far the jumps saturate; it
\* began before now; and a handle for a slot runs at that slot until another time
\* is asked for, unless the warp its clock rested on was replaced.
THEOREM ReplayCorrect == ReplaySpec => []ReplaySound
  <1>1. QED
    BY SessionInit, SessionStep, SessionSound, PTL DEF ReplaySpec

-----------------------------------------------------------------------------
\* KeptSlots: the loop of kept_slots returns what the retention tiers say, for
\* every ascending log, every slot it is called with, and every tier width.

\* Buckets follow slots: the sparse versions of one bucket are neighbours.
LEMMA DivMonotone ==
    ASSUME NEW x \in Nat, NEW y \in Nat, NEW b \in Nat \ {0}, x <= y
    PROVE  x \div b <= y \div b /\ x \div b \in Nat
  OBVIOUS

\* What the types of the arguments give: ascending slots, ascending buckets,
\* and a retention window that contains the dense one.
LEMMA Arguments ==
    ASSUME TypeOK
    PROVE  /\ Len(slots) \in Nat /\ DOMAIN slots = 1 .. Len(slots)
           /\ cursor \in Nat /\ cursor >= 1
           /\ DenseFrom \in Nat /\ KeepFrom \in Nat /\ KeepFrom <= DenseFrom
           /\ \A j \in 1 .. Len(slots) : slots[j] \in Nat /\ BucketAt(j) \in Nat
           /\ \A j, k \in 1 .. Len(slots) :
                j < k => slots[j] < slots[k] /\ BucketAt(j) <= BucketAt(k)
  <1>1. slots \in Seq(Nat) /\ \A j, k \in DOMAIN slots : j < k => slots[j] < slots[k]
    BY KeptSlotsAssumption DEF TypeOK
  <1>2. Len(slots) \in Nat /\ DOMAIN slots = 1 .. Len(slots)
    BY <1>1
  <1>3. \A j \in 1 .. Len(slots) : slots[j] \in Nat
    BY <1>1, <1>2
  <1>4. now \in Nat
    BY KeptSlotsAssumption DEF TypeOK
  <1>5. DenseFrom \in Nat /\ KeepFrom \in Nat /\ KeepFrom <= DenseFrom
    BY <1>4, CoverageAssumption DEF DenseFrom, KeepFrom, Minus
  <1>6. cursor \in Nat /\ cursor >= 1
    BY <1>2 DEF TypeOK
  <1>7. ASSUME NEW j \in 1 .. Len(slots), NEW k \in 1 .. Len(slots), j < k
        PROVE  slots[j] < slots[k] /\ BucketAt(j) <= BucketAt(k)
    <2>1. slots[j] < slots[k]
      BY <1>1, <1>2, <1>7
    <2>2. slots[j] <= slots[k]
      BY <2>1, <1>3
    <2>3. QED
      BY <2>1, <2>2, <1>3, CoverageAssumption, DivMonotone DEF BucketAt
  <1>8. \A j \in 1 .. Len(slots) : BucketAt(j) \in Nat
    <2>1. TAKE j \in 1 .. Len(slots)
    <2>2. slots[j] <= slots[j]
      BY <1>3
    <2>3. QED
      BY <2>2, <1>3, CoverageAssumption, DivMonotone DEF BucketAt
  <1>9. QED
    BY <1>2, <1>3, <1>5, <1>6, <1>7, <1>8

LEMMA KeptInit == Init => LoopInv /\ ReturnsKept
  <1>1. ASSUME Init
        PROVE  TypeOK
    <2>1. Len(slots) \in Nat
      BY <1>1, KeptSlotsAssumption DEF Init
    <2>2. cursor \in 1 .. Len(slots) + 1
      BY <1>1, <2>1 DEF Init
    <2>3. QED
      BY <1>1, <2>2 DEF Init, TypeOK
  <1>2. ASSUME Init
        PROVE  LastSparseRight /\ AnchorRight /\ KeepRight
    <2>1. 1 .. cursor - 1 = {}
      BY <1>2 DEF Init
    <2>2. QED
      BY <1>2, <2>1 DEF Init, LastSparseRight, AnchorRight, KeepRight
  <1>3. QED
    BY <1>1, <1>2 DEF Init, LoopInv, ReturnsKept

-----------------------------------------------------------------------------
(* The three ways an iteration goes.                                       *)

LEMMA PassOldStep ==
    ASSUME LoopInv, PassOld
    PROVE  LoopInv'
  <1> USE DEF LoopInv
  <1>1. TypeOK'
    BY Arguments DEF TypeOK, PassOld
  <1>2. /\ \A j \in 1 .. Len(slots) :
             /\ (Old(j))' <=> Old(j)
             /\ (Sparse(j))' <=> Sparse(j)
             /\ (BucketAt(j))' = BucketAt(j)
        /\ DenseFrom' = DenseFrom
    BY DEF PassOld, Old, Sparse, BucketAt, DenseFrom, KeepFrom
  <1>3. Old(cursor) /\ ~Sparse(cursor) /\ ~(slots[cursor] >= DenseFrom)
    BY Arguments DEF PassOld, Old, Sparse, TypeOK
  <1>4. cursor' = cursor + 1 /\ cursor \in 1 .. Len(slots) /\ anchor' = cursor /\ slots' = slots
        /\ keep' = keep /\ lastSparse' = lastSparse /\ returned' = returned
    BY Arguments DEF PassOld
  <1>5. \A j \in 1 .. cursor' - 1 : j \in 1 .. cursor - 1 \/ j = cursor
    BY <1>4, Arguments
  <1>6. LastSparseRight'
    <2>1. lastSparse # Nowhere => lastSparse \in 1 .. Len(slots)
      BY <1>4, Arguments DEF TypeOK
    <2>2. lastSparse' # Nowhere => (Sparse(lastSparse))'
      BY <1>2, <1>4, <2>1 DEF LastSparseRight, Sparse, DenseFrom, KeepFrom, PassOld
    <2>3. \A j \in 1 .. cursor' - 1 :
              (Sparse(j))' => lastSparse' # Nowhere /\ j <= lastSparse'
      BY <1>2, <1>3, <1>4, <1>5, Arguments DEF LastSparseRight
    <2>4. QED
      BY <2>2, <2>3 DEF LastSparseRight
  <1>7. AnchorRight'
    <2>1. anchor' # Nowhere => (Old(anchor))'
      BY <1>3, <1>4 DEF Old, KeepFrom, PassOld
    <2>2. cursor # Nowhere
      BY Arguments, KeptSlotsAssumption
    <2>3. \A j \in 1 .. cursor' - 1 : (Old(j))' => anchor' # Nowhere /\ j <= anchor'
      BY <1>4, <1>5, <2>2, Arguments
    <2>4. QED
      BY <2>1, <2>3 DEF AnchorRight
  <1>8. KeepRight'
    <2>1. SUFFICES ASSUME ~returned, NEW j \in 1 .. cursor' - 1
                   PROVE  j \in keep <=> slots[j] >= DenseFrom \/ (NewestOfBucket(j))'
      BY <1>2, <1>4 DEF KeepRight
    <2>2. CASE j = cursor
      <3>1. j \notin keep
        BY <2>2, Arguments DEF TypeOK
      <3>2. ~(Sparse(j))'
        BY <2>2, <1>2, <1>3, <1>4
      <3>3. QED
        BY <2>2, <3>1, <3>2, <1>3 DEF NewestOfBucket
    <2>3. CASE j \in 1 .. cursor - 1
      <3>1. (NewestOfBucket(j))' <=> NewestOfBucket(j)
        <4>1. j \in 1 .. Len(slots)
          BY <2>3, <1>4, Arguments
        <4>2. \A k \in 1 .. cursor' - 1 : k \in 1 .. Len(slots)
          BY <1>4, Arguments
        <4>3. 1 .. cursor - 1 \subseteq 1 .. cursor' - 1
          BY <1>4, Arguments
        <4>4. QED
          BY <4>1, <4>2, <4>3, <1>2, <1>3, <1>5 DEF NewestOfBucket
      <3>2. QED
        BY <2>1, <2>3, <3>1 DEF KeepRight
    <2>4. QED
      BY <2>2, <2>3, <1>5
  <1>9. QED
    BY <1>1, <1>6, <1>7, <1>8

LEMMA PassDenseStep ==
    ASSUME LoopInv, PassDense
    PROVE  LoopInv'
  <1> USE DEF LoopInv
  <1>1. TypeOK'
    BY Arguments DEF TypeOK, PassDense
  <1>2. /\ \A j \in 1 .. Len(slots) :
             /\ (Old(j))' <=> Old(j)
             /\ (Sparse(j))' <=> Sparse(j)
             /\ (BucketAt(j))' = BucketAt(j)
        /\ DenseFrom' = DenseFrom
    BY DEF PassDense, Old, Sparse, BucketAt, DenseFrom, KeepFrom
  <1>3. ~Old(cursor) /\ ~Sparse(cursor) /\ slots[cursor] >= DenseFrom
    BY Arguments DEF PassDense, Old, Sparse, TypeOK
  <1>4. cursor' = cursor + 1 /\ cursor \in 1 .. Len(slots) /\ anchor' = anchor /\ slots' = slots
        /\ keep' = keep \cup {cursor} /\ lastSparse' = lastSparse /\ returned' = returned
    BY Arguments DEF PassDense
  <1>5. \A j \in 1 .. cursor' - 1 : j \in 1 .. cursor - 1 \/ j = cursor
    BY <1>4, Arguments
  <1>6. LastSparseRight'
    <2>1. lastSparse # Nowhere => lastSparse \in 1 .. Len(slots)
      BY <1>4, Arguments DEF TypeOK
    <2>2. lastSparse' # Nowhere => (Sparse(lastSparse))'
      BY <1>2, <1>4, <2>1 DEF LastSparseRight, Sparse, DenseFrom, KeepFrom, PassDense
    <2>3. \A j \in 1 .. cursor' - 1 :
              (Sparse(j))' => lastSparse' # Nowhere /\ j <= lastSparse'
      BY <1>2, <1>3, <1>4, <1>5, Arguments DEF LastSparseRight
    <2>4. QED
      BY <2>2, <2>3 DEF LastSparseRight
  <1>7. AnchorRight'
    <2>1. anchor # Nowhere => anchor \in 1 .. Len(slots)
      BY <1>4, Arguments DEF TypeOK
    <2>2. anchor' # Nowhere => (Old(anchor))'
      BY <1>2, <1>4, <2>1 DEF AnchorRight, Old, KeepFrom, PassDense
    <2>3. \A j \in 1 .. cursor' - 1 : (Old(j))' => anchor' # Nowhere /\ j <= anchor'
      BY <1>2, <1>3, <1>4, <1>5, Arguments DEF AnchorRight
    <2>4. QED
      BY <2>2, <2>3 DEF AnchorRight
  <1>8. KeepRight'
    <2>1. SUFFICES ASSUME ~returned, NEW j \in 1 .. cursor' - 1
                   PROVE  j \in keep' <=> slots[j] >= DenseFrom \/ (NewestOfBucket(j))'
      BY <1>2, <1>4 DEF KeepRight
    <2>2. CASE j = cursor
      BY <2>2, <1>3, <1>4
    <2>3. CASE j \in 1 .. cursor - 1
      <3>1. (NewestOfBucket(j))' <=> NewestOfBucket(j)
        <4>1. j \in 1 .. Len(slots)
          BY <2>3, <1>4, Arguments
        <4>2. \A k \in 1 .. cursor' - 1 : k \in 1 .. Len(slots)
          BY <1>4, Arguments
        <4>3. 1 .. cursor - 1 \subseteq 1 .. cursor' - 1
          BY <1>4, Arguments
        <4>4. QED
          BY <4>1, <4>2, <4>3, <1>2, <1>3, <1>5 DEF NewestOfBucket
      <3>2. j # cursor
        BY <2>3, Arguments
      <3>3. QED
        BY <2>1, <2>3, <3>1, <3>2, <1>4 DEF KeepRight
    <2>4. QED
      BY <2>2, <2>3, <1>5
  <1>9. QED
    BY <1>1, <1>6, <1>7, <1>8

\* A sparse version supersedes the one kept last if they share a bucket: no
\* other kept index can be of that bucket.
LEMMA PassSparseStep ==
    ASSUME LoopInv, PassSparse
    PROVE  LoopInv'
  <1> USE DEF LoopInv
  <1>1. TypeOK'
    BY Arguments DEF TypeOK, PassSparse, Superseded
  <1>2. /\ \A j \in 1 .. Len(slots) :
             /\ (Old(j))' <=> Old(j)
             /\ (Sparse(j))' <=> Sparse(j)
             /\ (BucketAt(j))' = BucketAt(j)
        /\ DenseFrom' = DenseFrom
    BY DEF PassSparse, Old, Sparse, BucketAt, DenseFrom, KeepFrom
  <1>3. ~Old(cursor) /\ Sparse(cursor) /\ ~(slots[cursor] >= DenseFrom)
    BY Arguments DEF PassSparse, Old, Sparse, TypeOK
  <1>4. cursor' = cursor + 1 /\ cursor \in 1 .. Len(slots) /\ anchor' = anchor /\ slots' = slots
        /\ keep' = (keep \ Superseded(cursor)) \cup {cursor} /\ lastSparse' = cursor
        /\ returned' = returned
    BY Arguments DEF PassSparse
  <1>5. \A j \in 1 .. cursor' - 1 : j \in 1 .. cursor - 1 \/ j = cursor
    BY <1>4, Arguments
  <1>6. LastSparseRight'
    <2>1. cursor # Nowhere
      BY Arguments, KeptSlotsAssumption
    <2>2. (Sparse(lastSparse))'
      BY <1>3, <1>4 DEF Sparse, DenseFrom, KeepFrom, PassSparse
    <2>3. \A j \in 1 .. cursor' - 1 :
              (Sparse(j))' => lastSparse' # Nowhere /\ j <= lastSparse'
      BY <1>4, <1>5, <2>1, Arguments
    <2>4. QED
      BY <2>2, <2>3 DEF LastSparseRight
  <1>7. AnchorRight'
    <2>1. anchor # Nowhere => anchor \in 1 .. Len(slots)
      BY <1>4, Arguments DEF TypeOK
    <2>2. anchor' # Nowhere => (Old(anchor))'
      BY <1>2, <1>4, <2>1 DEF AnchorRight, Old, KeepFrom, PassSparse
    <2>3. \A j \in 1 .. cursor' - 1 : (Old(j))' => anchor' # Nowhere /\ j <= anchor'
      BY <1>2, <1>3, <1>4, <1>5, Arguments DEF AnchorRight
    <2>4. QED
      BY <2>2, <2>3 DEF AnchorRight
  <1>8. KeepRight'
    <2>1. SUFFICES ASSUME ~returned, NEW j \in 1 .. cursor' - 1
                   PROVE  j \in keep' <=> slots[j] >= DenseFrom \/ (NewestOfBucket(j))'
      BY <1>2, <1>4 DEF KeepRight
    <2> DEFINE Bi == BucketAt(cursor)
    <2>2. CASE j = cursor
      <3>1. \A k \in 1 .. cursor' - 1 : k <= j
        BY <2>2, <1>4, Arguments
      <3>2. (Sparse(j))'
        BY <2>2, <1>2, <1>3, <1>4
      <3>3. QED
        BY <2>2, <3>1, <3>2, <1>4 DEF NewestOfBucket
    <2>3. CASE j \in 1 .. cursor - 1
      <3>1. j \in 1 .. Len(slots) /\ j # cursor /\ cursor \in 1 .. cursor' - 1 /\ j < cursor
        BY <2>3, <1>4, Arguments
      <3>2. \A k \in 1 .. cursor' - 1 : k \in 1 .. Len(slots)
        BY <1>4, Arguments
      <3>3. 1 .. cursor - 1 \subseteq 1 .. cursor' - 1
        BY <1>4, Arguments
      \* j stays the newest of its bucket unless cursor is of it
      <3>4. (NewestOfBucket(j))' <=> NewestOfBucket(j) /\ BucketAt(j) # Bi
        <4>1. ASSUME (NewestOfBucket(j))'
              PROVE  NewestOfBucket(j) /\ BucketAt(j) # Bi
          <5>1. Sparse(j) /\ \A k \in 1 .. cursor' - 1 :
                    (Sparse(k) /\ BucketAt(k) = BucketAt(j)) => k <= j
            BY <4>1, <3>1, <3>2, <1>2 DEF NewestOfBucket
          <5>2. NewestOfBucket(j)
            BY <5>1, <3>3 DEF NewestOfBucket
          <5>3. ~(cursor <= j)
            BY <3>1, Arguments
          <5>4. QED
            BY <5>1, <5>2, <5>3, <3>1, <1>3
        <4>2. ASSUME NewestOfBucket(j), BucketAt(j) # Bi
              PROVE  (NewestOfBucket(j))'
          <5>1. Sparse(j) /\ \A k \in 1 .. cursor' - 1 :
                    (Sparse(k) /\ BucketAt(k) = BucketAt(j)) => k <= j
            BY <4>2, <1>5 DEF NewestOfBucket
          <5>2. QED
            BY <5>1, <3>1, <3>2, <1>2 DEF NewestOfBucket
        <4>3. QED
          BY <4>1, <4>2
      \* the superseded index is the only newest one of the bucket of cursor
      <3>5. ASSUME NewestOfBucket(j), BucketAt(j) = Bi
            PROVE  j \in Superseded(cursor)
        <4>1. Sparse(j)
          BY <3>5 DEF NewestOfBucket
        <4>2. lastSparse # Nowhere /\ j <= lastSparse /\ Sparse(lastSparse)
          BY <2>3, <4>1 DEF LastSparseRight
        <4>3. lastSparse \in 1 .. cursor - 1 /\ lastSparse \in 1 .. Len(slots)
          BY <4>2, <1>4, Arguments DEF TypeOK
        <4>4. BucketAt(lastSparse) <= Bi /\ BucketAt(j) <= BucketAt(lastSparse)
          <5>1. lastSparse < cursor /\ (j < lastSparse \/ j = lastSparse)
            BY <4>2, <4>3, <3>1, Arguments
          <5>2. BucketAt(j) \in Nat
            BY <3>1, Arguments
          <5>3. QED
            BY <5>1, <5>2, <4>3, <3>1, <1>4, Arguments
        <4>5. BucketAt(lastSparse) = Bi
          <5>1. BucketAt(lastSparse) \in Nat /\ Bi \in Nat
            BY <4>3, <1>4, Arguments
          <5>2. QED
            BY <5>1, <4>4, <3>5
        <4>6. lastSparse <= j
          BY <4>2, <4>3, <4>5, <3>5 DEF NewestOfBucket
        <4>7. lastSparse = j
          BY <4>2, <4>3, <4>6, <3>1
        <4>8. QED
          BY <4>2, <4>5, <4>7 DEF Superseded
      <3>6. ASSUME j \in Superseded(cursor)
            PROVE  ~(slots[j] >= DenseFrom) /\ BucketAt(j) = Bi
        <4>1. j = lastSparse /\ lastSparse # Nowhere /\ BucketAt(j) = Bi
          BY <3>6 DEF Superseded
        <4>2. Sparse(j)
          BY <4>1 DEF LastSparseRight
        <4>3. slots[j] \in Nat /\ DenseFrom \in Nat
          BY <3>1, Arguments
        <4>4. QED
          BY <4>1, <4>2, <4>3 DEF Sparse
      <3>7. NewestOfBucket(j) => ~(slots[j] >= DenseFrom)
        <4>1. slots[j] \in Nat /\ DenseFrom \in Nat
          BY <3>1, Arguments
        <4>2. QED
          BY <4>1 DEF NewestOfBucket, Sparse
      <3>8. j \in keep <=> slots[j] >= DenseFrom \/ NewestOfBucket(j)
        BY <2>1, <2>3 DEF KeepRight
      <3>9. QED
        BY <3>1, <3>4, <3>5, <3>6, <3>7, <3>8, <1>4
    <2>4. QED
      BY <2>2, <2>3, <1>5
  <1>9. QED
    BY <1>1, <1>6, <1>7, <1>8

-----------------------------------------------------------------------------
(* The loop ends: what was kept is what the tiers keep.                    *)

LEMMA ReturnStep ==
    ASSUME LoopInv, Return
    PROVE  LoopInv' /\ ReturnsKept'
  <1> USE DEF LoopInv
  <1>1. /\ slots' = slots /\ now' = now /\ cursor' = cursor /\ lastSparse' = lastSparse
        /\ anchor' = anchor /\ returned' /\ ~returned /\ cursor = Len(slots) + 1
        /\ keep' = IF anchor = Nowhere THEN keep ELSE keep \cup {anchor}
    BY Arguments DEF Return, TypeOK
  <1>2. 1 .. cursor - 1 = DOMAIN slots /\ DOMAIN slots = 1 .. Len(slots)
    BY <1>1, Arguments
  <1>3. TypeOK'
    BY <1>1 DEF TypeOK
  <1>4. LastSparseRight' /\ AnchorRight' /\ KeepRight'
    BY <1>1 DEF LastSparseRight, AnchorRight, KeepRight, Sparse, Old,
                DenseFrom, KeepFrom
  <1>5. ASSUME NEW j \in DOMAIN slots
        PROVE  j \in keep' <=> IsKept(SlotsOf, slots[j], now)
    <2>1. \A k \in DOMAIN slots : slots[k] \in Nat /\ k \in Nat
      BY <1>2, Arguments
    <2>2. \A k \in DOMAIN slots : slots[k] <= slots[j] <=> k <= j
      BY <1>2, Arguments
    <2>3. DenseFrom \in Nat /\ KeepFrom \in Nat /\ KeepFrom <= DenseFrom
      BY Arguments
    <2>4. j \in keep <=> slots[j] >= DenseFrom \/ NewestOfBucket(j)
      BY <1>1, <1>2 DEF KeepRight
    <2>5. NewestOfBucket(j) <=>
            /\ KeepFrom <= slots[j] /\ slots[j] < DenseFrom
            /\ \A t \in SlotsOf :
                 (t < DenseFrom /\ t \div Bucket = slots[j] \div Bucket)
                    => t <= slots[j]
      <3>1. ASSUME NewestOfBucket(j), NEW k \in DOMAIN slots,
                   slots[k] < DenseFrom, BucketAt(k) = BucketAt(j)
            PROVE  slots[k] <= slots[j]
        <4>1. CASE KeepFrom <= slots[k]
          BY <3>1, <4>1, <1>2, <2>2 DEF NewestOfBucket, Sparse
        <4>2. CASE ~(KeepFrom <= slots[k])
          <5>1. KeepFrom <= slots[j]
            BY <3>1 DEF NewestOfBucket, Sparse
          <5>2. QED
            BY <4>2, <5>1, <2>1, <2>3
        <4>3. QED
          BY <4>1, <4>2
      <3>2. ASSUME KeepFrom <= slots[j], slots[j] < DenseFrom,
                   \A k \in DOMAIN slots :
                      (slots[k] < DenseFrom /\ BucketAt(k) = BucketAt(j))
                        => slots[k] <= slots[j]
            PROVE  NewestOfBucket(j)
        BY <3>2, <1>2, <2>2 DEF NewestOfBucket, Sparse
      <3>3. (\A t \in SlotsOf :
                (t < DenseFrom /\ t \div Bucket = slots[j] \div Bucket)
                    => t <= slots[j])
            <=> \A k \in DOMAIN slots :
                (slots[k] < DenseFrom /\ BucketAt(k) = BucketAt(j))
                    => slots[k] <= slots[j]
        BY DEF SlotsOf, BucketAt
      <3>4. NewestOfBucket(j) => KeepFrom <= slots[j] /\ slots[j] < DenseFrom
        BY DEF NewestOfBucket, Sparse
      <3>5. QED
        BY <3>1, <3>2, <3>3, <3>4
    <2>6. j = anchor <=> /\ slots[j] < KeepFrom
                         /\ \A t \in SlotsOf : t < KeepFrom => t <= slots[j]
      <3>1. ASSUME j = anchor
            PROVE  /\ slots[j] < KeepFrom
                   /\ \A k \in DOMAIN slots : slots[k] < KeepFrom => k <= j
        <4>1. j # Nowhere
          BY <2>1, KeptSlotsAssumption
        <4>2. QED
          BY <3>1, <4>1, <1>2 DEF AnchorRight, Old
      <3>2. ASSUME slots[j] < KeepFrom,
                   \A k \in DOMAIN slots : slots[k] < KeepFrom => k <= j
            PROVE  j = anchor
        <4>1. anchor # Nowhere /\ j <= anchor
          BY <3>2, <1>2 DEF AnchorRight, Old
        <4>2. anchor \in DOMAIN slots /\ slots[anchor] < KeepFrom
          BY <4>1, <1>2 DEF AnchorRight, Old, TypeOK
        <4>3. QED
          BY <4>1, <4>2, <3>2, <2>1
      <3>3. (\A t \in SlotsOf : t < KeepFrom => t <= slots[j])
            <=> \A k \in DOMAIN slots : slots[k] < KeepFrom => k <= j
        BY <2>2 DEF SlotsOf
      <3>4. QED
        BY <3>1, <3>2, <3>3
    <2>7. j \in keep' <=> j \in keep \/ j = anchor
      <3>1. j # Nowhere
        BY <2>1, KeptSlotsAssumption
      <3>2. QED
        BY <1>1, <3>1
    <2>8. slots[j] \in SlotsOf
      BY DEF SlotsOf
    <2>9. QED
      BY <2>4, <2>5, <2>6, <2>7, <2>8 DEF IsKept, DenseFrom, KeepFrom
  <1>6. SlotsOf' = SlotsOf
    BY <1>1 DEF SlotsOf
  <1>7. ReturnsKept'
    BY <1>1, <1>5, <1>6 DEF ReturnsKept
  <1>8. QED
    BY <1>3, <1>4, <1>7

\* kept_slots(slots, now) returns exactly the slots the retention tiers keep,
\* whatever the log, the call and the tiers: the store may be thinned by slots
\* alone (src/src/records.rs, kept_slots).
THEOREM KeptSlotsCorrect == Spec => []ReturnsKept
  <1>1. Init => LoopInv /\ ReturnsKept
    BY KeptInit
  <1>2. LoopInv /\ ReturnsKept /\ [Next]_vars => LoopInv' /\ ReturnsKept'
    <2> SUFFICES ASSUME LoopInv, ReturnsKept, [Next]_vars
                 PROVE  LoopInv' /\ ReturnsKept'
      OBVIOUS
    <2>1. CASE PassOld \/ PassDense \/ PassSparse
      <3>1. LoopInv'
        BY <2>1, PassOldStep, PassDenseStep, PassSparseStep
      <3>2. ~returned'
        <4>1. ~returned
          BY <2>1, Arguments DEF LoopInv, TypeOK, PassOld, PassDense, PassSparse
        <4>2. QED
          BY <2>1, <4>1 DEF PassOld, PassDense, PassSparse
      <3>3. QED
        BY <3>1, <3>2 DEF ReturnsKept
    <2>2. CASE Return
      BY <2>2, ReturnStep
    <2>3. CASE UNCHANGED vars
      BY <2>3 DEF vars, LoopInv, ReturnsKept, TypeOK, LastSparseRight,
                  AnchorRight, KeepRight, NewestOfBucket, Sparse, Old,
                  BucketAt, SlotsOf, DenseFrom, KeepFrom
    <2>4. QED
      BY <2>1, <2>2, <2>3 DEF Next
  <1>3. QED
    BY <1>1, <1>2, PTL DEF Spec
=============================================================================
