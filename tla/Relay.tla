------------------------------- MODULE Relay -------------------------------
(***************************************************************************)
(* RPC relayed through a reader's page (server: relay.rs, run_relay).  A    *)
(* page holds a socket open; two tasks serve it, one reading answers and    *)
(* one writing calls.  A caller registers its call, queues it and waits on  *)
(* a oneshot that an answer, the end of the session or a timeout ends.      *)
(***************************************************************************)
EXTENDS Naturals, Sequences, FiniteSets

CONSTANTS
    Pages,         \* connections, each with a random session id of its own
    Callers,       \* RPC calls of the engine
    MaxSessions    \* MAX_SESSIONS

ASSUME RelayAssumption == MaxSessions \in Nat \ {0}

VARIABLES
    sessions,   \* SESSIONS: the pages registered
    socket,     \* per page: its reader task, from "off" to "gone"
    closers,    \* tasks that took a session out and still owe its fail_all
    receiver,   \* pages whose writer task still holds the channel
    channel,    \* per page: calls queued for it
    pageHas,    \* per page: calls it was sent
    pending,    \* per page: Session::pending
    idle,       \* sessions with no request for IDLE_TIMEOUT
    call        \* per caller: its stage, its page, what its oneshot holds, and (ghost)
                \* whether it was queued after its session was taken out

relayVars == <<sessions, socket, closers, receiver, channel, pageHas, pending, idle, call>>

NoPage == "none"
Nothing == "nothing"
Lost == "disconnected"

\* What a oneshot can hold besides an answer is told apart from every answer.
ASSUME RepliesAssumption == {Nothing, Lost} \cap Callers = {}

RelayInit ==
    /\ sessions = {} /\ closers = {} /\ receiver = {} /\ idle = {}
    /\ socket = [p \in Pages |-> "off"]
    /\ channel = [p \in Pages |-> <<>>]
    /\ pageHas = [p \in Pages |-> {}]
    /\ pending = [p \in Pages |-> {}]
    /\ call = [c \in Callers |-> [stage |-> "new", page |-> NoPage, reply |-> Nothing, late |-> FALSE]]

\* open: sessions idle too long go first; a full registry refuses the page.
Connect(p) ==
    LET kept == sessions \ idle
        room == Cardinality(kept) < MaxSessions
    IN  /\ socket[p] = "off"
        /\ sessions' = IF room THEN kept \cup {p} ELSE kept
        /\ receiver' = IF room THEN receiver \cup {p} ELSE receiver
        /\ socket' = [socket EXCEPT ![p] = IF room THEN "up" ELSE "gone"]
        /\ idle' = idle \ {p}
        /\ UNCHANGED <<closers, channel, pageHas, pending, call>>

\* No request for half an hour; a call in flight ends long before that.
GoIdle(p) ==
    /\ p \in sessions \ idle
    /\ \A c \in Callers : call[c].page = p => call[c].stage \in {"resolved", "over"}
    /\ idle' = idle \cup {p}
    /\ UNCHANGED <<sessions, socket, closers, receiver, channel, pageHas, pending, call>>

\* client_for: the caller holds the session from here on.
Obtain(c, p) ==
    /\ call[c].stage = "new" /\ p \in sessions
    /\ call' = [call EXCEPT ![c].stage = "resolved", ![c].page = p]
    /\ UNCHANGED <<sessions, socket, closers, receiver, channel, pageHas, pending, idle>>

Register(c) ==
    /\ call[c].stage = "resolved"
    /\ pending' = [pending EXCEPT ![call[c].page] = @ \cup {c}]
    /\ call' = [call EXCEPT ![c].stage = "registered"]
    /\ UNCHANGED <<sessions, socket, closers, receiver, channel, pageHas, idle>>

\* Touch last_used and queue the call; a channel without a receiver refuses it.
Queue(c) ==
    LET p == call[c].page
    IN  /\ call[c].stage = "registered"
        /\ idle' = idle \ {p}
        /\ IF p \in receiver
           THEN /\ channel' = [channel EXCEPT ![p] = Append(@, c)]
                /\ call' = [call EXCEPT ![c].stage = "waiting", ![c].late = p \notin sessions]
                /\ UNCHANGED pending
           ELSE /\ pending' = [pending EXCEPT ![p] = @ \ {c}]
                /\ call' = [call EXCEPT ![c].stage = "over"]
                /\ UNCHANGED channel
        /\ UNCHANGED <<sessions, socket, closers, receiver, pageHas>>

\* The oneshot was sent something.
Answered(c) ==
    /\ call[c].stage = "waiting" /\ call[c].reply # Nothing
    /\ call' = [call EXCEPT ![c].stage = "over"]
    /\ UNCHANGED <<sessions, socket, closers, receiver, channel, pageHas, pending, idle>>

\* mutant: the timed out call stays registered
GiveUpQuietly(c) ==
    /\ call[c].stage = "waiting" /\ call[c].reply = Nothing
    /\ call' = [call EXCEPT ![c].stage = "over"]
    /\ UNCHANGED <<sessions, socket, closers, receiver, channel, pageHas, pending, idle>>

\* CALL_TIMEOUT passed.
GiveUp(c) ==
    /\ call[c].stage = "waiting" /\ call[c].reply = Nothing
    /\ pending' = [pending EXCEPT ![call[c].page] = @ \ {c}]
    /\ call' = [call EXCEPT ![c].stage = "over"]
    /\ UNCHANGED <<sessions, socket, closers, receiver, channel, pageHas, idle>>

\* The writer task sends the next call down; on a dead socket it ends instead,
\* and closes the session.
Removed(p, task) ==
    /\ sessions' = sessions \ {p}
    /\ closers' = IF p \in sessions THEN closers \cup {<<p, task>>} ELSE closers
WriteDown(p) ==
    /\ p \in receiver /\ channel[p] # <<>>
    /\ IF socket[p] = "up"
       THEN /\ pageHas' = [pageHas EXCEPT ![p] = @ \cup {Head(channel[p])}]
            /\ channel' = [channel EXCEPT ![p] = Tail(@)]
            /\ UNCHANGED <<sessions, closers, receiver>>
       ELSE /\ receiver' = receiver \ {p}
            /\ Removed(p, "writer")
            /\ UNCHANGED <<channel, pageHas>>
    /\ UNCHANGED <<socket, pending, idle, call>>

\* deliver: an answer for a session still registered and a call still pending
\* reaches its caller; any other is dropped.  The page may answer twice.
Deliver(p, c) ==
    /\ socket[p] = "up" /\ c \in pageHas[p]
    /\ IF p \in sessions /\ c \in pending[p]
       THEN /\ pending' = [pending EXCEPT ![p] = @ \ {c}]
            /\ call' = [call EXCEPT ![c].reply = c]
       ELSE UNCHANGED <<pending, call>>
    /\ UNCHANGED <<sessions, socket, closers, receiver, channel, pageHas, idle>>

\* The page goes away; the reader task sees it, takes the session out,
\* fails what it owed, and stops the writer.
Disconnect(p) ==
    /\ socket[p] = "up"
    /\ socket' = [socket EXCEPT ![p] = "lost"]
    /\ UNCHANGED <<sessions, closers, receiver, channel, pageHas, pending, idle, call>>

CloseSession(p) ==
    /\ socket[p] = "lost"
    /\ Removed(p, "reader")
    /\ socket' = [socket EXCEPT ![p] = "closed"]
    /\ UNCHANGED <<receiver, channel, pageHas, pending, idle, call>>

FailAll(p, task) ==
    /\ <<p, task>> \in closers
    /\ closers' = closers \ {<<p, task>>}
    /\ pending' = [pending EXCEPT ![p] = {}]
    /\ call' = [c \in Callers |->
                  IF c \in pending[p] THEN [call[c] EXCEPT !.reply = Lost] ELSE call[c]]
    /\ UNCHANGED <<sessions, socket, receiver, channel, pageHas, idle>>

StopWriter(p) ==
    /\ socket[p] = "closed" /\ <<p, "reader">> \notin closers
    /\ socket' = [socket EXCEPT ![p] = "gone"]
    /\ receiver' = receiver \ {p}
    /\ UNCHANGED <<sessions, closers, channel, pageHas, pending, idle, call>>

RelayNext ==
    \/ \E p \in Pages : Connect(p) \/ GoIdle(p) \/ WriteDown(p) \/ Disconnect(p)
                          \/ CloseSession(p) \/ StopWriter(p)
    \/ \E p \in Pages, task \in {"reader", "writer"} : FailAll(p, task)
    \/ \E p \in Pages, c \in Callers : Obtain(c, p) \/ Deliver(p, c)
    \/ \E c \in Callers : Register(c) \/ Queue(c) \/ Answered(c) \/ GiveUp(c)

RelaySpec == RelayInit /\ [][RelayNext]_relayVars

\* The caller waits for a page that is gone and cleaned up after.
Stranded(c) ==
    /\ call[c].stage = "waiting" /\ call[c].reply = Nothing
    /\ socket[call[c].page] = "gone" /\ \A x \in closers : x[1] # call[c].page

\* A caller only ever gets the answer to its own call; what is pending is a
\* call that still waits for it, so a late or repeated answer finds nobody and
\* no entry outlives its call; and once a page is gone and cleaned up after,
\* only a call queued after its session was taken out still waits for it.
RelaySound ==
    /\ \A c \in Callers : call[c].reply \in {Nothing, Lost, c}
    /\ \A p \in Pages : \A c \in pending[p] :
          call[c].page = p /\ call[c].stage \in {"registered", "waiting"} /\ call[c].reply = Nothing
    /\ \A c \in Callers : Stranded(c) => call[c].late
=============================================================================
