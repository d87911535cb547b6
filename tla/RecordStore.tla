----------------------------- MODULE RecordStore -----------------------------
(***************************************************************************)
(* The record store of svmScope (src/src/records.rs): recorded versions of *)
(* watched accounts, the polling rounds and the coverage that say when the *)
(* recorder looked, the poller that fills them, and the lookup a replay    *)
(* makes (src/src/scope.rs, path 3) to call a recorded version exact.      *)
(*                                                                         *)
(* Data abstraction: what an account holds is the slot of its last write,  *)
(* so two states are equal exactly when no write lies between them.  (An   *)
(* account that flips back to earlier bytes is the blind spot the source   *)
(* names itself; it is outside this model.)                                *)
(*                                                                         *)
(* Granularity: each LogStore call is one step.  RecordLog.tla opens up    *)
(* record, thin and import_pack, whose file and index steps interleave.    *)
(***************************************************************************)
EXTENDS Coverage, FiniteSets

CONSTANTS
    Account,        \* the addresses of the store
    InitWatched,    \* those already in watched.txt when the store opens
    ChunkSize,      \* accounts per getMultipleAccounts call (25)
    MaxLag,         \* bound: how far behind the chain an RPC answer may be
    MaxSlot,        \* bound: the chain stops here
    None            \* "no version", "no slot"

ASSUME StoreAssumption ==
    /\ InitWatched \subseteq Account
    /\ ChunkSize \in Nat \ {0}
    /\ MaxSlot \in Nat
    /\ MaxLag \in Nat
    /\ None \notin Nat

Slot == 0 .. MaxSlot
OptSlot == Slot \cup {None}

VARIABLES
    now,        \* the newest slot of the chain
    truth,      \* truth[a][s]: what account a held at the end of slot s
    watched,    \* watched.txt
    ver,        \* ver[a][s]: the version of a stamped s, or None
    rounds,     \* rounds.txt, the rounds inside the dense window
    cov,        \* coverage.txt, the polled ranges
    poll,       \* the poller: addresses left, current chunk, its slot
    rd,         \* one replay looking an account up
    compared,   \* history: the rounds that really compared each account
    thinned     \* history: the newest slot thin() kept densely from

vars == <<now, truth, watched, ver, rounds, cov, poll, rd,
          compared, thinned>>
chainVars == <<now, truth>>
storeVars == <<watched, ver, rounds, cov, compared, thinned>>

IdlePoll == [todo |-> {}, chunk |-> {}, slot |-> 0]
IdleReader == [pc |-> "idle", acct |-> None, floor |-> 0, streamed |-> None,
               start |-> None, val |-> None, next |-> None, snap |-> {}]

-----------------------------------------------------------------------------
(* Operators of LogStore.                                                  *)

Held(a) == {s \in Slot : ver[a][s] # None}

\* version_at: s is the newest version of a at or before f.
IsNewestAt(a, s, f) ==
    /\ s \in Held(a) /\ s <= f
    /\ \A t \in Held(a) : t <= f => t <= s

\* The last entry of a's log.
IsLast(a, s) == s \in Held(a) /\ \A t \in Held(a) : t <= s

\* mutant: an account with no version yet counts as unchanged
LatestIsOrNone(a, v) ==
    Held(a) # {} => \E s \in Slot : IsLast(a, s) /\ ver[a][s] = v

\* latest_is
LatestIs(a, v) == \E s \in Slot : IsLast(a, s) /\ ver[a][s] = v

\* next_version_slot_after
IsNextAfter(a, u, s) ==
    \/ u = None /\ \A t \in Held(a) : t <= s
    \/ /\ u \in Held(a) /\ u > s
       /\ \A t \in Held(a) : t > s => u <= t

\* record_with_balance: a slot at or before the newest one is refused.
Recorded(a, s, v) ==
    IF \E t \in Held(a) : t >= s THEN ver ELSE [ver EXCEPT ![a][s] = v]

\* kept_slots: which versions of a survive thinning as of n.
Kept(a, s, n) == IsKept(Held(a), s, n)

-----------------------------------------------------------------------------
Init ==
    /\ now = 0
    /\ truth = [a \in Account |-> [s \in Slot |-> 0]]
    /\ watched = InitWatched
    /\ ver = [a \in Account |-> [s \in Slot |-> None]]
    /\ rounds = {}
    /\ cov = {}
    /\ poll = IdlePoll
    /\ rd = IdleReader
    /\ compared = [a \in Account |-> {}]
    /\ thinned = 0

-----------------------------------------------------------------------------
(* The chain.  A new slot in which the accounts of W are written.          *)

Advance(W) ==
    /\ now < MaxSlot
    /\ now' = now + 1
    /\ truth' = [a \in Account |-> [truth[a] EXCEPT ![now + 1] =
                    IF a \in W THEN now + 1 ELSE truth[a][now]]]
    /\ UNCHANGED <<storeVars, poll, rd>>

-----------------------------------------------------------------------------
(* The recorder thread: poll_once over a snapshot of the watched set, and  *)
(* the hourly thin.                                                        *)

PollIdle == poll.todo = {} /\ poll.chunk = {}

\* The slots an RPC node may answer with: the nodes behind an endpoint lag.
Answered == {r \in 1 .. now : r + MaxLag >= now}

StartRound ==
    /\ PollIdle
    /\ watched # {}
    /\ poll' = [poll EXCEPT !.todo = watched]
    /\ UNCHANGED <<chainVars, storeVars, rd>>

\* One getMultipleAccounts call answers for chunk C as of slot r.
FetchChunk(C, r) ==
    /\ poll.chunk = {}
    /\ C \subseteq poll.todo
    /\ C # {}
    /\ Cardinality(C) = ChunkSize \/ C = poll.todo
    /\ Cardinality(C) <= ChunkSize
    /\ r \in Answered
    /\ rounds' = NotedRounds(rounds, r)
    /\ cov' = NotedRanges(cov, r)
    /\ poll' = [todo |-> poll.todo \ C, chunk |-> C, slot |-> r]
    /\ UNCHANGED <<chainVars, watched, ver, compared, thinned, rd>>

\* One account of the chunk against its newest version.
CompareOne(a) ==
    LET r == poll.slot
        unchanged == LatestIs(a, truth[a][r])
    IN  /\ a \in poll.chunk
        /\ ver' = IF unchanged THEN ver ELSE Recorded(a, r, truth[a][r])
        /\ poll' = [poll EXCEPT !.chunk = @ \ {a},
                                !.slot = IF poll.chunk = {a} THEN 0 ELSE @]
        \* r compares a when no version stamped after r was in the way
        /\ compared' = IF \A t \in Held(a) : t < r \/ (t = r /\ unchanged)
                       THEN [compared EXCEPT ![a] = @ \cup {r}]
                       ELSE compared
        /\ UNCHANGED <<chainVars, watched, rounds, cov, thinned, rd>>

\* An RPC or I/O error returns from poll_once where it stands.
PollFails ==
    /\ ~PollIdle
    /\ poll' = IdlePoll
    /\ UNCHANGED <<chainVars, storeVars, rd>>

\* thin(n), n being what get_slot answered.
Thin(n) ==
    /\ PollIdle
    /\ n \in Answered
    /\ ver' = [a \in Account |-> [s \in Slot |->
                  IF Kept(a, s, n) THEN ver[a][s] ELSE None]]
    /\ cov' = RetainedRanges(cov, n)
    /\ thinned' = IF Minus(n, Dense) > thinned THEN Minus(n, Dense) ELSE thinned
    /\ UNCHANGED <<chainVars, watched, rounds, compared, poll, rd>>

-----------------------------------------------------------------------------
(* Request threads.                                                        *)

\* The account-changes stream answers the version of a at f, or nothing.
StreamAnswers(a, f) ==
    IF truth[a][f] = 0 THEN {None} ELSE {None, truth[a][f]}

\* How path 3 ends.  "claimed" is Provenance::Recorded.  snap, a history
\* field, keeps the proving round if it had compared the account by ReadNext.
Claimed(r) == [IdleReader EXCEPT !.pc = "claimed", !.acct = rd.acct,
                                 !.floor = rd.floor, !.val = rd.val,
                                 !.snap = rd.snap \cap {r}]
\* mutant: the account's key is dropped with the rest of the lookup
UnprovenForgetsAccount == [IdleReader EXCEPT !.pc = "unproven",
                                             !.streamed = rd.streamed]
Unproven == [IdleReader EXCEPT !.pc = "unproven", !.acct = rd.acct,
                               !.streamed = rd.streamed]

\* reconstruct_drift for one account: the stream is asked unless the store
\* already covers the floor, ...
BeginLookup(a, f) ==
    /\ rd.pc = "idle"
    /\ f \in 1 .. now
    /\ \E v \in IF CoversSlot(cov, f) /\ (\E s \in Slot : IsNewestAt(a, s, f))
                THEN {None} ELSE StreamAnswers(a, f) :
          rd' = [IdleReader EXCEPT !.pc = "begun", !.acct = a, !.floor = f,
                                   !.streamed = v]
    /\ UNCHANGED <<chainVars, storeVars, poll>>

\* ... then the account is watched and its version at the floor read, ...
ReadStart ==
    /\ rd.pc = "begun"
    /\ watched' = watched \cup {rd.acct}
    /\ \/ \E s \in Slot :
            /\ IsNewestAt(rd.acct, s, rd.floor)
            /\ rd' = [rd EXCEPT !.pc = "started", !.start = s,
                                !.val = ver[rd.acct][s]]
       \/ /\ \A s \in Slot : ~IsNewestAt(rd.acct, s, rd.floor)
          /\ rd' = Unproven
    /\ UNCHANGED <<chainVars, ver, rounds, cov, compared, thinned, poll>>

\* ... then the slot of the next version, ...
ReadNext ==
    /\ rd.pc = "started"
    /\ \E u \in OptSlot :
        /\ IsNextAfter(rd.acct, u, rd.start)
        /\ rd' = [rd EXCEPT !.pc = "next", !.next = u,
                            !.snap = compared[rd.acct]]
    /\ UNCHANGED <<chainVars, storeVars, poll>>

\* The round that proves the version read still held at the floor.
Proves(r) ==
    /\ rd.next # None => rd.next > rd.floor
    /\ IsRoundIn(rounds, r, rd.floor,
                 IF rd.next = None THEN MaxSlot ELSE rd.next - 1)
    /\ CoversSlot(cov, rd.floor)

\* ... and last whether a round proves it.
ReadProof ==
    /\ rd.pc = "next"
    /\ \/ \E r \in Slot : Proves(r)
                          /\ rd' = Claimed(r)
       \/ /\ \A r \in Slot : ~Proves(r)
          /\ rd' = Unproven
    /\ UNCHANGED <<chainVars, storeVars, poll>>

\* Unproven: a streamed version is used and written through to the store.
WriteThrough ==
    /\ rd.pc = "unproven"
    /\ ver' = IF rd.streamed = None THEN ver
              ELSE Recorded(rd.acct, rd.streamed, rd.streamed)
    /\ rd' = IdleReader
    /\ UNCHANGED <<chainVars, watched, rounds, cov, compared, thinned,
                   poll>>

FinishLookup ==
    /\ rd.pc = "claimed"
    /\ rd' = IdleReader
    /\ UNCHANGED <<chainVars, storeVars, poll>>

\* replay_block_prefix and program_elf_at record what the stream gave them
\* for accounts nobody watches.
RecordUnwatched(a, f) ==
    /\ f \in 1 .. now
    /\ truth[a][f] # 0
    /\ ver' = Recorded(a, truth[a][f], truth[a][f])
    /\ UNCHANGED <<chainVars, watched, rounds, cov, compared, thinned,
                   poll, rd>>

\* The process stops anywhere and opens the same directory again.
Restart ==
    /\ poll' = IdlePoll
    /\ rd' = IdleReader
    /\ UNCHANGED <<chainVars, storeVars>>

-----------------------------------------------------------------------------
Poller ==
    \/ StartRound
    \/ \E C \in SUBSET poll.todo, r \in 1 .. now : FetchChunk(C, r)
    \/ \E a \in Account : CompareOne(a)
    \/ PollFails
    \/ \E n \in 1 .. now : Thin(n)

Request ==
    \/ \E a \in Account, f \in 1 .. now : BeginLookup(a, f)
    \/ ReadStart
    \/ ReadNext
    \/ ReadProof
    \/ WriteThrough
    \/ FinishLookup
    \/ \E a \in Account, f \in 1 .. now : RecordUnwatched(a, f)

Next ==
    \/ \E W \in SUBSET Account : Advance(W)
    \/ Poller
    \/ Request
    \/ Restart

Spec == Init /\ [][Next]_vars

-----------------------------------------------------------------------------
(* Type invariant.                                                         *)
Reader == [pc : {"idle", "begun", "started", "next", "claimed", "unproven"},
           acct : Account \cup {None}, floor : Slot, streamed : OptSlot,
           start : OptSlot, val : OptSlot, next : OptSlot, snap : SUBSET Slot]

TypeOK ==
    /\ now \in Slot
    /\ truth \in [Account -> [Slot -> Slot]]
    /\ watched \subseteq Account
    /\ ver \in [Account -> [Slot -> OptSlot]]
    /\ rounds \subseteq Slot
    /\ cov \subseteq Ranges(Slot)
    /\ poll \in [todo : SUBSET Account, chunk : SUBSET Account, slot : Slot]
    /\ rd \in Reader
    /\ rd.pc # "idle" => rd.acct \in Account
    /\ compared \in [Account -> SUBSET Slot]
    /\ thinned \in Slot

(* A lookup that claims a recorded version is exact is right whenever the  *)
(* round it rests on had compared that account before the lookup asked for *)
(* the next version, and the floor is not in the thinned tier: whatever    *)
(* rounds, lagging nodes, failed polls, thinning and stream writes came in *)
(* between (records.rs round_in, scope.rs path 3).                         *)
ClaimSound ==
    (rd.pc = "claimed" /\ rd.snap # {} /\ thinned <= rd.floor)
        => rd.val = truth[rd.acct][rd.floor]

-----------------------------------------------------------------------------
(* What the source says of a lookup, with all its reads at one moment.     *)

\* s is the version the lookup of a at f returns, and round r proves it.
ProvenAt(a, f, s, r) ==
    /\ IsNewestAt(a, s, f)
    /\ \E u \in OptSlot :
        /\ IsNextAfter(a, u, s)
        /\ u # None => u > f
        /\ IsRoundIn(rounds, r, f, IF u = None THEN MaxSlot ELSE u - 1)
    /\ CoversSlot(cov, f)
=============================================================================
