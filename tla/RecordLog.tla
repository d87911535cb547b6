----------------------------- MODULE RecordLog ------------------------------
(***************************************************************************)
(* One account's log in the record store (src/src/records.rs) at the grain *)
(* of its file and lock accesses: a thread that records reads the index,   *)
(* the newest state, the file's length, then appends, then extends the     *)
(* index, then the digest, and no lock is held from one to the next.  The  *)
(* recorder thread polls, thins and imports; request threads record what   *)
(* the account-changes stream gave them; a reader looks a slot up.  The    *)
(* process may stop between any two accesses and open the log again.       *)
(***************************************************************************)
EXTENDS VersionChain, Coverage

CONSTANTS
    Histories,      \* what the account may have held: one is chosen
    Recorder,       \* the recorder thread
    Requests,       \* request threads that record
    Nobody          \* no digest cached

MaxSlot == Max({Len(h) : h \in Histories})
Slot == 1 .. MaxSlot
Thread == {Recorder} \cup Requests
NewestSlot == MaxSlot + 1   \* u64::MAX

\* What an account holds is bytes, or it is absent.
ASSUME LogAssumption ==
    /\ Recorder \notin Requests
    /\ \A h \in Histories :
        /\ Len(h) = MaxSlot
        /\ h \in Seq(ToSet(h))
        /\ \A s \in DOMAIN h : h[s] # Bad /\ (h[s] = Absent \/ h[s] \in Seq(Nat))

VARIABLES
    truth,      \* truth[s]: what the account held at the end of slot s
    file,       \* the log's records
    held,       \* history: the versions the file decodes to
    idx,        \* the index entry of the log
    latest,     \* the digest of the newest version, or Nobody
    th,         \* what each thread is doing with the log
    rd,         \* one lookup
    acked,      \* history: slots recorded without error and not thinned away
    inferred,   \* history: slots recorded with an inferred balance
    part        \* what runs beside what, see below

vars == <<truth, file, held, idx, latest, th, rd, acked, inferred>>
partVars == <<vars, part>>
logVars == <<file, held, idx, latest>>

Job(pc) == [pc |-> pc, slot |-> 0, known |-> TRUE, sinceFull |-> 0,
            rec |-> <<>>, off |-> 0, buf |-> <<>>, gone |-> {}]
Idle == Job("idle")
\* floor, a history field: the newest acknowledged version the lookup may give
IdleReader == [pc |-> "idle", slot |-> 0, ents |-> <<>>, ans |-> <<>>, floor |-> 0]

Init ==
    /\ truth \in Histories
    /\ file = <<>>
    /\ held = {}
    /\ idx = <<>>
    /\ latest = Nobody
    /\ th = [t \in Thread |-> IF t = Recorder THEN Job("restore") ELSE Idle]
    /\ rd = IdleReader
    /\ acked = {}
    /\ inferred = {}

\* The file is now f.
Write(f) ==
    /\ file' = f
    /\ held' = ToSet(Versions(f))

Goto(t, job) == th' = [th EXCEPT ![t] = job]

-----------------------------------------------------------------------------
(* record_with_balance.                                                    *)

NotNewer(s) == idx # <<>> /\ Last(idx).slot >= s

\* The check against the index, and what it tells of the log's end.
Recording(s, known) ==
    IF NotNewer(s) THEN Idle
    ELSE [Job(IF idx # <<>> /\ Last(idx).kind # "absent" THEN "base" ELSE "stat")
            EXCEPT !.slot = s, !.known = known,
                   !.sinceFull = TrailingDiffs(idx),
                   !.rec = Encoded(s, truth[s], Absent, TrailingDiffs(idx), known)]

StartRecord(t, s, known) ==
    /\ th[t].pc = "idle"
    /\ t \in Requests
    /\ Goto(t, Recording(s, known))
    /\ UNCHANGED <<truth, logVars, rd, acked, inferred>>

\* The newest state, to diff against.  An error returns.
ReadBase(t) ==
    /\ th[t].pc = "base"
    /\ LET job == th[t]
           base == VersionAt(idx, file, NewestSlot).val
       IN  Goto(t, IF base = Bad THEN Idle
                   ELSE [job EXCEPT !.pc = "stat",
                           !.rec = Encoded(job.slot, truth[job.slot], base,
                                           job.sinceFull, job.known)])
    /\ UNCHANGED <<truth, logVars, rd, acked, inferred>>

\* The file's length, then the append.
StatLog(t) ==
    /\ th[t].pc = "stat"
    /\ Goto(t, [th[t] EXCEPT !.pc = "append", !.off = Len(file)])
    /\ UNCHANGED <<truth, logVars, rd, acked, inferred>>

AppendRecord(t) ==
    /\ th[t].pc = "append"
    /\ Write(Append(file, th[t].rec))
    /\ inferred' = IF th[t].known \/ th[t].rec.kind = "absent" THEN inferred
                   ELSE inferred \cup {th[t].slot}
    /\ Goto(t, [th[t] EXCEPT !.pc = "push"])
    /\ UNCHANGED <<truth, idx, latest, rd, acked>>

PushEntry(t) ==
    /\ th[t].pc = "push"
    /\ idx' = Append(idx, Entry(th[t].rec, th[t].off + 1))
    /\ Goto(t, [th[t] EXCEPT !.pc = "digest"])
    /\ UNCHANGED <<truth, file, held, latest, rd, acked, inferred>>

\* The digest of what was recorded; the call returns.
CacheDigest(t) ==
    /\ th[t].pc = "digest"
    /\ latest' = truth[th[t].slot]
    /\ acked' = acked \cup {th[t].slot}
    /\ Goto(t, Idle)
    /\ UNCHANGED <<truth, file, held, idx, rd, inferred>>

-----------------------------------------------------------------------------
(* The recorder: latest_is then record, thin, import_pack.                 *)

\* latest_is: the cached digest answers, else the newest version is read.
Poll(s) ==
    /\ th[Recorder].pc = "idle"
    /\ Goto(Recorder, IF latest = Nobody /\ idx # <<>> THEN [Job("ask") EXCEPT !.slot = s]
                      ELSE IF latest # Nobody /\ latest = truth[s] THEN Idle
                      ELSE Recording(s, TRUE))
    /\ UNCHANGED <<truth, logVars, rd, acked, inferred>>

ReadNewest ==
    /\ th[Recorder].pc = "ask"
    /\ LET newest == VersionAt(idx, file, NewestSlot).val
       IN  Goto(Recorder, IF newest = Bad THEN Idle
                          ELSE [th[Recorder] EXCEPT !.pc = "fill", !.rec = newest])
    /\ UNCHANGED <<truth, logVars, rd, acked, inferred>>

\* mutant: the digest of the state asked about is cached
FillAsked ==
    /\ th[Recorder].pc = "fill"
    /\ latest' = truth[th[Recorder].slot]
    /\ LET s == th[Recorder].slot
       IN  Goto(Recorder, IF th[Recorder].rec = truth[s] THEN Idle
                          ELSE Recording(s, TRUE))
    /\ UNCHANGED <<truth, file, held, idx, rd, acked, inferred>>

FillDigest ==
    /\ th[Recorder].pc = "fill"
    /\ latest' = th[Recorder].rec
    /\ LET s == th[Recorder].slot
       IN  Goto(Recorder, IF th[Recorder].rec = truth[s] THEN Idle
                          ELSE Recording(s, TRUE))
    /\ UNCHANGED <<truth, file, held, idx, rd, acked, inferred>>

Readable(versions) == \A p \in DOMAIN versions : versions[p].val # Bad

\* mutant: the records kept are copied, diffs without their bases
ThinCopying(n) ==
    /\ th[Recorder].pc = "idle"
    /\ LET kept == SelectSeq(file, LAMBDA r : IsKept(SlotsIn(file), r.slot, n))
       IN  /\ kept # file
           /\ Goto(Recorder, [Job("rename") EXCEPT !.buf = kept,
                                !.gone = SlotsIn(file) \ SlotsIn(kept)])
    /\ UNCHANGED <<truth, logVars, rd, acked, inferred>>

\* thin(n): the log is read and re-encoded without what the tiers drop.  The
\* rewrite goes to a temporary file that replaces the log in one step.
ReadToThin(n) ==
    /\ th[Recorder].pc = "idle"
    /\ LET all == Versions(file)
           kept == InOrder({v \in ToSet(all) : IsKept(SlotsIn(all), v.slot, n)})
       IN  /\ Readable(all)
           /\ kept # all
           /\ Goto(Recorder, [Job("rename") EXCEPT !.buf = ChainOf(kept),
                                !.gone = SlotsIn(all) \ SlotsIn(kept)])
    /\ UNCHANGED <<truth, logVars, rd, acked, inferred>>

RenameOver ==
    /\ th[Recorder].pc = "rename"
    /\ Write(th[Recorder].buf)
    /\ acked' = acked \ th[Recorder].gone
    /\ Goto(Recorder, [th[Recorder] EXCEPT !.pc = "reindex"])
    /\ UNCHANGED <<truth, idx, latest, rd, inferred>>

Reindex ==
    /\ th[Recorder].pc = "reindex"
    /\ idx' = IndexOf(th[Recorder].buf)
    /\ latest' = Nobody
    /\ Goto(Recorder, Idle)
    /\ UNCHANGED <<truth, file, held, rd, acked, inferred>>

\* restore: packs of other processes that recorded the account are imported.
\* One that only adds newer versions is appended, else the two are merged.
PackOf(S) == InOrder({[slot |-> s, val |-> truth[s]] : s \in S})

ImportPack(S) ==
    /\ th[Recorder].pc = "restore"
    /\ S # {}
    /\ IF idx = <<>> \/ \A s \in S : s > Last(idx).slot
       THEN Goto(Recorder, [Job("chainstat") EXCEPT !.buf = ChainOf(PackOf(S))])
       ELSE Goto(Recorder, [Job("merge") EXCEPT !.buf = PackOf(S)])
    /\ UNCHANGED <<truth, logVars, rd, acked, inferred>>

MergePack ==
    /\ th[Recorder].pc = "merge"
    /\ LET here == Versions(file)
       IN  Goto(Recorder, IF Readable(here)
                          THEN [Job("mergerename") EXCEPT
                                    !.buf = ChainOf(Merged(here, th[Recorder].buf))]
                          ELSE Job("restore"))
    /\ UNCHANGED <<truth, logVars, rd, acked, inferred>>

MergeRename ==
    /\ th[Recorder].pc = "mergerename"
    /\ Write(th[Recorder].buf)
    /\ Goto(Recorder, [th[Recorder] EXCEPT !.pc = "mergeindex"])
    /\ UNCHANGED <<truth, idx, latest, rd, acked, inferred>>

MergeIndex ==
    /\ th[Recorder].pc = "mergeindex"
    /\ idx' = IndexOf(th[Recorder].buf)
    /\ latest' = Nobody
    /\ Goto(Recorder, Job("restore"))
    /\ UNCHANGED <<truth, file, held, rd, acked, inferred>>

\* append_chain
StatChain ==
    /\ th[Recorder].pc = "chainstat"
    /\ Goto(Recorder, [th[Recorder] EXCEPT !.pc = "chainappend", !.off = Len(file)])
    /\ UNCHANGED <<truth, logVars, rd, acked, inferred>>

AppendChain ==
    /\ th[Recorder].pc = "chainappend"
    /\ Write(file \o th[Recorder].buf)
    /\ Goto(Recorder, [th[Recorder] EXCEPT !.pc = "chainindex"])
    /\ UNCHANGED <<truth, idx, latest, rd, acked, inferred>>

IndexChain ==
    /\ th[Recorder].pc = "chainindex"
    /\ LET job == th[Recorder]
       IN  idx' = idx \o [p \in DOMAIN job.buf |-> Entry(job.buf[p], job.off + p)]
    /\ latest' = Nobody
    /\ Goto(Recorder, Job("restore"))
    /\ UNCHANGED <<truth, file, held, rd, acked, inferred>>

\* The restore is over, the polling loop begins.
StartLoop ==
    /\ th[Recorder].pc = "restore"
    /\ Goto(Recorder, Idle)
    /\ UNCHANGED <<truth, logVars, rd, acked, inferred>>

-----------------------------------------------------------------------------
(* version_at as a lookup makes it: the index is cloned under its lock,    *)
(* then the file is opened and read.                                       *)

StartLookup(s) ==
    /\ rd.pc = "idle"
    /\ rd' = [IdleReader EXCEPT !.pc = "read", !.slot = s, !.ents = idx,
                                !.floor = Max({0} \cup {a \in acked : a <= s})]
    /\ UNCHANGED <<truth, logVars, th, acked, inferred>>

ReadLog ==
    /\ rd.pc = "read"
    /\ rd' = [IdleReader EXCEPT !.pc = "read done", !.slot = rd.slot,
                                !.floor = rd.floor,
                                !.ans = VersionAt(rd.ents, file, rd.slot)]
    /\ UNCHANGED <<truth, logVars, th, acked, inferred>>

EndLookup ==
    /\ rd.pc = "read done"
    /\ rd' = IdleReader
    /\ UNCHANGED <<truth, logVars, th, acked, inferred>>

-----------------------------------------------------------------------------
\* LogStore::open indexes the file.  A temporary file left behind is never
\* looked at.
Reopen ==
    /\ idx' = IndexOf(file')
    /\ latest' = Nobody
    /\ th' = [t \in Thread |-> IF t = Recorder THEN Job("restore") ELSE Idle]
    /\ rd' = IdleReader
    /\ UNCHANGED <<truth, acked, inferred>>

\* The process stops between two accesses, ...
Restart ==
    /\ UNCHANGED <<file, held>>
    /\ Reopen

\* ... or with a record half written (power, a full disk).
CrashMidAppend ==
    /\ \E t \in Thread :
            /\ th[t].pc = "append"
            /\ Write(Append(file, [th[t].rec EXCEPT !.torn = TRUE]))
    /\ Reopen

RecordStep(t) ==
    \/ ReadBase(t)
    \/ StatLog(t)
    \/ AppendRecord(t)
    \/ PushEntry(t)
    \/ CacheDigest(t)

Polling ==
    \/ \E s \in Slot : Poll(s)
    \/ ReadNewest
    \/ FillDigest
    \/ RecordStep(Recorder)

Thinning ==
    \/ \E n \in Slot : ReadToThin(n)
    \/ RenameOver
    \/ Reindex

Restoring ==
    \/ \E S \in SUBSET Slot : ImportPack(S)
    \/ MergePack
    \/ MergeRename
    \/ MergeIndex
    \/ StatChain
    \/ AppendChain
    \/ IndexChain
    \/ StartLoop

Requesting(t) ==
    \/ \E s \in Slot, known \in BOOLEAN : StartRecord(t, s, known)
    \/ RecordStep(t)

LookingUp == (\E s \in Slot : StartLookup(s)) \/ ReadLog \/ EndLookup

-----------------------------------------------------------------------------
(* What may run beside what.  No lock keeps two of them apart that rewrite *)
(* or extend the log, and nothing cuts off what a crash left half written. *)

\* Thinning, merging and crashes beside the recorder.  What a crash leaves half
\* written is held whole again by a thin before anything is appended behind it.
Whole == \A p \in DOMAIN file : ~file[p].torn
OneRecorder ==
    \/ StartLoop \/ Thinning \/ Restart \/ CrashMidAppend
    \/ Whole /\ (Polling \/ Restoring)

\* The recorder and the requests, one of them recording at a time, beside
\* lookups.
Alone(t) == \A u \in Thread \ {t} : th[u].pc = "idle"
OneWriter ==
    \/ StartLoop \/ LookingUp \/ Restart
    \/ Alone(Recorder) /\ Polling
    \/ \E t \in Requests : Alone(t) /\ Requesting(t)

\* One or the other, from the start.
LogInit == Init /\ part \in {"recorder", "one_writer"}
LogNext ==
    \/ part = "recorder" /\ OneRecorder /\ UNCHANGED part
    \/ part = "one_writer" /\ OneWriter /\ UNCHANGED part
LogSpec == LogInit /\ [][LogNext]_partVars

\* Crashes with the poller not held back, as the code has it.
TornPollSpec ==
    Init /\ part = "torn"
    /\ [][(StartLoop \/ Polling \/ Restart \/ CrashMidAppend) /\ UNCHANGED part]_partVars

-----------------------------------------------------------------------------
(* No thread has the log in hand.                                          *)
Quiet == \A t \in Thread : th[t].pc \in {"idle", "restore"}

(* The log, as each append and rename leaves it, is the version map it     *)
(* stands for: records only add newer versions, thin keeps what the tiers  *)
(* keep, and an import changes no version that is there.                   *)
Abstract == INSTANCE VersionMap WITH
                Slots <- Slot,
                Values <- UNION {ToSet(h) : h \in Histories},
                versions <- held
MapSpec == Abstract!Spec

TypeOK ==
    /\ truth \in Histories
    /\ \A p \in DOMAIN file : file[p].slot \in Slot /\ file[p].kind \in Kinds
    /\ \A p \in DOMAIN idx : idx[p].slot \in Slot /\ idx[p].pos \in Nat \ {0}
    /\ latest \in ToSet(truth) \cup {Nobody}
    /\ acked \subseteq Slot /\ inferred \subseteq Slot

(* Every version record() acknowledged and thin did not drop is found at   *)
(* its slot, and reads as what the account held then, also after restarts, *)
(* through diffs, absences, thinning and imports (records.rs version_at,   *)
(* record_with_balance, rewrite_bytes, append_chain).                      *)
AckedHeld ==
    Quiet => \A s \in acked :
                LET v == VersionAt(idx, file, s)
                IN  v.slot = s /\ v.val = truth[s]

(* The digest latest_is answers with is the newest version's, so a change  *)
(* is never taken for "unchanged" (records.rs:598-599).                    *)
DigestTrue ==
    Quiet => \/ latest = Nobody
             \/ latest = VersionAt(idx, file, NewestSlot).val

(* The index a process extends call by call is the one it would build if   *)
(* it opened the log now; every version in it reads, and no lookup applies *)
(* more than FULL_EVERY diffs.                                             *)
IndexTrue ==
    Quiet => /\ idx = IndexOf(file)
             /\ \A p \in DOMAIN idx : VersionAt(idx, file, idx[p].slot).val # Bad
             /\ \A p \in DOMAIN idx : p - StartOf(idx, p) <= FullEvery

(* What the process keeps beside the log -- its index and its digest --    *)
(* tells of the log what the log says.                                     *)
BooksTrue == TypeOK /\ DigestTrue /\ IndexTrue

(* records.rs:733-734: a lookup gives the newest version at or before its  *)
(* slot, whatever is recorded between its read of the index and its read   *)
(* of the file.                                                            *)
LookupExact ==
    rd.pc = "read done" =>
        /\ rd.ans.slot >= rd.floor /\ rd.ans.slot <= rd.slot
        /\ rd.ans.slot # 0 => rd.ans.val = truth[rd.ans.slot]

(* records.rs:86-87: a balance that was inferred never reads back as     *)
(* observed.                                                               *)
InferredFlagged ==
    Quiet => \A p \in DOMAIN idx : idx[p].slot \in inferred => ~idx[p].known

(* What a caller reads is what was recorded: the version, and whether its  *)
(* balance was seen or inferred.                                           *)
ReadsTrue == LookupExact /\ InferredFlagged
=============================================================================
