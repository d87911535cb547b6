------------------------------ MODULE Runtime ------------------------------
(***************************************************************************)
(* One transaction inside the vendored program runtime                     *)
(* (vendor/solana-program-runtime): the stack of invocations, the accounts *)
(* they write, the log lines they leave and what svmscope's observers      *)
(* record on the way.  Everything the debugger shows (module Trace) is     *)
(* rebuilt from `logs`, `frames` (the runtime's inner-instruction list),   *)
(* `done` and `snaps`; the fields named in ghost comments are the truth    *)
(* the rebuilt steps are compared with.                                    *)
(***************************************************************************)
EXTENDS Naturals, Sequences, SequencesExt, FiniteSets, FiniteSetsExt

CONSTANTS
    Sbf,          \* programs that run in the VM
    Builtin,      \* native programs: no "consumed" line, no register trace
    Precompile,   \* signature checks: no VM, no log line, no observer
    Missing,      \* addresses that hold no program
    Accounts,     \* the accounts the transaction names
    MaxTop,       \* longest message
    MaxFrames,    \* most invocations that run
    MaxHeight,    \* the runtime's stack capacity
    MaxWrites,    \* most account writes in a run
    MaxSaid       \* most program-chosen log lines in a run

ASSUME RuntimeAssumption ==
    /\ {MaxTop, MaxFrames, MaxHeight, MaxWrites, MaxSaid} \subseteq Nat
    /\ MaxTop >= 1 /\ MaxHeight >= 1

VARIABLES
    message,   \* the program of every top-level instruction
    next,      \* the instruction to run next
    frames,    \* every invocation, in the order they were made
    stack,     \* the open ones, outermost first
    done,      \* the observed ones, in the order they finished
    logs,      \* the transaction's log lines
    cut,       \* whether the collector is full: later lines are lost
    world,     \* the accounts as the transaction context holds them
    snaps,     \* what after_instruction captured, per finished instruction
    outcome    \* running, ok, failed (an instruction), rejected (none)

rtVars == <<message, next, frames, stack, done, logs, cut, world, snaps, outcome>>

Programs == Sbf \cup Builtin \cup Precompile \cup Missing

\* A log line of an invocation of a list of them.  `told` marks a program's own
\* text, which may spell a runtime line; `by` is ghost: the invocation that wrote it.
Put(log, line) == IF cut THEN log ELSE Append(log, line)

Says(fs, tag, i, n) ==
    [tag |-> tag, program |-> fs[i].program, n |-> n, told |-> FALSE, by |-> i]

\* What invocation i and everything it called (up to `last`) cost: a power of two
\* each, so that a sum names its terms.
Cost(i, last) == 2^last - 2^(i - 1)

Frame(p, runs) ==
    [program |-> p, depth |-> Len(stack) + 1, top |-> next, runs |-> runs,
     entry |-> world, exit |-> world, ok |-> FALSE, last |-> 0, raised |-> FALSE]

Height == Len(stack)
Current == stack[Height]

\* Reentrancy is allowed only for a program that calls itself.
MayPush(p) ==
    \A h \in 1..Height : frames[stack[h]].program = p => frames[Current].program = p

Running == outcome = "running"

(***************************************************************************)
(* Closing an invocation: a program that ran in the VM has its inclusive   *)
(* cost logged, then the verdict; the observer fires after the pop and so  *)
(* learns the real verdict, which the log line need not be: `pop` raises   *)
(* an unbalanced instruction after "success" was written.                  *)
(***************************************************************************)
Closed(s, i, ok, said) ==
    LET n == Cost(i, Len(s.frames))
        told == (IF s.frames[i].runs = "vm" THEN <<Says(s.frames, "consumed", i, n)>> ELSE <<>>)
                \o (IF s.frames[i].runs = "none" THEN <<>> ELSE <<Says(s.frames, said, i, 0)>>)
    IN  [frames |-> [s.frames EXCEPT ![i].ok = ok, ![i].exit = world,
                                     ![i].last = Len(s.frames)],
         done   |-> Append(s.done, i),
         logs   |-> IF cut THEN s.logs ELSE s.logs \o told]

Snapshot(top, ok, d) ==
    [index |-> top, ok |-> ok, accounts |-> world,
     seen |-> Len(SelectSeq(d, LAMBDA i : frames[i].depth > 1))]

\* The failure of the innermost open invocation fails every caller in turn.
Unwound(fs, open, said) ==
    LET inner == Last(open)
        start == [frames |-> [fs EXCEPT ![inner].raised = TRUE], done |-> done, logs |-> logs]
        first == Closed(start, inner, FALSE, said)
    IN  FoldRight(LAMBDA i, s : Closed(s, i, FALSE, "failed"), Front(open), first)

Abort(fs, open, said) ==
    LET s == Unwound(fs, open, said)
    IN  /\ frames' = s.frames /\ done' = s.done /\ logs' = s.logs
        /\ stack' = <<>>
        /\ snaps' = Append(snaps, [index |-> next, ok |-> FALSE, accounts |-> world,
                     seen |-> Len(SelectSeq(s.done, LAMBDA i : s.frames[i].depth > 1))])
        /\ outcome' = "failed"

-----------------------------------------------------------------------------
Init ==
    /\ message = <<>>
    /\ next = 1 /\ frames = <<>> /\ stack = <<>> /\ done = <<>> /\ logs = <<>>
    /\ cut = FALSE /\ world = [a \in Accounts |-> 0] /\ snaps = <<>>
    /\ outcome = "running"

\* The message to run arrives.
Receive(m) ==
    /\ message = <<>> /\ m # <<>>
    /\ message' = m
    /\ UNCHANGED <<next, frames, stack, done, logs, cut, world, snaps, outcome>>

\* Push a frame and log its invoke line.
Push(p, runs) ==
    LET fs == Append(frames, Frame(p, runs))
    IN  /\ frames' = fs
        /\ stack' = Append(stack, Len(fs))
        /\ logs' = Put(logs, Says(fs, "invoke", Len(fs), Height + 1))
        /\ UNCHANGED <<message, next, done, cut, world, snaps, outcome>>

Kind(p) == IF p \in Sbf THEN "vm" ELSE "native"

\* A top-level instruction starts.
Enter ==
    /\ Running /\ Height = 0 /\ next \in DOMAIN message
    /\ message[next] \in Sbf \cup Builtin /\ Len(frames) < MaxFrames
    /\ Push(message[next], Kind(message[next]))

\* The program makes a call the runtime accepts.
Call(p) ==
    /\ Running /\ Height > 0 /\ Height < MaxHeight /\ frames[Current].runs = "vm"
    /\ Len(frames) < MaxFrames /\ p \in Sbf \cup Builtin /\ MayPush(p)
    /\ Push(p, Kind(p))

\* A call one level too deep is listed, and never runs.
CallTooDeep(p) ==
    /\ Running /\ Height > 0 /\ Height = MaxHeight /\ frames[Current].runs = "vm"
    /\ p \in Sbf /\ MayPush(p)
    /\ Abort(Append(frames, Frame(p, "none")), stack, "failed")
    /\ UNCHANGED <<message, next, cut, world>>

\* An address that is no program is pushed and observed, and logs nothing:
\* it fails before its invoke line.
EnterMissing(p) ==
    LET fs == Append(frames, Frame(p, "none"))
    IN  /\ Running /\ p \in Missing /\ Len(frames) < MaxFrames /\ Height < MaxHeight
        /\ IF Height = 0 THEN next \in DOMAIN message /\ message[next] = p
                         ELSE frames[Current].runs = "vm"
        /\ Abort(fs, Append(stack, Len(fs)), "failed")
        /\ UNCHANGED <<message, next, cut, world>>

\* A precompile runs before any VM: no line, no frame, no snapshot.
CheckSignature(ok) ==
    /\ Running /\ Height = 0 /\ next \in DOMAIN message /\ message[next] \in Precompile
    /\ next' = IF ok THEN next + 1 ELSE next
    /\ outcome' = IF ok THEN "running" ELSE "failed"
    /\ UNCHANGED <<message, frames, stack, done, logs, cut, world, snaps>>

Written == FoldSet(LAMBDA a, n : n + world[a], 0, Accounts)
Write(a) ==
    /\ Running /\ Height > 0 /\ Written < MaxWrites
    /\ world' = [world EXCEPT ![a] = @ + 1]
    /\ UNCHANGED <<message, next, frames, stack, done, logs, cut, snaps, outcome>>

\* A program logs text that spells one of the runtime's lines about itself.
Say(tag) ==
    /\ Running /\ Height > 0 /\ frames[Current].runs = "vm" /\ ~cut
    /\ Cardinality({x \in DOMAIN logs : logs[x].told}) < MaxSaid
    /\ logs' = Append(logs, [tag |-> tag, program |-> frames[Current].program, n |-> 1,
                            told |-> TRUE, by |-> Current])
    /\ UNCHANGED <<message, next, frames, stack, done, cut, world, snaps, outcome>>

\* The innermost program returns.
Return ==
    LET s == Closed([frames |-> frames, done |-> done, logs |-> logs], Current, TRUE, "success")
    IN  /\ Running /\ Height > 0
        /\ frames' = s.frames /\ done' = s.done /\ logs' = s.logs
        /\ stack' = Front(stack)
        /\ IF Height = 1
           THEN /\ snaps' = Append(snaps, Snapshot(next, TRUE, s.done))
                /\ next' = next + 1
           ELSE UNCHANGED <<snaps, next>>
        /\ UNCHANGED <<message, cut, world, outcome>>

\* The innermost program fails: in its code, or at its pop.
Raise(said) ==
    /\ Running /\ Height > 0
    /\ Abort(frames, stack, said)
    /\ UNCHANGED <<message, next, cut, world>>

\* The log collector reaches its byte limit.
Truncate ==
    /\ Running /\ Height > 0 /\ ~cut
    /\ cut' = TRUE
    /\ UNCHANGED <<message, next, frames, stack, done, logs, world, snaps, outcome>>

\* Every instruction ran: the transaction commits, or a check that belongs to
\* no instruction (rent) rejects it.
End(how) ==
    /\ Running /\ Height = 0 /\ message # <<>> /\ next > Len(message)
    /\ outcome' = how
    /\ UNCHANGED <<message, next, frames, stack, done, logs, cut, world, snaps>>

Next ==
    \/ \E m \in BoundedSeq(Programs, MaxTop) : Receive(m)
    \/ Enter
    \/ \E p \in Sbf \cup Builtin : Call(p)
    \/ \E p \in Sbf : CallTooDeep(p)
    \/ \E p \in Missing : EnterMissing(p)
    \/ \E ok \in BOOLEAN : CheckSignature(ok)
    \/ \E a \in Accounts : Write(a)
    \/ \E tag \in {"invoke", "consumed", "success", "failed"} : Say(tag)
    \/ Return
    \/ \E said \in {"failed", "success"} : Raise(said)
    \/ Truncate
    \/ \E how \in {"ok", "rejected"} : End(how)

Ended == outcome # "running"
=============================================================================
