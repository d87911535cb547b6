------------------------------- MODULE Trace -------------------------------
(***************************************************************************)
(* The step debugger (scope.rs `trace`, trace.rs, cpi_tree.rs) and the     *)
(* profiler's cost attribution (profile.rs), over an ended Runtime run.    *)
(* A trace is made from `runs`, one per top-level instruction: from one    *)
(* observed execution (`SingleRun`, the server's build) or from one replay *)
(* per instruction prefix (`PrefixRuns`, the library's build).               *)
(***************************************************************************)
EXTENDS Runtime

None == 0                           \* no index
Unknown == [a \in {} |-> 0]         \* no captured state

-----------------------------------------------------------------------------
(* Log attribution. *)

NewSpan(line, at) ==
    [program |-> line.program, depth |-> line.n, from |-> at, to |-> at,
     cu |-> None, ok |-> FALSE, failed |-> FALSE]

\* The innermost open span of a program: position on the stack, or 0.
OpenAt(s, p) == Max({0} \cup {h \in DOMAIN s.open : s.spans[s.open[h]].program = p})

PopMatching(s, p, at, ok) ==
    LET h == OpenAt(s, p)
    IN  IF h = 0 THEN s
        ELSE [spans |-> [s.spans EXCEPT ![s.open[h]].to = at, ![s.open[h]].ok = ok,
                                        ![s.open[h]].failed = ~ok],
              open |-> SubSeq(s.open, 1, h - 1)]

ReadLine(s, log, at) ==
    LET line == log[at]
        h == OpenAt(s, line.program)
    IN  IF line.told THEN s
        ELSE CASE line.tag = "invoke" ->
                     [spans |-> Append(s.spans, NewSpan(line, at)),
                      open |-> Append(s.open, Len(s.spans) + 1)]
               [] line.tag = "consumed" ->
                     IF h = 0 THEN s ELSE [s EXCEPT !.spans[s.open[h]].cu = line.n]
               [] line.tag = "success" -> PopMatching(s, line.program, at, TRUE)
               [] line.tag = "failed"  -> PopMatching(s, line.program, at, FALSE)

\* spans_from_logs: one span per invocation, pre-order; what is still open
\* (truncated logs) ends at the last line.  Lines from..to are the span's.
Spans(log) ==
    LET s == FoldLeft(LAMBDA acc, at : ReadLine(acc, log, at),
                      [spans |-> <<>>, open |-> <<>>], [at \in DOMAIN log |-> at])
    IN  [j \in DOMAIN s.spans |->
            IF j \in Range(s.open) THEN [s.spans[j] EXCEPT !.to = Len(log)] ELSE s.spans[j]]

-----------------------------------------------------------------------------
(* The runs a trace is made of. *)

Inner(k) == SelectSeq([i \in DOMAIN frames |-> i],
                      LAMBDA i : frames[i].top = k /\ frames[i].depth > 1)
TopFrame(k) == Max({None} \cup {i \in DOMAIN frames : frames[i].top = k /\ frames[i].depth = 1})
Observed == SelectSeq(done, LAMBDA i : frames[i].depth > 1)

\* Inner snapshots of instruction k: those seen since the snapshot before its own.
Bucket(k) ==
    LET at == {j \in DOMAIN snaps : snaps[j].index = k}
        j == CHOOSE x \in at : TRUE
    IN  IF at = {} THEN <<>>
        ELSE SubSeq(Observed, IF j = 1 THEN 1 ELSE snaps[j - 1].seen + 1, snaps[j].seen)

\* A failure without an index is pinned to the last instruction that ran.
FailedAt ==
    CASE outcome = "ok" -> None
      [] outcome = "failed" -> next
      [] outcome = "rejected" ->
            Max({1} \cup {snaps[j].index : j \in {x \in DOMAIN snaps : snaps[x].ok}})

CapturedAfter(k) ==
    LET at == {j \in DOMAIN snaps : snaps[j].index = k /\ snaps[j].ok}
    IN  IF at = {} THEN Unknown ELSE snaps[CHOOSE j \in at : TRUE].accounts

SingleRun ==
    [k \in DOMAIN message |->
        LET ranOk == FailedAt = None \/ k < FailedAt
        IN  [ok |-> ranOk, post |-> IF ranOk THEN CapturedAfter(k) ELSE Unknown,
             inner |-> Inner(k), snapshots |-> Bucket(k)]]

\* State after instruction k: ghost for the single run, the simulation's
\* post accounts for a prefix.
StateAfter(k) ==
    LET ran == {j \in DOMAIN snaps : snaps[j].ok /\ snaps[j].index <= k}
    IN  IF ran = {} THEN [a \in Accounts |-> 0] ELSE snaps[Max(ran)].accounts

\* Each prefix 1..k on its own; an instruction in `shy` looks for a later one
\* and fails in every prefix but the whole message.
PrefixRuns(shy) ==
    [k \in DOMAIN message |->
        LET whole == k = Len(message)
            broken == {i \in shy : i <= k /\ ~whole}
            fails == broken \cup (IF outcome = "failed" /\ next <= k THEN {next} ELSE {})
                            \cup (IF outcome = "rejected" /\ whole THEN {k} ELSE {})
        IN  [ok |-> fails = {}, post |-> IF fails = {} THEN StateAfter(k) ELSE Unknown,
             inner |-> IF \E i \in broken : i = Min(fails) THEN <<>> ELSE Inner(k),
             snapshots |-> <<>>]]

-----------------------------------------------------------------------------
(* Helpers of `trace`. *)

\* mutant: snapshots are taken to line up with the nodes as they were called
CallRank(depths) == [i \in DOMAIN depths |-> IF i = 1 THEN Len(depths) ELSE i - 1]

\* completion_ranks: the post-order position of each node of a pre-order list of depths.
CompletionRank(depths) ==
    LET close(s, d) ==      \* every open node at least as deep finishes first
            LET gone == {h \in DOMAIN s.open : \A g \in h..Len(s.open) : depths[s.open[g]] >= d}
                keep == Len(s.open) - Cardinality(gone)
            IN  [open |-> SubSeq(s.open, 1, keep),
                 order |-> s.order \o Reverse(SubSeq(s.open, keep + 1, Len(s.open)))]
        visit(s, i) == LET c == close(s, depths[i]) IN [c EXCEPT !.open = Append(@, i)]
        end == close(FoldLeft(visit, [open |-> <<>>, order |-> <<>>],
                              [i \in DOMAIN depths |-> i]), 0)
    IN  [i \in DOMAIN depths |-> CHOOSE r \in DOMAIN end.order : end.order[r] = i]

\* PathBuilder: <<k>>, <<k, c0>>, <<k, c0, c1>>, ...  for a pre-order list of depths.
Paths(k, depths) ==
    LET visit(s, d) ==
            IF d <= 1 THEN [next |-> <<>>, path |-> <<k>>, out |-> Append(s.out, <<k>>)]
            ELSE LET counts == [l \in 1..(d - 1) |-> IF l \in DOMAIN s.next THEN s.next[l] ELSE 0]
                     kept == SubSeq(s.path, 1, IF d - 1 < Len(s.path) THEN d - 1 ELSE Len(s.path))
                     path == Append(kept, counts[d - 1])
                 IN  [next |-> [counts EXCEPT ![d - 1] = @ + 1], path |-> path,
                      out |-> Append(s.out, path)]
    IN  FoldLeft(visit, [next |-> <<>>, path |-> <<>>, out |-> <<>>], depths).out

\* mutant: precompiles are given a slot of their own
SpansForEveryTop(spans, k) ==
    LET tops == SelectSeq([j \in DOMAIN spans |-> j], LAMBDA j : spans[j].depth = 1)
        to == IF k + 1 \in DOMAIN tops THEN tops[k + 1] - 1 ELSE Len(spans)
    IN  IF k \notin DOMAIN tops THEN <<>> ELSE SubSeq(spans, tops[k], to)

\* The spans of instruction k: precompiles log nothing and have no slot.
SpansFor(spans, k) ==
    LET tops == SelectSeq([j \in DOMAIN spans |-> j], LAMBDA j : spans[j].depth = 1)
        slot == Cardinality({i \in 1..k : message[i] \notin Precompile})
        to == IF slot + 1 \in DOMAIN tops THEN tops[slot + 1] - 1 ELSE Len(spans)
    IN  IF message[k] \in Precompile \/ slot \notin DOMAIN tops THEN <<>>
        ELSE SubSeq(spans, tops[slot], to)

\* diffs_of: the accounts whose state moved.
Diffs(before, after) ==
    IF after = Unknown THEN {}
    ELSE {<<a, before[a], after[a]>> : a \in {x \in Accounts : before[x] # after[x]}}

-----------------------------------------------------------------------------
(* The trace: one step per instruction and CPI, pre-order. *)

FirstState == [a \in Accounts |-> 0]
Or(state, other) == IF state = Unknown THEN other ELSE state

\* Whether every CPI of a run has a snapshot of its own program and depth.
InnerExact(run, nodes, rank) ==
    /\ Len(nodes) > 1 /\ Len(run.snapshots) = Len(nodes) - 1
    /\ \A i \in 2..Len(nodes) :
          /\ rank[i] \in DOMAIN run.snapshots
          /\ frames[run.snapshots[rank[i]]].depth = nodes[i].depth
          /\ frames[run.snapshots[rank[i]]].program = nodes[i].program

\* The steps of instruction k, before any error is attributed.
StepsOf(runs, k, t) ==
    LET run == runs[k]
        nodes == <<[program |-> message[k], depth |-> 1]>> \o
                 [j \in DOMAIN run.inner |-> [program |-> frames[run.inner[j]].program,
                                              depth |-> frames[run.inner[j]].depth]]
        depths == [i \in DOMAIN nodes |-> nodes[i].depth]
        mine == SpansFor(t.spans, k)
        aligned == /\ Len(mine) = Len(nodes)
                   /\ \A i \in DOMAIN nodes : /\ mine[i].depth = nodes[i].depth
                                              /\ mine[i].program = nodes[i].program
        rank == CompletionRank(depths)
        exact == InnerExact(run, nodes, rank)
        range == IF mine = <<>> THEN <<Len(logs) + 1, Len(logs)>> ELSE <<mine[1].from, mine[1].to>>
        captured(i) == frames[run.snapshots[rank[i]]]
    IN  [i \in DOMAIN nodes |->
           [path |-> Paths(k, depths)[i], depth |-> nodes[i].depth, top |-> k,
            program |-> nodes[i].program,
            frame |-> IF i = 1 THEN TopFrame(k) ELSE run.inner[i - 1],     \* ghost
            logs |-> IF aligned THEN <<mine[i].from, mine[i].to>> ELSE range,
            cu |-> IF aligned THEN mine[i].cu
                   ELSE IF i = 1 /\ mine # <<>> THEN mine[1].cu ELSE None,
            success |-> ~t.halted /\ (IF aligned THEN mine[i].ok ELSE run.ok),
            failedLine |-> aligned /\ ~mine[i].ok,
            error |-> FALSE,
            since |-> IF k > 1 /\ t.lastPost # k - 1 THEN t.lastPost ELSE None,
            known |-> ~t.halted /\ (IF i = 1 THEN run.post # Unknown ELSE exact),
            diffs |-> IF i = 1 THEN Diffs(Or(t.prevPost, FirstState), run.post)
                      ELSE IF exact THEN Diffs(captured(i).entry, captured(i).exit)
                      ELSE {}]]

\* Whether the failure of run k is only a prefix's: the whole got past it.
Artifact(runs, k) ==
    LET whole == runs[Len(message)]
    IN  ~runs[k].ok /\ (whole.ok \/ (outcome = "failed" /\ next > k))

\* mutant: the error goes to the outermost invocation that failed
AttributedOutermost(steps) == [steps EXCEPT ![1].error = TRUE, ![1].success = FALSE]

\* The error goes to the innermost invocation whose line says it failed, or
\* to the instruction itself when the lines could not be aligned.
Attributed(steps) ==
    LET at == Max({1} \cup {i \in DOMAIN steps : steps[i].failedLine})
    IN  [steps EXCEPT ![at].error = TRUE, ![at].success = FALSE]

AddSteps(runs, t, k) ==
    LET steps == StepsOf(runs, k, t)
        fails == ~runs[k].ok /\ ~Artifact(runs, k) /\ ~t.halted
    IN  [t EXCEPT !.steps = @ \o (IF fails THEN Attributed(steps) ELSE steps),
                  !.halted = @ \/ fails,
                  !.prevPost = IF runs[k].ok THEN runs[k].post ELSE @,
                  !.lastPost = IF runs[k].ok THEN k ELSE @]

TraceOf(runs) ==
    FoldLeft(LAMBDA t, k : AddSteps(runs, t, k),
             [steps |-> <<>>, spans |-> Spans(logs), halted |-> FALSE,
              prevPost |-> Unknown, lastPost |-> None],
             [k \in DOMAIN message |-> k]).steps

-----------------------------------------------------------------------------
(* The cost of each invocation. *)

\* attach_compute (cpi_tree.rs): tree and spans walked together, up to the
\* first program that differs.
Tree == FlattenSeq([k \in DOMAIN message |->
            <<[program |-> message[k], frame |-> TopFrame(k)]>> \o
            [j \in DOMAIN Inner(k) |-> [program |-> frames[Inner(k)[j]].program,
                                        frame |-> Inner(k)[j]]]])
TreeCost ==
    LET spans == Spans(logs)
        tree == Tree
        same == {n \in DOMAIN tree \cap DOMAIN spans :
                    \A j \in 1..n : tree[j].program = spans[j].program}
    IN  [j \in DOMAIN tree |-> IF j \in same THEN spans[j].cu ELSE None]

\* The profiler's frames: one per VM execution, as it finished.
Profile == SelectSeq(done, LAMBDA i : frames[i].runs = "vm")

\* mutant: every invocation a span encloses is subtracted, not just its own calls
ExclusiveOfAll(spans) ==
    [h \in DOMAIN spans |->
        IF spans[h].cu = None THEN None
        ELSE spans[h].cu - FoldSet(LAMBDA j, n : n + spans[j].cu, 0,
                 {j \in DOMAIN spans : /\ j > h /\ spans[j].depth > spans[h].depth
                                       /\ spans[j].to <= spans[h].to})]

\* Each span's cost less that of the calls it made directly.
Exclusive(spans) ==
    LET parent(j) == Max({0} \cup {h \in 1..(j - 1) :
                        /\ spans[h].depth < spans[j].depth
                        /\ \A g \in (h + 1)..(j - 1) : spans[g].depth >= spans[j].depth})
        calls(h) == {j \in DOMAIN spans : parent(j) = h}
    IN  [h \in DOMAIN spans |->
            IF spans[h].cu = None THEN None
            ELSE spans[h].cu - FoldSet(LAMBDA j, n : n + spans[j].cu, 0, calls(h))]

\* attach_compute and attach_names (profile.rs): spans in completion order,
\* paired with the frames in theirs; a span of another program is skipped.
ByCompletion(spans) == SortSeq([j \in DOMAIN spans |-> j], LAMBDA i, j : spans[i].to < spans[j].to)
ProfileCost ==
    LET spans == Spans(logs)
        own == Exclusive(spans)
        ran == Profile
        pair(got, j) ==
            IF own[j] = None \/ Len(got) = Len(ran) THEN got
            ELSE IF frames[ran[Len(got) + 1]].program # spans[j].program THEN got
            ELSE Append(got, own[j])
    IN  FoldLeft(pair, <<>>, ByCompletion(spans))

-----------------------------------------------------------------------------
(* The debugger beside the runtime: it unrolls a run once it has ended. *)

VARIABLES
    shown      \* the traces, one per build

\* The builds: one observed run, or prefixes with some instructions that look
\* for a later one (only a program that runs in the VM can).
Builds == {[single |-> TRUE, shy |-> {}]} \cup
    [single : {FALSE}, shy : SUBSET {k \in DOMAIN message : message[k] \in Sbf}]
RunsOf(build) == IF build.single THEN SingleRun ELSE PrefixRuns(build.shy)

Unroll ==
    /\ Ended /\ shown = <<>>
    /\ shown' = [build \in Builds |-> TraceOf(RunsOf(build))]
    /\ UNCHANGED rtVars

TraceInit == Init /\ shown = <<>>
TraceNext ==
    \/ Next /\ UNCHANGED shown
    \/ Unroll

-----------------------------------------------------------------------------
(* Properties. *)

\* The invocation that raised the failure, or 0; and whether only its pop did.
Raiser == Max({0} \cup {i \in DOMAIN frames : frames[i].raised})
AtPop(i) == \E x \in DOMAIN logs : logs[x].by = i /\ logs[x].tag = "success" /\ ~logs[x].told

\* A step's cost, verdict and log lines are those of the invocation it shows:
\* its cost is exact or absent, it never reads as a success when the
\* invocation failed, and its lines are all there and of its instruction.
StepsAttributed ==
    \A build \in DOMAIN shown : \A st \in Range(shown[build]) :
        LET f == st.frame
            lines == st.logs[1]..st.logs[2]
        IN  f # None =>
            /\ st.cu # None => st.cu = Cost(f, frames[f].last)
            /\ st.success /\ ~(f = Raiser /\ AtPop(f)) => frames[f].ok
            /\ {x \in DOMAIN logs : logs[x].by = f} \subseteq lines
            /\ \A x \in lines : frames[logs[x].by].top = st.top

\* A failed transaction has one failing step, in the instruction the runtime
\* names (the last that ran, when it names none), and nothing after it reads
\* as a success or as known.  While the log is whole, the step is the
\* invocation that raised the failure -- or the instruction, when a call that
\* never logged a line keeps the lines from being aligned, or a caller, when
\* the failure came at the pop, after "success" had been written.
FailurePinned ==
    outcome # "ok" =>
        \A build \in DOMAIN shown :
            LET t == shown[build]
                errs == {j \in DOMAIN t : t[j].error}
                at == Max(errs)
            IN  build.shy \subseteq (IF outcome = "failed" THEN 1..(next - 1) ELSE {}) =>
                /\ Cardinality(errs) = 1
                /\ t[at].top = IF outcome = "failed" THEN next
                               ELSE IF build.single THEN FailedAt ELSE Len(message)
                /\ ~cut => t[at].depth = 1 \/ Raiser \in t[at].frame..frames[t[at].frame].last
                /\ outcome = "failed" /\ ~cut /\ (\A i \in DOMAIN frames : frames[i].runs # "none")
                      /\ (Raiser # 0 => ~AtPop(Raiser)) => t[at].frame = Raiser
                /\ \A j \in DOMAIN t : t[j].top > t[at].top => ~t[j].success /\ ~t[j].known

\* The tree of steps is the run's.
StepsTrue == StepsAttributed /\ FailurePinned

\* The changes a step claims to know are the ones its instruction made, from
\* the state it names as its baseline; and a single run of a transaction that
\* landed knows those of every call, however deep.  In a single run, the step after a
\* precompile is left out: a precompile has no snapshot, and the baseline
\* falls back to the first state.
DiffsTrue ==
    \A build \in DOMAIN shown : \A st \in Range(shown[build]) :
        LET f == st.frame
            k == st.top
            runs == RunsOf(build)
            before == IF st.since # None THEN StateAfter(st.since)
                      ELSE IF k > 1 /\ runs[k - 1].ok THEN StateAfter(k - 1) ELSE FirstState
        IN  /\ build.single /\ outcome = "ok" /\ f # None => st.known
            /\ st.known =>
                IF st.depth > 1 THEN st.diffs = Diffs(frames[f].entry, frames[f].exit)
                ELSE ~(build.single /\ k > 1 /\ message[k - 1] \in Precompile)
                        => st.diffs = Diffs(before, StateAfter(k))

\* Compute is exact or absent: in the call tree what the invocation consumed
\* with its calls, in the profile what it consumed without them.
ComputeCharged ==
    shown # <<>> =>
        LET tree == Tree
            cost == TreeCost
            own == ProfileCost
        IN  /\ \A j \in DOMAIN tree : LET f == tree[j].frame IN
                  cost[j] # None => f # None /\ cost[j] = Cost(f, frames[f].last)
            /\ \A i \in DOMAIN own :
                  LET f == Profile[i]
                      calls == {g \in (f + 1)..frames[f].last :
                                   frames[g].runs = "vm" /\ frames[g].depth = frames[f].depth + 1}
                  IN  own[i] = Cost(f, frames[f].last)
                        - FoldSet(LAMBDA g, n : n + Cost(g, frames[g].last), 0, calls)

=============================================================================
