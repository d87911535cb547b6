------------------------------- MODULE Bundle -------------------------------
(***************************************************************************)
(* Bundle replay (src/src/bundle.rs): an ordered list of transactions is   *)
(* resolved, one world per step is built and merged into the world before  *)
(* the bundle, and runs, edits and traces of the list replay the steps one *)
(* after the other, resuming from the unedited run where that is kept.     *)
(* The chain beside it is the history the steps come from.                 *)
(***************************************************************************)
EXTENDS Svm, Sequences

CONSTANTS
    Chains,         \* the histories looked at: [genesis, txs, slots]
    Plans,          \* the step lists asked for: sequences of StepInput
    Drift,          \* what the world of one step may hold as of today
    Edits,          \* step mutations: functions from a step to its edits
    Thread,         \* the server's blocking threads
    Unbuilt,        \* what stands for a bundle or a baseline not there yet
    MaxSteps,       \* MAX_STEPS
    MaxRequests     \* bound: requests answered

None == 0
NoEdits == [k \in {} |-> 0]

ASSUME BundleAssumption ==
    /\ MaxSteps \in Nat
    /\ \A c \in Chains : c.genesis \in AccountsDB /\ c.txs \in Seq(Tx)
    /\ \A p \in Plans :
          /\ p \in Seq({p[k] : k \in DOMAIN p})
          /\ \A k \in DOMAIN p :
                \/ p[k].kind = "landed" /\ p[k].pos \in Nat \ {None}
                \/ p[k].kind = "custom" /\ p[k].pos \in Nat /\ p[k].tx \in Tx
    /\ Drift \subseteq SUBSET Account
    /\ \A e \in Edits :
          /\ DOMAIN e \subseteq 1..MaxSteps
          /\ \A k \in DOMAIN e : e[k] \in UNION {[L -> Content] : L \in SUBSET Account}

VARIABLES
    chain,          \* the history
    plan,           \* what was asked for
    drifted,        \* per step, the accounts its world holds as of today
    bundle,         \* the built Bundle, or [error]
    baseline,       \* Bundle::baseline: the states and reports of a run
    thread,         \* the requests being served
    requests        \* how many were asked

vars == <<chain, plan, drifted, bundle, baseline, thread, requests>>
built == <<chain, plan, drifted, bundle>>

-----------------------------------------------------------------------------
\* The chain

\* StateAt(c, p): what accounts held just before transaction p of chain c.
StateAt(c, p) ==
    LET s[i \in 1..Len(c.txs) + 1] ==
            IF i = 1 THEN c.genesis ELSE Exec(c.txs[i - 1], s[i - 1]).post
    IN  s[p]
Today(c) == StateAt(c, Len(c.txs) + 1)
Recorded(c, p) == Exec(c.txs[p], StateAt(c, p)).ok

\* replay_at of transaction p at its own slot: today's copies where the
\* state at the slot was not established (L), and what is known of the rest.
ReplayAt(c, p, L) ==
    LET names == c.txs[p].names
    IN  [ctx |-> Overlay(Loaded(Today(c), names \cap L),
                         Loaded(StateAt(c, p), names \ L)),
         provenance |-> names \ L]

-----------------------------------------------------------------------------
\* Scope::bundle

\* A step is [kind "landed", pos] or [kind "custom", tx, pos, slot], where
\* pos and slot may be None.
IsLanded(s) == s.kind = "landed"
HasBase(s) == s.pos # None
TxOf(c, s) == IF IsLanded(s) THEN c.txs[s.pos] ELSE s.tx

\* The slot of the nearest landed step before k, else after it.
NearestLanded(c, steps, k) ==
    LET landed == {i \in 1..Len(steps) : IsLanded(steps[i])}
        before == {i \in landed : i < k}
        near == IF before # {}
                THEN CHOOSE i \in before : \A j \in before : j <= i
                ELSE CHOOSE i \in landed : \A j \in landed : i <= j
    IN  IF landed = {} THEN None ELSE c.slots[steps[near].pos]

SlotOf(c, steps, k) ==
    LET s == steps[k]
    IN  IF IsLanded(s) THEN c.slots[s.pos]
        ELSE IF s.slot # None THEN s.slot
        ELSE IF HasBase(s) THEN c.slots[s.pos]
        ELSE NearestLanded(c, steps, k)

Refused(c, steps) ==
    \/ steps = <<>>
    \/ Len(steps) > MaxSteps
    \/ \E k \in 1..Len(steps) : SlotOf(c, steps, k) = None

\* The world of a step by itself.  A transaction of one's own is loaded as of
\* today under the world of the one it replaces; an account that world knows
\* to be absent goes.
StepReplay(c, s, L) ==
    IF IsLanded(s) THEN ReplayAt(c, s.pos, L)
    ELSE LET today == Loaded(Today(c), s.tx.names)
             base == ReplayAt(c, s.pos, L)
         IN  IF ~HasBase(s) THEN [ctx |-> today, provenance |-> {}]
             ELSE [ctx |-> Overlay(Unloaded(today, base.provenance), base.ctx),
                   provenance |-> base.provenance]

\* The first-wins merge over the steps with a place in history.
Merge(c, steps, drift) ==
    LET h[k \in 0..Len(steps)] ==
            IF k = 0 THEN [ctx |-> <<>>, decided |-> {}, absent |-> {}]
            ELSE IF ~HasBase(steps[k]) THEN h[k - 1]
            ELSE LET base == ReplayAt(c, steps[k].pos, drift[k])
                     held == h[k - 1].decided \cup DOMAIN base.ctx
                     known == base.provenance \ DOMAIN base.ctx
                 IN  [ctx |-> AbsorbUndecided(h[k - 1].ctx, base.ctx,
                                              h[k - 1].decided),
                      decided |-> held \cup known,
                      absent |-> h[k - 1].absent \cup (known \ held)]
    IN  h[Len(steps)]

\* The world the first step starts from: its own, under the merge, then
\* today's copies of what only transactions of one's own name.
World(steps, replays, merged) ==
    LET headed == Unloaded(Overlay(replays[1].ctx, merged.ctx),
                           merged.absent \ DOMAIN merged.ctx)
        w[k \in 0..Len(steps)] ==
            IF k = 0 THEN headed
            ELSE IF IsLanded(steps[k]) THEN w[k - 1]
            ELSE AbsorbUndecided(w[k - 1], replays[k].ctx, merged.decided)
    IN  w[Len(steps)]

\* BundleStep and Bundle, as Scope::bundle leaves them.
Built(c, steps, drift) ==
    LET n == Len(steps)
        slots == [k \in 1..n |-> SlotOf(c, steps, k)]
        replays == [k \in 1..n |-> StepReplay(c, steps[k], drift[k])]
    IN  [steps |-> [k \in 1..n |->
                       [tx |-> TxOf(c, steps[k]),
                        custom |-> ~IsLanded(steps[k]),
                        compared |-> HasBase(steps[k]),
                        chain_ok |-> HasBase(steps[k])
                                        => Recorded(c, steps[k].pos)]],
         mode |-> IF \A k \in 1..n : slots[k] = slots[1]
                  THEN "Consecutive" ELSE "CrossSlot",
         replays |-> replays,
         world |-> World(steps, replays, Merge(c, steps, drift))]

-----------------------------------------------------------------------------
\* Bundle::run, trace and accounts_at

Steps == 1..Len(bundle.steps)
Names(k) == bundle.steps[k].tx.names
LaterNames(k) == UNION {Names(j) : j \in {i \in Steps : i > k}}

\* A Snapshot is the state a step begins from.
Entry == [ctx |-> bundle.world, carried |-> <<>>, pending |-> {}]

EditsOf(edits, k) == IF k \in DOMAIN edits THEN edits[k] ELSE <<>>

\* One pass of drive's loop at step k from the state st: the run of the step,
\* its report, and the state it leaves the next one.
Ran(k, st, edits) ==
    LET svm == Mutate(EditsOf(edits, k), SvmOf(st.ctx))
    IN  [pre |-> svm, out |-> Exec(bundle.steps[k].tx, svm)]

Report(k, st, edits) ==
    LET ran == Ran(k, st, edits)
        step == bundle.steps[k]
        post == LoadedState(st.ctx, ran.out.post)
    IN  [ok |-> ran.out.ok,
         diff |-> Restricted(post, Diff(LoadedState(st.ctx, ran.pre), post,
                                        Names(k))),
         matches |-> (~step.custom \/ step.compared)
                        => ran.out.ok = step.chain_ok,
         carried |-> Names(k) \cap DOMAIN st.carried,
         diverged |-> st.pending]

\* What the SVM made that no world holds is taken from it for later steps.
WithCreated(k, next, svm) == Overlay(Loaded(svm, LaterNames(k)), next)

\* mutant: only a growing account counts
Growing(carried, rebuilt) ==
    {a \in DOMAIN carried \cap DOMAIN rebuilt : carried[a] < rebuilt[a]}

\* diverged_of, over the carried accounts.
Diverged(carried, rebuilt) ==
    {a \in DOMAIN carried \cap DOMAIN rebuilt : carried[a] # rebuilt[a]}

\* The state the next step begins from.  In one slot the whole world moves on;
\* across slots the step's own world, under every account carried so far.
NextState(k, st, edits) ==
    LET svm == Ran(k, st, edits).out.post
        post == LoadedState(st.ctx, svm)
        carried == Overlay(st.carried, post)
        rebuilt == bundle.replays[k + 1].ctx
    IN  IF k = Len(bundle.steps)
        THEN [ctx |-> st.ctx, carried |-> carried, pending |-> {}]
        ELSE IF bundle.mode = "Consecutive"
        THEN [ctx |-> WithCreated(k, Overlay(st.ctx, post), svm),
              carried |-> carried, pending |-> {}]
        ELSE [ctx |-> WithCreated(k, Overlay(rebuilt, carried), svm),
              carried |-> carried,
              pending |-> Diverged(carried, rebuilt)]

FirstEdited(edits) ==
    IF DOMAIN edits = {} THEN MaxSteps + 1
    ELSE CHOOSE k \in DOMAIN edits : \A j \in DOMAIN edits : k <= j

Least(x, y) == IF x <= y THEN x ELSE y

\* mutant: a run resumes behind the edited step
ResumeBehind(upto, edits) ==
    IF baseline = Unbuilt THEN 1
    ELSE Least(Least(FirstEdited(edits) + 1, upto), Len(baseline.states))

\* resume_at: the step a run up to (before) step upto begins with.
ResumeAt(upto, edits) ==
    IF baseline = Unbuilt THEN 1
    ELSE Least(Least(FirstEdited(edits), upto), Len(baseline.states))

\* mutant: edges lead only to accounts the later step may write
EdgesToWriters(reports) ==
    {e \in [from_step : Steps, to_step : Steps, account : Account,
            role : {"Writable", "Readonly"}] :
        /\ e.from_step < e.to_step
        /\ e.account \in DOMAIN reports[e.from_step].diff
        /\ e.account \in bundle.steps[e.to_step].tx.writable
        /\ e.role = "Writable"}

\* edges_of: who changed what for whom.
Edges(reports) ==
    {e \in [from_step : Steps, to_step : Steps, account : Account,
            role : {"Writable", "Readonly"}] :
        /\ e.from_step < e.to_step
        /\ e.account \in DOMAIN reports[e.from_step].diff
        /\ e.account \in Names(e.to_step)
        /\ e.role = IF e.account \in bundle.steps[e.to_step].tx.writable
                    THEN "Writable" ELSE "Readonly"}

\* A request begins: a run of all steps, or the way to one of them.
Ask(t) ==
    /\ bundle # Unbuilt
    /\ thread[t].pc = "idle"
    /\ requests < MaxRequests
    /\ \E edits \in Edits, kind \in {"run", "trace"} :
         \E upto \in IF kind = "run" THEN {Len(bundle.steps) + 1} ELSE Steps :
           LET start == ResumeAt(upto, edits)
           IN  thread' = [thread EXCEPT ![t] =
                    [pc |-> "driving", kind |-> kind, edits |-> edits,
                     upto |-> upto, k |-> start,
                     keep |-> kind = "run" /\ edits = NoEdits /\ start = 1,
                     state |-> IF baseline = Unbuilt THEN Entry
                               ELSE baseline.states[start],
                     kept |-> <<>>,
                     reports |-> IF baseline = Unbuilt THEN <<>>
                                 ELSE SubSeq(baseline.reports, 1, start - 1)]]
    /\ requests' = requests + 1
    /\ UNCHANGED <<built, baseline>>

\* drive runs one more step; an edit with no target ends the request.
Drive(t) ==
    LET r == thread[t]
    IN  /\ r.pc = "driving" /\ r.k < r.upto
        /\ thread' = [thread EXCEPT ![t] =
              IF CanMutate(EditsOf(r.edits, r.k), SvmOf(r.state.ctx))
              THEN [r EXCEPT !.k = r.k + 1,
                             !.state = NextState(r.k, r.state, r.edits),
                             !.kept = IF r.keep THEN Append(r.kept, r.state)
                                      ELSE r.kept,
                             !.reports = Append(r.reports,
                                            Report(r.k, r.state, r.edits))]
              ELSE [r EXCEPT !.pc = "failed"]]
        /\ UNCHANGED <<built, baseline, requests>>

\* The request ends; the first unedited run from the top is kept.
Finish(t) ==
    LET r == thread[t]
    IN  /\ r.pc = "driving" /\ r.k = r.upto
        /\ baseline' = IF r.keep
                       THEN [states |-> Append(r.kept, r.state),
                             reports |-> r.reports]
                       ELSE baseline
        /\ thread' = [thread EXCEPT ![t].pc = "done"]
        /\ UNCHANGED <<built, requests>>

\* The caller has its answer.
Leave(t) ==
    /\ thread[t].pc \in {"done", "failed"}
    /\ thread' = [thread EXCEPT ![t] = [pc |-> "idle"]]
    /\ UNCHANGED <<built, baseline, requests>>

\* Scope::bundle: refuse the list, or build the worlds and the bundle.
Build ==
    /\ bundle = Unbuilt
    /\ ~Refused(chain, plan)
    /\ bundle' = Built(chain, plan, drifted)
    /\ UNCHANGED <<chain, plan, drifted, baseline, thread, requests>>

Init ==
    /\ chain \in Chains
    /\ plan \in {p \in Plans : \A k \in 1..Len(p) : p[k].pos <= Len(chain.txs)}
    /\ drifted \in {d \in [1..Len(plan) -> Drift] :
                    \A i, j \in 1..Len(plan) : i # j => {} \in {d[i], d[j]}}
    /\ bundle = Unbuilt
    /\ baseline = Unbuilt
    /\ thread = [t \in Thread |-> [pc |-> "idle"]]
    /\ requests = 0

Next == Build \/ \E t \in Thread : Ask(t) \/ Drive(t) \/ Finish(t) \/ Leave(t)

Spec == Init /\ [][Next]_vars

-----------------------------------------------------------------------------
\* The state entering step k when everything is run from the start.
FromScratch(edits, k) ==
    LET s[i \in 1..Len(bundle.steps) + 1] ==
            IF i = 1 THEN Entry ELSE NextState(i - 1, s[i - 1], edits)
    IN  s[k]

Snapshots == [ctx : Worlds, carried : Worlds, pending : SUBSET Account]

\* Worlds hold accounts that are there; a kept baseline is complete.
TypeOK ==
    /\ bundle # Unbuilt =>
          /\ bundle.mode \in {"Consecutive", "CrossSlot"}
          /\ bundle.world \in Worlds
          /\ \A k \in Steps : bundle.replays[k].ctx \in Worlds
    /\ baseline # Unbuilt =>
          /\ baseline.states \in Seq(Snapshots)
          /\ Len(baseline.states) = Len(bundle.steps) + 1
          /\ Len(baseline.reports) = Len(bundle.steps)
    /\ \A t \in Thread : thread[t].pc = "driving" =>
          /\ thread[t].state \in Snapshots
          /\ Len(thread[t].reports) = thread[t].k - 1
          /\ thread[t].k <= thread[t].upto

\* Resuming from the kept run is sound, not merely faster: whatever was asked
\* before and beside it, a run reports and a trace starts from what replaying
\* everything from the first step gives (bundle.rs:241-247, resume_at).
ResumeSound ==
    \A t \in Thread : thread[t].pc = "done" =>
        LET r == thread[t]
        IN  /\ \A i \in 1..r.upto - 1 :
                  r.reports[i] = Report(i, FromScratch(r.edits, i), r.edits)
            /\ r.kind = "trace" => r.state = FromScratch(r.edits, r.upto)

\* Nothing is missing of history: every step has its place, right after the
\* one before it, with its world established.
Base(k) == plan[k].pos
Unbroken(k) ==
    \A i \in 1..k :
        /\ HasBase(plan[i])
        /\ drifted[i] = {}
        /\ i < k => /\ Base(i + 1) = Base(i) + 1
                    /\ bundle.steps[i].tx = chain.txs[Base(i)]

ClosesNothing(k) ==
    \A i \in 1..k : \A a \in Account :
        StateAt(chain, Base(i))[a] # 0 => StateAt(chain, Base(i) + 1)[a] # 0

\* One slot, back to back, replays exactly: a step is entered with what its
\* place in history held, and lands as it landed, as long as the steps before
\* it are the landed ones, supplied or not, and close no account.
Exact(t) ==
    LET r == thread[t]
    IN  r.pc = "driving" /\ r.k \in Steps /\ bundle.mode = "Consecutive"
        /\ FirstEdited(r.edits) >= r.k /\ Unbroken(r.k) /\ ClosesNothing(r.k - 1)
        => /\ \A a \in chain.txs[Base(r.k)].names \cap Names(r.k) :
                SvmOf(r.state.ctx)[a] = StateAt(chain, Base(r.k))[a]
           /\ \A i \in 1..r.k - 1 : r.reports[i].matches
ConsecutiveExact == \A t \in Thread : Exact(t)

\* Across slots, an account a step is entered with that is not what its place
\* in history held is named in the step's report.
DisagreementFlagged ==
    \A t \in Thread :
        LET r == thread[t]
        IN  r.pc = "driving" /\ r.k \in Steps /\ bundle.mode = "CrossSlot"
            /\ HasBase(plan[r.k]) /\ (\A i \in Steps : drifted[i] = {})
            => \A a \in chain.txs[Base(r.k)].names :
                  LET now == SvmOf(r.state.ctx)[a]
                      then == StateAt(chain, Base(r.k))[a]
                  IN  now # 0 /\ then # 0 /\ now # then => a \in r.state.pending

\* What a step is entered with is history's, or named.
StepsEntered == TypeOK /\ ConsecutiveExact /\ DisagreementFlagged

\* What a step reports of the accounts it names.  The world a step of one's own
\* is built in may hold more, and what was carried may disagree with those too.
OfNamed(j, report) == [report EXCEPT !.diverged = @ \cap Names(j)]

\* The accounts step i closes; edges_of has no copy of them to see a diff in.
Closed(i, edits) ==
    LET ran == Ran(i, FromScratch(edits, i), edits)
    IN  {a \in Account : ran.pre[a] # 0 /\ ran.out.post[a] = 0}

\* An edit reaches a later step along a wire: a step that reports something
\* else than in the unedited run names an edited account, or one that an
\* edge of either run leads to, or one that was in no world to begin with, or
\* one that a step before it closes.
CascadeHasWire ==
    \A t \in Thread :
        LET r == thread[t]
        IN  r.pc = "done" /\ r.kind = "run" /\ baseline # Unbuilt =>
            \A j \in Steps \ DOMAIN r.edits :
                OfNamed(j, r.reports[j]) # OfNamed(j, baseline.reports[j]) =>
                    \E a \in Names(j) :
                        \/ \E i \in DOMAIN r.edits : i < j /\ a \in DOMAIN r.edits[i]
                        \/ \E e \in Edges(r.reports) \cup Edges(baseline.reports) :
                              e.to_step = j /\ e.account = a
                        \/ a \notin DOMAIN bundle.world
                        \/ \E i \in 1..j - 1 : a \in Closed(i, r.edits) \cup Closed(i, NoEdits)
=============================================================================
