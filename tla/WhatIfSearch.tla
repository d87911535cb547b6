---------------------------- MODULE WhatIfSearch ----------------------------
(***************************************************************************)
(* The searches over what-ifs: the threshold at which an outcome flips     *)
(* (src/src/search.rs, counterfactual_handler), the smallest set of        *)
(* mutations that flips it (minimize_mutations, src/src/scope.rs), the     *)
(* sweep of every knob of every account (src/src/scan.rs) and the          *)
(* comparison of two builds of a program (compare_patch).  What a          *)
(* candidate does to the outcome is any function: each is a replay of its  *)
(* own.                                                                    *)
(***************************************************************************)
EXTENDS Integers, Sequences, FiniteSets

CONSTANTS
    Top,          \* bound: the searched range is within 0 .. Top
    Offered,       \* the mutations to minimize, in order
    Sweeps,       \* what the sweep may be given: accounts, and the baseline
    MaxAccounts,  \* ScanOptions
    MaxFields

\* The mutations of a list.
MutationsOf(q) == {q[i] : i \in DOMAIN q}

ASSUME SearchAssumption ==
    /\ Top \in Nat \ {0} /\ MaxAccounts \in Nat /\ MaxFields \in Nat
    \* Every mutation is offered once.
    /\ Offered \in Seq(MutationsOf(Offered))
    /\ \A i, j \in DOMAIN Offered : Offered[i] = Offered[j] => i = j
    \* Whatever a number is changed to, up to its double, the replay succeeds
    \* or fails.
    /\ \A s \in Sweeps :
          /\ s.accounts \in Seq({s.accounts[a] : a \in DOMAIN s.accounts})
          /\ \A a \in DOMAIN s.accounts : \A k \in DOMAIN s.accounts[a].knobs :
                LET knob == s.accounts[a].knobs[k]
                IN  knob.type \in {"lamports", "u64"} =>
                      knob.today \in Nat /\ \A v \in 0..2 * knob.today : knob.outcome[v] \in BOOLEAN

VARIABLES
    hunt,      \* which search runs, or ran
    effect,    \* what a candidate does: value or set of mutations -> success
    bounds,    \* the threshold search: where it looks, and what it found
    keep,      \* the mutations kept so far
    at,        \* and the one tried next
    swept,     \* what the sweep was given
    points,    \* the breaking points it reports
    build      \* the program's build in the world, and what the comparison saw
searchVars == <<hunt, effect, bounds, keep, at, swept, points, build>>

(***************************************************************************)
(* search_threshold                                                        *)
(***************************************************************************)
\* mutant: the flip is taken to lie at the lower end
NarrowedToLow(f, b) ==
    LET mid == b.lo + (b.hi - b.lo) \div 2
    IN  IF b.hi - b.lo <= 1 THEN b
        ELSE IF f[mid] = b.low THEN [b EXCEPT !.lo = mid, !.evals = @ + 1]
        ELSE [b EXCEPT !.hi = mid - 1, !.evals = @ + 1]

\* One turn of the loop.
Narrowed(f, b) ==
    LET mid == b.lo + (b.hi - b.lo) \div 2
    IN  IF b.hi - b.lo <= 1 THEN b
        ELSE IF f[mid] = b.low THEN [b EXCEPT !.lo = mid, !.evals = @ + 1]
        ELSE [b EXCEPT !.hi = mid, !.evals = @ + 1]

Bracket(f, lo, hi) == [lo |-> lo, hi |-> hi, low |-> f[lo], high |-> f[hi], evals |-> 2]

\* The whole search, or nothing.  No more turns than the range is wide.
Threshold(f, lo, hi) ==
    LET b == Bracket(f, lo, hi)
        turn[i \in 0..hi - lo] == IF i = 0 THEN b ELSE Narrowed(f, turn[i - 1])
    IN  IF b.low = b.high THEN <<>> ELSE <<turn[hi - lo]>>

(***************************************************************************)
(* scan_breaking_points_on                                                 *)
(***************************************************************************)
\* An account of the sweep: how it decodes today, whether the sweep passes
\* over it, whether the replayed world has it, and its knobs.  A knob has a
\* type, its value today and in the replayed world, and the outcome of every
\* value it may be given.
Phrase(th) == IF ~th.low THEN "drops below" ELSE "reaches"
Point(a, k, condition, value) == [account |-> a, knob |-> k, condition |-> condition, value |-> value]

\* The balance, from closed to twice today's.
ProbeLamports(a, k, knob) ==
    LET th == IF knob.today = 0 THEN <<>> ELSE Threshold(knob.outcome, 0, 2 * knob.today)
    IN  IF th = <<>> THEN {}
        ELSE IF th[1].hi <= 1 THEN {Point(a, k, "is closed", 0)}
        ELSE {Point(a, k, Phrase(th[1]), th[1].hi)}

\* probe_u64
ProbeU64(a, k, knob) ==
    LET th == IF knob.today = 0 THEN <<>> ELSE Threshold(knob.outcome, 0, 2 * knob.today)
    IN  IF th = <<>> THEN {} ELSE {Point(a, k, Phrase(th[1]), th[1].hi)}

\* sim, flips: one replay, against the baseline's outcome.
FlipsAt(knob, v, baseline) == knob.outcome[v] # baseline

\* probe_u8: the first of the candidates, today's value aside, that flips.
Candidates == <<2, 0, 3>>
ProbeU8(a, k, knob, baseline) ==
    LET flipping == {i \in DOMAIN Candidates : /\ Candidates[i] # knob.today
                                               /\ FlipsAt(knob, Candidates[i], baseline)}
    IN  {Point(a, k, "changes", Candidates[i]) : i \in {j \in flipping : \A l \in flipping : j <= l}}

\* The owner program, and probe_pubkey: one other value.
ProbeOther(a, k, knob, baseline) ==
    IF FlipsAt(knob, 1, baseline) THEN {Point(a, k, "changes", 1)} ELSE {}

Probe(a, k, knob, baseline) ==
    CASE knob.type = "lamports" -> ProbeLamports(a, k, knob)
      [] knob.type = "u64" -> ProbeU64(a, k, knob)
      [] knob.type = "u8" -> ProbeU8(a, k, knob, baseline)
      [] knob.type \in {"owner", "pubkey"} -> ProbeOther(a, k, knob, baseline)
      [] OTHER -> {}

\* What counts as a field tried.
Tried(knob) == knob.type \in {"u8", "pubkey"} \/ (knob.type = "u64" /\ knob.today # 0)

\* mutant: a field that was not probed counts as well
WithinCountingAll(knobs, k) ==
    knobs[k].type \in {"lamports", "owner"}
    \/ Cardinality({j \in 1..k - 1 : knobs[j].type \notin {"lamports", "owner"}}) < MaxFields

\* The knobs the loop over the fields gets to.
Within(knobs, k) ==
    knobs[k].type \in {"lamports", "owner"} \/ Cardinality({j \in 1..k - 1 : Tried(knobs[j])}) < MaxFields

PassedOver(account) == account.infra \/ account.decodes \in {"not", "executable"}

\* One account's share of the sweep.
PointsOf(a, account, baseline) ==
    IF PassedOver(account) THEN {}
    ELSE UNION {Probe(a, k, account.knobs[k], baseline) :
                  k \in {j \in DOMAIN account.knobs : Within(account.knobs, j)}}

(***************************************************************************)
(* The searches.                                                           *)
(***************************************************************************)
NoBounds == [lo |-> 0, hi |-> 0, low |-> FALSE, high |-> FALSE, evals |-> 0]
NoSweep == [baseline |-> TRUE, accounts |-> <<>>]
Unpatched == [elf |-> "original", saw |-> <<>>]
SearchInit ==
    /\ bounds = NoBounds /\ keep = Offered /\ at = 1 /\ points = {}
    /\ \/ /\ hunt = "threshold" /\ effect \in [0..Top -> BOOLEAN]
          /\ swept = NoSweep /\ build = Unpatched
       \/ /\ hunt = "minimize" /\ effect \in [SUBSET MutationsOf(Offered) -> BOOLEAN]
          /\ swept = NoSweep /\ build = Unpatched
       \/ /\ effect = <<>> /\ swept \in Sweeps /\ build = Unpatched
          /\ hunt = IF swept.accounts = <<>> \/ MaxAccounts = 0 THEN "swept" ELSE "sweep"
       \/ /\ hunt = "patch" /\ effect \in [{"original", "patched"} -> BOOLEAN]
          /\ swept = NoSweep /\ build \in {Unpatched, [Unpatched EXCEPT !.elf = "none"]}

\* find_threshold, for any range the handler lets through.
Look(lo, hi) ==
    /\ hunt = "threshold" /\ bounds.evals = 0 /\ lo <= hi
    /\ bounds' = Bracket(effect, lo, hi)
    /\ hunt' = IF bounds'.low = bounds'.high \/ hi - lo <= 1 THEN "found" ELSE hunt
    /\ UNCHANGED <<effect, keep, at, swept, points, build>>

Narrow ==
    /\ hunt = "threshold" /\ bounds.evals > 0
    /\ bounds' = Narrowed(effect, bounds)
    /\ hunt' = IF bounds'.hi - bounds'.lo <= 1 THEN "found" ELSE hunt
    /\ UNCHANGED <<effect, keep, at, swept, points, build>>

\* minimize_mutations: the full set first; if it flips nothing, nothing is kept.
Everything ==
    /\ hunt = "minimize" /\ at = 1 /\ keep = Offered
    /\ effect[MutationsOf(Offered)] = effect[{}]
    /\ keep' = <<>> /\ hunt' = "minimized"
    /\ UNCHANGED <<effect, bounds, at, swept, points, build>>

Without(i) == [j \in 1..Len(keep) - 1 |-> IF j < i THEN keep[j] ELSE keep[j + 1]]

\* mutant: the pass goes on to the next mutation after dropping one
TryWithoutSkipping ==
    /\ hunt = "minimize" /\ effect[MutationsOf(Offered)] # effect[{}] /\ at <= Len(keep)
    /\ IF effect[MutationsOf(Without(at))] = effect[MutationsOf(Offered)]
       THEN keep' = Without(at) /\ at' = at + 1
       ELSE at' = at + 1 /\ UNCHANGED keep
    /\ hunt' = IF at' > Len(keep') THEN "minimized" ELSE hunt
    /\ UNCHANGED <<effect, bounds, swept, points, build>>

\* One turn of its loop: a mutation that is not needed is dropped.
TryWithout ==
    /\ hunt = "minimize" /\ effect[MutationsOf(Offered)] # effect[{}] /\ at <= Len(keep)
    /\ IF effect[MutationsOf(Without(at))] = effect[MutationsOf(Offered)]
       THEN keep' = Without(at) /\ UNCHANGED at
       ELSE at' = at + 1 /\ UNCHANGED keep
    /\ hunt' = IF at' > Len(keep') THEN "minimized" ELSE hunt
    /\ UNCHANGED <<effect, bounds, swept, points, build>>

\* The sweep, an account at a time.  One that today's chain decodes and the
\* replayed world does not have ends it with an error.
Sweep ==
    LET account == swept.accounts[at]
    IN  /\ hunt = "sweep"
        /\ IF PassedOver(account) \/ account.loaded
           THEN /\ points' = points \cup PointsOf(at, account, swept.baseline)
                /\ at' = at + 1
                /\ hunt' = IF at' > Len(swept.accounts) \/ at' > MaxAccounts THEN "swept" ELSE hunt
           ELSE hunt' = "failed" /\ UNCHANGED <<points, at>>
        /\ UNCHANGED <<effect, bounds, keep, swept, build>>

\* mutant: the original build is not put back
ComparedLeaving(b) ==
    IF b.elf = "none" THEN b
    ELSE [elf |-> "patched", saw |-> <<effect[b.elf], effect["patched"]>>]

\* compare_patch; a program that is not loaded is an error.
Compared(b) ==
    IF b.elf = "none" THEN b
    ELSE [b EXCEPT !.saw = <<effect[b.elf], effect["patched"]>>]

\* patch_compare_handler: on a world of its own.
ComparePatch ==
    /\ hunt = "patch" /\ hunt' = "compared"
    /\ build' = Compared(build)
    /\ UNCHANGED <<effect, bounds, keep, at, swept, points>>

SearchNext ==
    \/ \E lo, hi \in 0..Top : Look(lo, hi)
    \/ Narrow \/ Everything \/ TryWithout \/ Sweep \/ ComparePatch

SearchSpec == SearchInit /\ [][SearchNext]_searchVars

(***************************************************************************)
(* Properties.                                                             *)
(***************************************************************************)
Doubled[n \in 0..Top] == IF n = 0 THEN 1 ELSE 2 * Doubled[n - 1]

\* A threshold that is reported is one: the outcome at it is the upper
\* bound's, the outcome right below it the lower bound's.  The search runs a
\* logarithmic number of replays.
ThresholdTrue ==
    /\ hunt = "found" /\ bounds.low # bounds.high =>
         /\ bounds.lo + 1 = bounds.hi
         /\ effect[bounds.lo] = bounds.low /\ effect[bounds.hi] = bounds.high
    /\ bounds.evals > 2 => Doubled[bounds.evals - 3] < Top

Flips(S) == effect[S] # effect[{}]
Monotone == \A S \in DOMAIN effect : \A T \in SUBSET S : Flips(T) => Flips(S)

\* What minimize_mutations keeps is in the order it was given and still flips
\* the effect, and it keeps nothing exactly where everything together flips
\* nothing.  Where more mutations never
\* undo a flip, no smaller part of what is kept would do.
MinimalTrue ==
    hunt = "minimized" =>
        /\ MutationsOf(keep) \subseteq MutationsOf(Offered)
        /\ \A i, j \in DOMAIN keep : i < j =>
             \E k, l \in DOMAIN Offered : k < l /\ keep[i] = Offered[k] /\ keep[j] = Offered[l]
        /\ Flips(MutationsOf(keep)) = Flips(MutationsOf(Offered))
        /\ (keep = <<>>) = ~Flips(MutationsOf(Offered))
        /\ Monotone => \A S \in SUBSET MutationsOf(keep) : Flips(S) => S = MutationsOf(keep)

Crossings(f, top) == {v \in 1..top : f[v] # f[v - 1]}

\* Every breaking point is one: at the value it names the outcome is another
\* than next to it, or than the baseline.  A number whose change flips the
\* outcome at one place up to its double is reported with that place.
SweepTrue ==
    /\ \A p \in points :
         LET f == swept.accounts[p.account].knobs[p.knob].outcome
         IN  CASE p.condition = "is closed" -> f[0] # f[1]
               [] p.condition = "drops below" -> f[p.value] /\ ~f[p.value - 1]
               [] p.condition = "reaches" -> ~f[p.value] /\ f[p.value - 1]
               [] p.condition = "changes" -> f[p.value] # swept.baseline
    /\ hunt = "swept" => \A a \in DOMAIN swept.accounts :
         LET account == swept.accounts[a]
         IN  a <= MaxAccounts /\ ~PassedOver(account) =>
             \A k \in DOMAIN account.knobs :
                LET knob == account.knobs[k]
                    before == {j \in 1..k - 1 : Tried(account.knobs[j])}
                IN  /\ knob.type = "lamports" \/ (knob.type = "u64" /\ Cardinality(before) < MaxFields)
                    /\ Cardinality(Crossings(knob.outcome, 2 * knob.today)) = 1
                    => \E p \in points : p.account = a /\ p.knob = k
                          /\ p.value \in Crossings(knob.outcome, 2 * knob.today) \cup {0}

\* The comparison of two builds leaves the world with the one it had.
PatchUndone == hunt = "compared" => build.elf \in {"original", "none"}

\* What the searches report (search.rs:34, scope.rs:4076, scan.rs:88,
\* scope.rs:4130): see the four parts.
SearchTrue == ThresholdTrue /\ MinimalTrue /\ SweepTrue /\ PatchUndone
=============================================================================
