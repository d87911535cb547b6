--------------------------- MODULE ReplaySession ---------------------------
(***************************************************************************)
(* One replay handle (scope.rs `Replay` over replay.rs `ReplayContext`):   *)
(* the worlds it is made of, the clock its runs see, the knobs a caller    *)
(* turns on it, and the fixture it freezes into and thaws from.            *)
(***************************************************************************)
EXTENDS Integers, Sequences, FiniteSets

CONSTANTS
    Unset,        \* None
    Today,        \* the slot the node answers
    Landed,       \* the slot of the transaction
    Targets,      \* slots a replay is asked for
    TimeOf,       \* the block time of each slot
    PerEpoch,     \* SLOTS_PER_EPOCH
    Genesis,      \* GENESIS_UNIX
    LastWord,     \* u64::MAX
    Jumps,        \* relative jumps
    Moments,      \* unix times a caller names
    Gates,        \* runtime feature gates
    Mainnet,      \* those of them active on mainnet
    MaxTurns      \* bound: calls on one handle

ASSUME ReplayAssumption ==
    /\ {Today, Landed, Genesis, LastWord, MaxTurns} \subseteq Nat /\ PerEpoch \in Nat \ {0}
    /\ Targets \subseteq 1..Today /\ TimeOf \in [Targets \cup {Landed, Today} -> Nat]
    /\ Jumps \cup Moments \subseteq Int /\ Mainnet \subseteq Gates
    /\ Unset \notin Int

VARIABLES
    replay,     \* the handle, or NoReplay
    wished,     \* ghost: the warp its caller asked for since it was made
    frozen,     \* the fixture and what the test generated with it asserts
    turns       \* calls on the handle
replayVars == <<replay, wished, frozen, turns>>

(***************************************************************************)
(* The clock.  A slot is 2/5 of a second; the conversions truncate toward  *)
(* zero.                                                                   *)
(***************************************************************************)
Trunc(n, d) == IF n >= 0 THEN n \div d ELSE -((-n) \div d)
Seconds(n) == Trunc(2 * n, 5)
SlotsIn(secs) == Trunc(5 * secs, 2)
Saturated(n) == IF n < 0 THEN 0 ELSE n
Least(x, y) == IF x < y THEN x ELSE y

\* The next epoch is a word: it wraps.
Clock(slot, epoch, time, start) ==
    [slot |-> slot, epoch |-> epoch, time |-> time, start |-> start,
     lead |-> (epoch + 1) % (LastWord + 1)]

\* The clock of the world's own slot; LiteSVM's when the node named none.
BaseClock(slot, time) ==
    LET at == IF time = Unset THEN Genesis + Seconds(slot) ELSE time
    IN  IF slot = Unset THEN Clock(0, 0, 0, 0)
        ELSE Clock(slot, slot \div PerEpoch, at, at - Seconds(slot % PerEpoch))

NoWarp == [epochs |-> Unset, slots |-> Unset, seconds |-> Unset,
           at_time |-> Unset, at_slot |-> Unset, at_epoch |-> Unset]
Relative == {"epochs", "slots", "seconds"}

Or(x, default) == IF x = Unset THEN default ELSE x

\* mutant: naming a slot leaves the epoch where the jumps put it
EpochKept(tt, epoch) == Or(tt.at_epoch, epoch)

\* A slot named outright names its epoch, unless the epoch is named too.
EpochFor(tt, epoch) ==
    Or(tt.at_epoch, IF tt.at_slot = Unset THEN epoch ELSE tt.at_slot \div PerEpoch)

\* TimeTravel::apply: epochs and slots jump together, then the seconds, each
\* saturating at zero; what is named outright wins.
Warped(tt, c) ==
    LET delta == Or(tt.epochs, 0) * PerEpoch + Or(tt.slots, 0)
        by    == SlotsIn(Or(tt.seconds, 0))
        slot  == Saturated(Saturated(c.slot + delta) + by)
        epoch == Saturated(Saturated(c.epoch + Trunc(delta, PerEpoch)) + Trunc(by, PerEpoch))
        time  == Or(tt.at_time, c.time + Seconds(delta) + Or(tt.seconds, 0))
    IN  Clock(Or(tt.at_slot, slot), EpochFor(tt, epoch), time, Least(c.start, time))

\* The clock a run of the handle sees.
ClockOf(r) ==
    LET base == BaseClock(r.slot, r.time)
    IN  IF r.tt = NoWarp THEN base ELSE Warped(r.tt, base)

\* The gates a run sees: mainnet's, with each toggle flipped in turn.
ActiveIn(r) ==
    {g \in Gates : LET hits == {i \in DOMAIN r.toggles : r.toggles[i].id = g}
                   IN  IF hits = {} THEN g \in Mainnet
                       ELSE r.toggles[CHOOSE i \in hits : \A j \in hits : j <= i].active}

\* What a run sees of its handle, and so all that its outcome can depend on.
Seen(r) == [state |-> r.state, elf |-> r.elf, clock |-> ClockOf(r), gates |-> ActiveIn(r)]

(***************************************************************************)
(* The worlds a handle is made of.                                         *)
(***************************************************************************)
\* A handle: its context's slot and block time, the slot its accounts are of
\* (Unset for today's), and how it was made.
Handle(slot, time, state, tier, tt) ==
    [slot |-> slot, time |-> time, state |-> state, tier |-> tier, tt |-> tt,
     toggles |-> <<>>, elf |-> "chain"]
NoReplay == Handle(Unset, Unset, Unset, "none", NoWarp)

TimesOf(slot) == IF slot = Unset THEN {Unset} ELSE {TimeOf[slot], Unset}

\* build_context: today's accounts at today's clock; the slot given stands in
\* for a node that does not answer.
CurrentWorlds(given, state, tier, tt) ==
    {Handle(x[1], x[2], state, tier, tt) :
        x \in UNION {{slot} \X TimesOf(slot) : slot \in {Today, given}}}

\* Scope::replay
ReplaysNow == CurrentWorlds(Landed, Unset, "current", NoWarp)

\* Scope::preflight_tx: nothing stands in for the slot.
Preflights == CurrentWorlds(Unset, Unset, "current", NoWarp)

\* Scope::replay_at without an archive: accounts rebuilt for slot `s` laid over
\* today's context, and the clock moved to `s` by a warp.
AtWarp(s, time) == [NoWarp EXCEPT !.at_slot = s, !.at_time = time]
Reconstructions(s) ==
    UNION {CurrentWorlds(s, s, "reconstructed", AtWarp(s, time)) : time \in TimesOf(s)}

\* build_context_at_slot: the context itself is anchored at `s`.
Archived(s) == {Handle(s, time, s, "exact", AtWarp(s, time)) : time \in TimesOf(s)}

\* What a caller may have set on a handle.
Jump(f, n) == [NoWarp EXCEPT ![f] = n]
JumpBoth(n) == [NoWarp EXCEPT !.slots = n, !.seconds = n]
JumpFrom(s, n) == [NoWarp EXCEPT !.at_slot = s, !.slots = n]
DateAt(e, t) == [NoWarp EXCEPT !.at_epoch = e, !.at_time = t]
Warps ==
    {NoWarp} \cup {Jump(f, n) : f \in Relative, n \in Jumps}
    \cup {JumpBoth(n) : n \in Jumps}
    \cup {JumpFrom(s, n) : s \in Targets, n \in Jumps}
    \cup {DateAt(e, t) : e \in {1, LastWord}, t \in Moments}
ToggleLists == {<<>>} \cup {<<[id |-> g, active |-> on]>> : g \in Gates, on \in BOOLEAN}

\* mutant: the block time is left out of the file
WithoutTime(r) == [slot |-> r.slot, time |-> Unset, state |-> r.state, elf |-> r.elf]

\* to_fixture: the world and the slot of its context; no warp, no toggle.
ToFixture(r) == [slot |-> r.slot, time |-> r.time, state |-> r.state, elf |-> r.elf]

FromFixture(fx) == [Handle(fx.slot, fx.time, fx.state, "current", NoWarp) EXCEPT !.elf = fx.elf]

NotFrozen == [file |-> ToFixture(NoReplay), asserts |-> Seen(NoReplay), plain |-> FALSE]

ReplayInit ==
    /\ replay = NoReplay /\ wished = NoWarp /\ frozen = NotFrozen /\ turns = 0

\* A library caller's new handle.
Open(r) ==
    /\ replay = NoReplay /\ replay' = r /\ wished' = NoWarp
    /\ UNCHANGED <<frozen, turns>>

Thaw ==
    /\ frozen # NotFrozen /\ replay' = FromFixture(frozen.file) /\ wished' = NoWarp
    /\ UNCHANGED <<frozen, turns>>

\* The handlers of the server and the suites of the command line: a handle of
\* their own, on which the request's warp and toggles replace what is there.
Serve(r, tt, toggles) ==
    /\ replay = NoReplay
    /\ replay' = [r EXCEPT !.tt = tt, !.toggles = toggles] /\ wished' = tt
    /\ UNCHANGED <<frozen, turns>>

Turn(r, tt) ==
    /\ replay # NoReplay /\ turns < MaxTurns
    /\ replay' = r /\ wished' = tt /\ turns' = turns + 1 /\ UNCHANGED frozen

\* advance_slots, advance_epochs, advance_seconds
Advance(f, n) ==
    Turn([replay EXCEPT !.tt[f] = Or(@, 0) + n], [wished EXCEPT ![f] = Or(@, 0) + n])

\* warp_to_slot, warp_to_epoch, warp_to_timestamp
WarpTo(f, n) == Turn([replay EXCEPT !.tt[f] = n], [wished EXCEPT ![f] = n])

SetTimeTravel(tt) == Turn([replay EXCEPT !.tt = tt], tt)
SetFeature(g, on) ==
    Turn([replay EXCEPT !.toggles = Append(@, [id |-> g, active |-> on])], wished)
SetFeatures(toggles) == Turn([replay EXCEPT !.toggles = toggles], wished)

\* load_program, and replace_program where the program is loaded.
SetProgram(elf) == Turn([replay EXCEPT !.elf = elf], wished)

\* to_fixture and regression_test, called on the handle as it is: the test
\* asserts what a run of the handle shows now.
Freeze ==
    /\ replay # NoReplay
    /\ frozen' = [file |-> ToFixture(replay), asserts |-> Seen(replay),
                  plain |-> replay.tt = NoWarp /\ replay.toggles = <<>>]
    /\ UNCHANGED <<replay, wished, turns>>

LandedReplays == ReplaysNow \cup UNION {Reconstructions(s) \cup Archived(s) : s \in Targets}

ReplayNext ==
    \/ \E r \in LandedReplays \cup Preflights : Open(r)
    \/ \E r \in LandedReplays \cup Preflights, tt \in Warps, toggles \in ToggleLists : Serve(r, tt, toggles)
    \/ Thaw
    \/ \E f \in Relative, n \in Jumps : Advance(f, n)
    \/ \E s \in Targets : WarpTo("at_slot", s)
    \/ \E e \in {1, LastWord} : WarpTo("at_epoch", e)
    \/ \E t \in Moments : WarpTo("at_time", t)
    \/ \E tt \in Warps : SetTimeTravel(tt)
    \/ \E g \in Gates, on \in BOOLEAN : SetFeature(g, on)
    \/ \E toggles \in ToggleLists : SetFeatures(toggles)
    \/ \E elf \in {"chain", "patched"} : SetProgram(elf)
    \/ Freeze

ReplaySpec == ReplayInit /\ [][ReplayNext]_replayVars

\* What a handle frozen without a knob turned asserts is what its fixture
\* shows once thawed, and a thawed fixture freezes into itself.  Wherever the
\* clock is moved, its epoch is that of its slot if the slot was named, and at
\* most one epoch off per jump otherwise; and the epoch began before now.
\* A handle for a slot runs at that slot as long as nobody asked for another,
\* unless its clock rested on a warp that was replaced (TargetClock).
ReplaySound ==
    LET c == ClockOf(replay)
        fx == frozen.file
        off == c.epoch - c.slot \div PerEpoch
        jumps == Cardinality({f \in {"slots", "seconds"} : replay.tt[f] # Unset} \cup
                             IF replay.tt.epochs = Unset THEN {} ELSE {"slots"})
    IN  /\ frozen.plain => Seen(FromFixture(fx)) = frozen.asserts
        /\ ToFixture(FromFixture(fx)) = fx
        /\ replay.tt.at_epoch = Unset =>
             IF replay.tt.at_slot = Unset THEN -jumps <= off /\ off <= jumps ELSE off = 0
        /\ c.start <= c.time
        /\ (replay.tier = "exact" \/ (replay.tier = "reconstructed" /\ replay.tt # NoWarp))
              /\ wished = NoWarp => c.slot = replay.state

\* scope.rs 2986-2992: a reconstructed replay has its "clock set to the
\* transaction's slot": so it does for whoever asks for no other time.
TargetClock ==
    replay.tier \in {"reconstructed", "exact"} /\ wished = NoWarp =>
        ClockOf(replay).slot = replay.state
=============================================================================
