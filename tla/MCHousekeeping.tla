--------------------------- MODULE MCHousekeeping ---------------------------
(***************************************************************************)
(* What has to stay bounded and fresh, over small instances: the sessions  *)
(* of the relay (Relay), the usage tally (UsageTally), the allowance and   *)
(* the response cache (Guard), the worlds and traces kept for pages        *)
(* (Worlds), the handles made of them (ReplaySession), the binaries they   *)
(* share (ElfCache), and the pass that thins a log (KeptSlots).  They      *)
(* share no state; `part` picks the one that moves.                        *)
(***************************************************************************)
EXTENDS Relay, UsageTally, Guard, Worlds, MCReplaySession, ElfCache, KeptSlots, TLC

CONSTANTS page1, page2, caller1, caller2, client1, client2, url1, url2, viewer1, viewer2,
          thread1, thread2, prog1, prog2, LastSlot

\* Every log with versions at some of the slots 0 .. LastSlot.
AllLogs == {SelectSeq([j \in 1..LastSlot + 1 |-> j - 1], LAMBDA n : n \in S) :
              S \in SUBSET (0..LastSlot)}
AllSlots == 0..LastSlot + 1
ElfSizes == prog1 :> 1 @@ prog2 :> 2

VARIABLE part
partVars == <<relayVars, tallyVars, guardVars, worldVars, replayVars, elfVars, vars, part>>

KeepingInit ==
    /\ RelayInit /\ TallyInit /\ GuardInit /\ WorldsInit /\ ReplayInit /\ ElfInit
    /\ \/ part = "thin" /\ Init
       \/ /\ part \in {"relay", "tally", "guard", "worlds", "replay", "elf"}
          /\ Init /\ slots = <<>> /\ now = 0

KeepingNext ==
    /\ UNCHANGED part
    /\ \/ /\ part = "relay" /\ RelayNext
          /\ UNCHANGED <<tallyVars, guardVars, worldVars, replayVars, elfVars, vars>>
       \/ /\ part = "tally" /\ TallyNext
          /\ UNCHANGED <<relayVars, guardVars, worldVars, replayVars, elfVars, vars>>
       \/ /\ part = "guard" /\ GuardNext
          /\ UNCHANGED <<relayVars, tallyVars, worldVars, replayVars, elfVars, vars>>
       \/ /\ part = "worlds" /\ WorldsNext
          /\ UNCHANGED <<relayVars, tallyVars, guardVars, replayVars, elfVars, vars>>
       \/ /\ part = "replay" /\ ReplayNext
          /\ UNCHANGED <<relayVars, tallyVars, guardVars, worldVars, elfVars, vars>>
       \/ /\ part = "elf" /\ ElfNext
          /\ UNCHANGED <<relayVars, tallyVars, guardVars, worldVars, replayVars, vars>>
       \/ /\ part = "thin" /\ Next
          /\ UNCHANGED <<relayVars, tallyVars, guardVars, worldVars, replayVars, elfVars>>

KeepingSpec == KeepingInit /\ [][KeepingNext]_partVars

Symmetric ==
    {p @@ c @@ q @@ v : p \in Permutations({page1, page2}), c \in Permutations({caller1, caller2}),
                        q \in Permutations({client1, client2}), v \in Permutations({viewer1, viewer2})}
=============================================================================
