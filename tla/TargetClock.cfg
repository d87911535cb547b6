CONSTANTS
    Unset = Unset
    Today = 13
    Landed = 7
    Targets = {7, 9}
    TimeOf <- ElevenLater
    PerEpoch = 5
    Genesis = 1
    LastWord = 15
    Jumps <- BackAndForth
    Moments = {2}
    Gates = {gate1}
    Mainnet = {}
    MaxTurns = 1
SPECIFICATION ReplaySpec
INVARIANTS TargetClock
CHECK_DEADLOCK FALSE
