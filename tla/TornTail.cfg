CONSTANTS
    Absent = Absent
    Bad = Bad
    Nobody = Nobody
    Recorder = rec
    Requests = {}
    FullEvery = 2
    MaxGap = 1
    Dense = 0
    Retention = 2
    Bucket = 2
    Histories <- MCShort
SPECIFICATION TornPollSpec
INVARIANTS AckedHeld
CHECK_DEADLOCK FALSE
