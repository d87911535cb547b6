CONSTANTS
    Absent = Absent
    Bad = Bad
    Nobody = Nobody
    Recorder = rec
    Requests = {q1}
    FullEvery = 2
    MaxGap = 1
    Dense = 0
    Retention = 2
    Bucket = 2
    Histories <- MCHistories
SPECIFICATION LogSpec
INVARIANTS AckedHeld BooksTrue 
PROPERTIES MapSpec
CHECK_DEADLOCK FALSE
