CONSTANTS
    MaxGap = 1
    Dense = 0
    Retention = 0
    Bucket = 1
    KeepDays = 0
    HourLen = 1
    DayLen = 2
    MaxLag = 0
    Finality = 1
    MaxSlot = 3
    MaxMinute = 2
    MaxRestarts = 1
    None = None
    key1 = key1  key2 = key2  acct1 = acct1  acct2 = acct2  acct3 = acct3
    Searches = {t1, t2}
    Parallel = 1
    Keys <- ApiKeys
    Small <- SmallOnes
    Large <- LargeOnes
    Batch = 1
    Target = 8
    FirstSmall = 1
    FirstLarge = 2
    Deep = 7
    Chains <- Pasts
    LimitRetries = 1
    MaxRefused = 2
SPECIFICATION ThreadsSpec
INVARIANTS NothingSkipped CoverageBacked SearchExact
CHECK_DEADLOCK FALSE
PROPERTIES StopIsAnswered SearchEnds
