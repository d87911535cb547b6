CONSTANTS
    a = a
    b = b
    c = c
    Account <- Accounts
    MaxContent = 3
    Tx <- Txs
    Exec <- Run
    Chains <- Histories
    Plans <- Lists
    Drift <- Today1
    Edits <- EditLists
    t1 = t1
    t2 = t2
    Thread <- Threads2
    Unbuilt = Unbuilt
    MaxSteps = 3
    MaxRequests = 2
SYMMETRY Threads
INIT Init
NEXT Next
INVARIANTS ResumeSound  CascadeHasWire
CHECK_DEADLOCK FALSE
