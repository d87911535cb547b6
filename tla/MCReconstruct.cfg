CONSTANTS
    a = a
    b = b
    Keys <- Two
    SlotOf <- Slots5
    Worlds <- Worlds5
    NotLoaded = NotLoaded
    Nothing = Nothing
SPECIFICATION Spec
INVARIANTS BudgetPerAccount SlotExact 
CHECK_DEADLOCK FALSE
