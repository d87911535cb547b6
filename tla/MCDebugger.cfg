CONSTANTS
    prog1 = prog1  prog2 = prog2  system = system  ed25519 = ed25519  nobody = nobody  vault = vault
    Sbf = {prog1, prog2}
    Builtin = {system}
    Precompile = {ed25519}
    Missing = {nobody}
    Accounts = {vault}
    MaxTop = 2
    MaxFrames = 3
    MaxHeight = 3
    MaxWrites = 1
    MaxSaid = 1
    Functions = {1, 2, 3}
    EntryPoint = 1
    MaxInsns = 6
    MaxCalls = 4
    Pcs = {1, 2, 3}
    Entry = 1
    Source = {2, 3}
    Shapes = {"one", "twin"}
    Coarse <- Opcodes
    MaxPasses = 1
    purse = purse  user = user  ghost = ghost  junk = junk  token = token
    Base = 4
    WordSize = 2
    World <- TwoHolders
    Program = Program
    Layout <- FieldsOf
    LastSegment <- SegmentOf
    Ixs <- Landing
    ArgSpan <- SpanOf
    NoArg = NoArg
    Execute <- Run
    Landed = "success"
    NotAddresses = {junk}
    WhatIfs <- SuiteMutations
    Tests <- SuiteTests
    Expected <- Expectations
    MaxPieces = 4
    m1 = m1  m2 = m2  m3 = m3
    Top = 8
    Offered <- Three
    Sweeps <- SweepsOf
    MaxAccounts = 1
    MaxFields = 1
    Histories <- Landings
    Limits = {1, 2}
    DeploySlot <- TwoDeploys
    PageSize = 2
    MaxLooked = 4
SPECIFICATION DbgSpec
INVARIANTS
    StepsTrue DiffsTrue ComputeCharged FoldedTrue StacksNamed   CheckTrue
CHECK_DEADLOCK FALSE
SYMMETRY Symmetric
