CONSTANTS
    p = p
    alice = alice
    bob = bob
    d1 = d1
    d2 = d2
    mainnet = mainnet
    devnet = devnet
    http = http
    long = long
    Nobody = Nobody
    NotThere = NotThere
    Frozen = Frozen
    NotHeld = NotHeld
    Subject = {p}
    Authority = {alice, bob}
    Program = {d1, d2}
    Cluster = {mainnet, devnet}
    Home = devnet
    Url = {http, long}
    TooLong = {long}
    MaxDependencies = 2
    Sorted <- MCSorted
    Clusters <- MCClusters
    MaxDeploys = 2
    MaxTxs = 1
    MaxFaults = 1
SPECIFICATION MCSpec
INVARIANTS BooksExact HeldNotAhead Differential
PROPERTIES ReportedBeforeReplaced EveryDeploySeen
CHECK_DEADLOCK FALSE
