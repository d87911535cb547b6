CONSTANTS
    page1 = page1  page2 = page2  caller1 = caller1  caller2 = caller2
    client1 = client1  client2 = client2  url1 = url1  url2 = url2
    viewer1 = viewer1  viewer2 = viewer2
    Pages = {page1, page2}
    Callers = {caller1, caller2}
    MaxSessions = 1
    DetailDays = 1
    MaxDay = 3
    MaxCounted = 3
    MaxBoots = 1
    Peers = {client1, client2}
    Urls = {url1, url2}
    Window = 2
    MaxPerWindow = 2
    Ttl = 2
    MaxEntries = 1
    MaxTime = 4
    MaxUnderWay = 1
    Viewers = {viewer1, viewer2}
    Sigs = {sig1}
    WorldTtl = 1
    WorldMax = 1
    TraceTtl = 1
    TraceMax = 1
    LastTick = 1
    MaxBuilds = 3
    LastSlot = 7
    MaxGap = 1
    Dense = 2
    Retention = 5
    Bucket = 2
    Nowhere = Nowhere
    Unset = Unset
    Today = 13
    Landed = 7
    Targets = {7, 9}
    TimeOf <- ElevenLater
    PerEpoch = 5
    Genesis = 1
    LastWord = 15
    Jumps <- BackAndForth
    Moments = {2}
    Gates = {gate1}
    Mainnet = {}
    MaxTurns = 1
    thread1 = thread1  thread2 = thread2  prog1 = prog1  prog2 = prog2
    Fetchers = {thread1, thread2}
    Upgradeable = {prog1, prog2}
    ElfSize <- ElfSizes
    ElfBudget = 2
    MaxUpgrades = 3
    MaxFetches = 3
    Logs <- AllLogs
    AsOf <- AllSlots
SPECIFICATION KeepingSpec
INVARIANTS RelaySound TallyKept GuardSound TracesHonest ReplaySound ElfFresh ReturnsKept
CHECK_DEADLOCK FALSE
SYMMETRY Symmetric
