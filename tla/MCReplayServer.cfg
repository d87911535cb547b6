CONSTANTS
    bundle1 = bundle1
    bundle2 = bundle2
    replay1 = replay1
    editor = editor
    visitor = visitor
    Client = {editor, visitor}
    Task = {k1, k2}
    Asks <- Page
    Size <- Bytes3
    AtMax = 2
    Budget = 2
    BuiltMax = 1
    Permits = 1
    NoTask = NoTask
    MaxAsks = 2
    MaxMishaps = 2
SPECIFICATION Spec
INVARIANTS BuildsShared
PROPERTIES BuildEnds EditorServed
CHECK_DEADLOCK FALSE
