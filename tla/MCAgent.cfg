SPECIFICATION FairMCSpec
CONSTANTS
    Parts = {"actor", "manager", "stream", "cache", "tool"}
    q1 = q1
    q2 = q2
    q3 = q3
    i1 = i1
    d1 = d1
    a = a
    b = b
    c1 = c1
    c2 = c2
    NoCommand = NoCommand
    Cmds <- MCCommands
    KindOf <- MCKindOf
    NoCmd = NoCommand
    MayRaise = {"query", "interrupt", "receive"}
    MayCancel = TRUE
    Sids = {a, b}
    Calls = {c1, c2}
    Plans <- MCPlans
    MaxManaged = 2
    MaxConcurrent = 1
    MaxFaults = 1
    Clients = {c1}
    Readers = {c2}
    QueueMax = 2
    BufferMax = 2
    MaxLog = 4
    MaxTurns = 2
    t1 = t1
    t2 = t2
    t3 = t3
    k1 = k1
    k2 = k2
    image = image
    demo = demo
    None = None
    Tasks = {t1, t2, t3}
    Keys = {k1, k2}
    Projects = {demo}
    Lanes = {image}
    Providers = {}
    KeyOf <- MCKeyOf
    ProjectOf <- MCProjectOf
    LaneOf <- MCLaneOf
    ProviderOf <- MCProviderOf
    Callers = {c1, c2}
    BatchOf <- MCBatchOf
    After <- MCAfter
    MaxCalls = 1
    MaxOutages = 1
INVARIANTS
    OnlyTheGrabbedHangs
    NoSilentGap
PROPERTIES
    EveryCallerIsAnswered
    SessionsSettle
    BatchReturns
    StreamsEnd
CHECK_DEADLOCK FALSE
