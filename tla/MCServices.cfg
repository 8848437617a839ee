SPECIFICATION MCSpec
CONSTANTS
    ServiceParts = {"media", "feed", "lease", "profile", "channel", "files", "view", "credentials", "video", "routing", "gate", "questions"}
    x = x
    Says = {x}
    MaxRounds = 2
    MaxEmitted = 5
    v1 = v1
    i1 = i1
    u1 = u1
    Images = {i1}
    Videos = {v1}
    SdkTasks = {v1}
    Uploads = {u1}
    Legacy = Legacy
    NoFile = NoFile
    MaxTries = 2
    LadderSteps = 1
    MaxFaults = 1
    MaxVersions = 2
    t1 = t1
    t2 = t2
    FeedTasks = {t1, t2}
    MaxEvents = 3
    w1 = w1
    w2 = w2
    Workers = {w1, w2}
    LeaseTasks = {t1, t2}
    NoOwner = NoOwner
    Ttl = 2
    RescanAfter = 3
    Files = {"f", "g"}
    Releases = {"v1", "v2"}
    MaxDeploys = 2
    MaxUserActs = 1
    MaxSyncFaults = 1
    MaxSyncs = 2
    Subscribers = {"s1", "s2"}
    QueueCap = 1
    Undiffed <- MCUndiffed
    MaxChannels = 2
    MaxVersionsOfFiles = 2
    MaxBatches = 1
    MaxScanErrors = 1
    e1 = e1
    e2 = e2
    e3 = e3
    Editors = {e1, e2, e3}
    ScriptFiles = {"p1", "p2"}
    Nobody = Nobody
    MaxEditFaults = 1
    r1 = r1
    r2 = r2
    CredRequests = {r1, r2}
    b1 = b1
    Builds = {b1}
    NoBackend = NoBackend
    MaxCreds = 2
    MaxCredRequests = 4
    MaxBuilds = 1
    NoCall = NoCall
    MaxVideoTries = 2
    BuiltIns <- MCBuiltIns
    BuiltInModel <- MCBuiltInModel
    OwnModels <- MCOwnModels
    OwnLists <- MCOwnLists
    LaneOf <- MCLaneOf
    SecondsOf <- MCSecondsOf
    b2 = b2
    bv1 = bv1
    bv2 = bv2
    bi1 = bi1
    bt1 = bt1
    ov1 = ov1
    ot1 = ot1
    NonResumable = {b2}
    DefaultProvider = b1
    RouteTasks = {t1}
    Absent = Absent
    Cleared = Cleared
    NoModel = NoModel
    NoProvider = NoProvider
    NoAnswer = NoAnswer
    RouteKinds = {"video", "reference", "image"}
    LegacyProviders = {b2}
    MaxOwn = 1
    MaxSerial = 2
    MaxChanges = 2
    c1 = c1
    c2 = c2
    ToolCalls = {c1, c2}
    NoText = NoText
    MaxSaves = 1
    MaxToolFaults = 1
    q1 = q1
    q2 = q2
    Questions = {q1, q2}
    NoQuestion = NoQuestion
    StreamCap = 2
    MaxChatter = 1
INVARIANTS
    OneJobPerTask
    LedgerFollows
    QuietIsTracked
    FeedConverges
    LeaseGuardsScan
    SyncKeepsItsWord
    FollowersAreServed
    NoEditIsLost
    ShownOnce
    ActiveIsUsed
    OneVideoIsPaid
    RoutingIsSound
    JsonIsKept
    QuestionsAreAnswerable
CHECK_DEADLOCK FALSE
