SPECIFICATION MCSpec
CONSTANTS
    AuthoringParts = {"planner", "archive", "shots", "units", "assets", "repair", "writing"}
    Total = 3
    FileEnds = {2, 3}
    Window = 2
    MaxBatch = 2
    Callers = {"a", "b"}
    NoText = NoText
    Unmatched = Unmatched
    MaxEpisodes = 3
    MaxPlans = 3
    MaxPlanFaults = 2
    Requests = {"r1", "r2"}
    ProjectNames = {"n1", "n2"}
    MaxArchiveFaults = 1
    MaxDeletes = 1
    StartIds <- MCStartIds
    MaxSuffix = 2
    NoClip = NoClip
    NoJob = NoJob
    NoCheckpoint = NoCheckpoint
    MaxEdits = 2
    MaxAsks = 1
    MaxGrids = 2
    MaxTools = 2
    MaxFails = 1
    MaxMoves = 4
    StartShots <- MCStartShots
    ShotPool = {1, 2, 3}
    Casts <- MCCasts
    StartCast <- MCStartCast
    MaxUnit = 3
    UnitSize = 2
    NoVideo = NoVideo
    NoWork = NoWork
    MaxUnitEdits = 2
    MaxUnitAsks = 1
    MaxUnitTools = 1
    MaxUnitFails = 1
    MaxUnitMoves = 4
    Assets <- MCAssets
    FirstFreeName <- MCFirstFreeName
    Namesakes <- MCNamesakes
    q1 = q1
    q2 = q2
    l1 = l1
    AssetRequests = {q1, q2}
    FirstRow = l1
    AssetOps = {"upload", "original", "design", "restore", "create", "remove", "replace", "share", "apply"}
    MaxAssetVersions = 3
    MaxAssetFaults = 1
    MaxAssetEdits = 2
    ScriptKinds = {"segments", "ad", "ad_units"}
    ContentModes = {"narration", "drama", "ad"}
    w1 = w1
    w2 = w2
    Writers = {w1, w2}
    MaxChanges = 2
    MaxTexts = 2
    MaxFaults = 1
SYMMETRY AuthoringSymmetry
INVARIANTS
    LedgerTiles
    InstallKeepsOne
    AssetsBelong
    UnitsBelong
    ShelvesAreTrue
    RoundTripKeeps
    EpisodeIsSound
CHECK_DEADLOCK FALSE
