CONSTANTS
    t1 = t1  t2 = t2  t3 = t3  t4 = t4
    k1 = k1  k2 = k2  k3 = k3
    video = video  image = image
    ark = ark  vidu = vidu
    demo = demo
    Tasks = {t1, t2, t3}
    Keys = {k1, k2, k3}
    Projects = {demo}
    Lanes = {image, video}
    Providers = {ark, vidu}
    None = None
    KeyOf <- OwnKeys
    ProjectOf <- OneProject
    LaneOf <- AllVideo
    ProviderOf <- Mixed
    LaneOrder <- ImageFirst
    VideoLane = video
    Resumable = {ark}
    RoutesOf <- RoutedMixed
    CapTables <- OneSlot
    MaxCalls = 0
    MaxRestarts = 0
    MaxFaults = 0

SPECIFICATION HangSpec

PROPERTY IdleProviderServes

CHECK_DEADLOCK FALSE
