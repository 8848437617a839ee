CONSTANTS
    t1 = t1  t2 = t2  t3 = t3  t4 = t4
    k1 = k1  k2 = k2  k3 = k3
    video = video  image = image
    ark = ark  vidu = vidu
    demo = demo
    Tasks = {t1, t2}
    Keys = {k1, k2, k3}
    Projects = {demo}
    Lanes = {image, video}
    Providers = {ark}
    None = None
    KeyOf <- OwnKeys
    ProjectOf <- OneProject
    LaneOf <- AllVideo
    ProviderOf <- OnArk
    LaneOrder <- ImageFirst
    VideoLane = video
    Resumable = {ark}
    RoutesOf <- RoutedArk
    CapTables <- OneSlot
    MaxCalls = 0
    MaxRestarts = 1
    MaxFaults = 0

SPECIFICATION FairSpec

PROPERTY SlotIsFreed

CHECK_DEADLOCK FALSE
