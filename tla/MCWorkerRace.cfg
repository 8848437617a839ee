CONSTANTS
    t1 = t1  t2 = t2  t3 = t3  t4 = t4
    k1 = k1  k2 = k2  k3 = k3
    video = video  image = image
    ark = ark  vidu = vidu
    demo = demo
    Tasks = {t1, t2}
    Keys = {k1, k2, k3}
    Projects = {demo}
    Lanes = {image, video}
    Providers = {ark}
    None = None
    KeyOf <- OwnKeys
    ProjectOf <- OneProject
    LaneOf <- AllVideo
    ProviderOf <- Underived
    LaneOrder <- ImageFirst
    VideoLane = video
    Resumable = {ark}
    RoutesOf <- RoutedArk
    CapTables <- OneSlot
    MaxCalls = 1
    MaxRestarts = 0
    MaxFaults = 0

SPECIFICATION WorkerSpec

INVARIANT WorkIsOpen

CHECK_DEADLOCK FALSE
