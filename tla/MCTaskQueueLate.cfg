CONSTANTS
    t1 = t1  t2 = t2  t3 = t3  t4 = t4
    k1 = k1  k2 = k2  k3 = k3
    video = video  image = image
    ark = ark  vidu = vidu
    demo = demo
    Tasks = {t1, t2, t3, t4}
    Keys = {k1, k2, k3}
    Projects = {demo}
    Lanes = {video, image}
    Providers = {ark, vidu}
    None = None
    KeyOf <- MCKeyOf
    ProjectOf <- MCProjectOf
    LaneOf <- MCLaneOf
    ProviderOf <- MCProviderOf

SPECIFICATION Spec

INVARIANT NoWaitOnCancelled

CHECK_DEADLOCK FALSE
