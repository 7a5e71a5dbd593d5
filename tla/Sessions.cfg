SPECIFICATION Spec
CONSTANTS
    Clients = {unknown}
    WindowMs = 2
    MaxPerWindow = 3
    s1 = s1  s2 = s2
    Slots <- MCSlots
    FlowTtl = 1
    CacheTtl = 2
    SessionTtl = 2
    Seedings = {"none", "provider", "provider and agent"}
    MaxFlows = 2
    MaxKeys = 2
    MaxTime = 3
INVARIANTS LimiterIsFair LoginsSound
PROPERTY NewKeyIsLearnt
SYMMETRY Symmetry
