SPECIFICATION FairSpec
CONSTANTS
    n1 = n1
    n2 = n2
    g1 = g1
    g2 = g2
    Mi = 1
    Gi = 2
    IntMod = 32
    PoolSlack = 1
    Nodes = {n1, n2}
    Groups = {g1, g2}
    NoGroup = NoGroup
    Zone <- MCZone
    NoSegment = NoSegment
    This = n1
    Controllers = {node, volume}
    NodeCtl = node
    VolCtl = volume
    NoOne = NoOne
    Capacity = 3
    MaxTrouble = 1
    v1 = v1
    Volumes = {v1, v2}
    Placed <- MCPlaced
    Requests <- MCRequests
    Classes <- MCClasses
    PoolMeta = 1
INVARIANTS
    PlacementTypeOK
    OneBuilds
    CapacityIsPlaceable
PROPERTIES
    AllControllersRun
    ReportsConverge
    RefusedForAReason
    LeastLoaded
