\* One node, a name created twice, two overlapping requests, one fault of any kind.
SPECIFICATION Spec
CONSTANTS
    Volumes = {v1}
    Nodes = {n1}
    NoNode = NoNode
    VGs = {g1}
    NoVG = NoVG
    Capacities = {1}
    Calls = {c1, c2}
    MaxLives = 2
    Threads = 2
    FaultKinds = {"api", "lvm", "stat", "crash", "relist"}
    MaxFaults = 1
SYMMETRY Symmetry
INVARIANTS
    TypeOK
    ReadyHasLV
    RemovedHasNoLV
