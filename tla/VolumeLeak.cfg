\* A volume deleted while it is being provisioned.
SPECIFICATION Spec
CONSTANTS
    Volumes = {v1}
    Nodes = {n1}
    NoNode = NoNode
    VGs = {g1}
    NoVG = NoVG
    Capacities = {1}
    Calls = {c1}
    MaxLives = 1
    Threads = 2
    FaultKinds = {}
    MaxFaults = 0
SYMMETRY Symmetry
INVARIANTS
    NothingLeaked
