\* Two overlapping CreateVolume requests.
SPECIFICATION Spec
CONSTANTS
    Volumes = {v1}
    Nodes = {n1}
    NoNode = NoNode
    VGs = {g1}
    NoVG = NoVG
    Capacities = {1}
    Calls = {c1, c2}
    MaxLives = 2
    Threads = 2
    FaultKinds = {}
    MaxFaults = 0
SYMMETRY Symmetry
PROPERTIES
    RescheduleDeletesFailed
