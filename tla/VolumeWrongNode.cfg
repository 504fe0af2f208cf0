\* A name whose second life is on another node than the first.
SPECIFICATION Spec
CONSTANTS
    Volumes = {v1}
    Nodes = {n1, n2}
    NoNode = NoNode
    VGs = {g1}
    NoVG = NoVG
    Capacities = {1}
    Calls = {c1}
    MaxLives = 2
    Threads = 2
    FaultKinds = {}
    MaxFaults = 0
SYMMETRY Symmetry
INVARIANTS
    ProvisionedOnOwner
