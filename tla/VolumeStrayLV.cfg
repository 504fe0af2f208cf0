\* Two volume groups and one API call that returns an error.
SPECIFICATION Spec
CONSTANTS
    Volumes = {v1}
    Nodes = {n1}
    NoNode = NoNode
    VGs = {g1, g2}
    NoVG = NoVG
    Capacities = {1}
    Calls = {c1}
    MaxLives = 1
    Threads = 2
    FaultKinds = {"api"}
    MaxFaults = 1
SYMMETRY Symmetry
INVARIANTS
    NoStrayLV
