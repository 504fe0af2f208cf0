\* Two volume groups, requests of different sizes; crashes, failing LVM commands and watches.
SPECIFICATION Spec
CONSTANTS
    Volumes = {v1}
    Nodes = {n1}
    NoNode = NoNode
    VGs = {g1, g2}
    NoVG = NoVG
    Capacities = {1, 2}
    Calls = {c1}
    MaxLives = 1
    Threads = 2
    FaultKinds = {"lvm", "crash", "relist"}
    MaxFaults = 2
SYMMETRY Symmetry
INVARIANTS
    NoStrayLV
PROPERTIES
    KeepsContract
