\* A watch that breaks once.
SPECIFICATION FairSpec
CONSTANTS
    Volumes = {v1}
    Nodes = {n1}
    NoNode = NoNode
    VGs = {g1}
    NoVG = NoVG
    Capacities = {1}
    Calls = {c1}
    MaxLives = 2
    Threads = 2
    FaultKinds = {"relist"}
    MaxFaults = 1
PROPERTIES
    PendingIsProcessed
