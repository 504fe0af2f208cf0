\* Progress of the agent on one node, with faults but no broken watch.
SPECIFICATION FairSpec
CONSTANTS
    Volumes = {v1}
    Nodes = {n1}
    NoNode = NoNode
    VGs = {g1, g2}
    NoVG = NoVG
    Capacities = {1}
    Calls = {c1}
    MaxLives = 1
    Threads = 2
    FaultKinds = {"api", "lvm", "stat", "crash"}
    MaxFaults = 1
PROPERTIES
    PendingIsProcessed
    DeletionCompletes
