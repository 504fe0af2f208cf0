SPECIFICATION FairSpec
CONSTANTS
    Mi = 1
    Gi = 2
    IntMod = 64
    PoolSlack = 1
    Paths = {p1, p2}
    vg = vg
    v = v
    other = other
    VGName = vg1
    Prefixes = {vg, v}
    RateConfig <- MCRateConfig
    BadRate = BadRate
    NoLimit = NoLimit
    MaxStack = 2
    MaxGaps = 1
    Sizes = {2, 3, 4}
    FirstSize = 2
    Kinds <- MCKinds
    ExpandCalls = {e1, e2}
    SnapClasses <- MCSnapClasses
    MaxFailures = 1
INVARIANTS
    NodeTypeOK
    WallOfNorth
    MountedHasLV
    NoForgottenMount
    LVWithinCapacity
    SnapWithinOrigin
    LimitsWithinCapacity
    ExportedLimitTrue
PROPERTIES
    ExpandAnswerTrue
    DoneMeansGrown
    ExpansionCompletes
    DestroyCompletes
CHECK_DEADLOCK FALSE
