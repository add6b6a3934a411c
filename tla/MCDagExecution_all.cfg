\* All graphs of three nodes, two slots, one of them for installs; at most two nodes at work.
SPECIFICATION FairSpec
CONSTANTS
    Nodes <- MCNodes
    Artifacts <- MCArtifacts
    SlotTypes <- MCSlotTypes
    NoNode = 0
    Limit <- MCLimit
    GlobalLimit = 2
    Graphs <- MCGraphs
INVARIANTS
    TypeOK
    ConflictExclusion
    SlotBound
    LockHolderIsLive
    HardDependencyHolds
    ResultIsExact
PROPERTIES
    OrderedGraphEnds
\* executeGraph returns
CHECK_DEADLOCK FALSE
