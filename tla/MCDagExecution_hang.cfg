\* Two edits of one file, with a search between them.
SPECIFICATION FairSpec
CONSTANTS
    Nodes <- MCNodes
    Artifacts <- MCArtifacts
    SlotTypes <- MCSlotTypes
    NoNode = 0
    Limit <- MCLimit
    GlobalLimit = 2
    Graphs <- EditTwice
PROPERTIES
    GraphEnds
\* executeGraph returns
CHECK_DEADLOCK FALSE
