SPECIFICATION Spec
CONSTANTS
    v1 = v1
    v2 = v2
    v3 = v3
    Values <- MCValues
    None = None
    Missing = Missing
    Torn = Torn
INVARIANTS
    TypeOK
    AckedIsRead
PROPERTIES
    ImplementsRegister
