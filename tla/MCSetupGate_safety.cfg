CONSTANTS
    r1 = r1
    r2 = r2
    app = app
    openApp = openApp
    Actors = {r1, r2}
    Probes = {p1}
    Scopes = {app}
    Unknown = unknown
    Capabilities = {openApp}
    ScopeOf <- MCScopeOf
    NoCap = none
    MaxSessions = 1
SPECIFICATION Spec
INVARIANTS TypeOK RequirementsAgree
 
SYMMETRY Symmetry
CHECK_DEADLOCK FALSE
