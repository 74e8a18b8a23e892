SPECIFICATION CodesSpec
CONSTANTS
    Groups = {g1, g2}
    Devices = {d1, d2}
    Casts = {b1}
    All = All
    OwnKeyOnly = FALSE
    Renders = {x1}
SYMMETRY HubSymmetry
INVARIANTS CodesTypeOK ReferencesIntact GroupHears
CHECK_DEADLOCK FALSE
