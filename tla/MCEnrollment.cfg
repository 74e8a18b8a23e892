SPECIFICATION Spec
CONSTANTS
    k1 = k1
    r1 = r1
    f1 = f1
    v1 = v1
    Keys = {k1}
    Registrations = {r1}
    Refreshes = {f1}
    Revocations = {v1}
    MapColumns = {FALSE}
    Outages = FALSE
    None = None
INVARIANT ChecksSuffice
CHECK_DEADLOCK FALSE
