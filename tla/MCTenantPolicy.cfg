SPECIFICATION Spec
CONSTANTS
    r1 = r1
    r2 = r2
    r3 = r3
    r4 = r4
    a = a
    b = b
    Requests = {r1, r2, r3, r4}
    Slugs = {s1}
    Plans = {"starter", "enterprise"}
    DefaultPlan = "starter"
    GivenStatuses = {"frozen"}
    Quotas = {q1}
    Devices = {d1}
    DefaultPolicyID = p0
    Apps = {a, b}
    Options = {"x", "y"}
    GivenLists <- Lists
    None = None
SYMMETRY RequestSymmetry
INVARIANTS
    TypeOK
    NothingTwice
    EveryDeviceHasPolicy
CHECK_DEADLOCK FALSE
