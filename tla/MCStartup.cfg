SPECIFICATION FairSpec
CONSTANTS
    p1 = p1  p2 = p2  p3 = p3
    Procs = {p1, p2, p3}
    Deployments <- MCDeployments
    Keys = {k1, k2}
    NoKey = NoKey
    NoProc = NoProc
    MaxFaults <- MCMaxFaults
    Events <- MCEvents
    Tenants = {"t1"}
INVARIANTS
    OneSigningKey
    MigrationsInOrder
    ServingIsProvisioned
    AckedIsRecorded
PROPERTIES
    AllServe
    EveryEventRecorded
CHECK_DEADLOCK FALSE
