SPECIFICATION FairSpec
CONSTANTS
    Requests = {1, 2, 3}
    SessionTTL = 4
    TicketTTL = 1
    RefreshBefore = 2
    Skew = 1
    NoToken = NoToken
    NoRequest = NoRequest
    Tenants = {"t1", "t2", "t3"}
    Known = {"t1", "t2"}
    Clients <- MCClients
    Routes <- MCRoutes
    MaxTime <- MCMaxTime
    MaxFaults <- MCMaxFaults
    Mixes <- MCMixes
INVARIANTS
    RejectedOnlyIfSlow
    TasksAreOwn
    OpenedWithinLifetime
    LayersAgree
PROPERTIES
    BothLegsEnd
    EveryRequestReplies
CHECK_DEADLOCK FALSE
