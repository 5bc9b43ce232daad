SPECIFICATION FairSpec
CONSTANTS
    Handlers = {h1, h2}
    Conns = {c1, c2}
    Workloads = {"associating", "registering", "enqueueing", "anything"}
    Requests <- MCRequests
    InitialRows <- MCInitialRows
    Unset = Unset
    MaxCalls <- MCMaxCalls
    MaxFaults <- MCMaxFaults
INVARIANTS
    OwnRowsOnly
    OneWinner
    AppliedWasRegistered
PROPERTIES
    ReplacedUnlessConcurrent
    EveryCallReplies
CHECK_DEADLOCK FALSE
