\* One event and its duplicates, two replicas, two rows of up to three
\* attempts, every fault.
SPECIFICATION FairSpec
CONSTANTS
    Events = {e1}
    Consumers = {c1, c2}
    JobIds = {1, 2}
    MaxAttempts = 3
    BatchSize = 2
    Configured = {"none", "unusable", "usable"}
    Faults = {"publish", "enqueue", "ack", "ackwait", "lookup", "mark"}
CHECK_DEADLOCK FALSE
INVARIANTS
    OneRunnerPerRow
    AckedIsQueued
    PostsAreBounded
PROPERTIES
    RowsSettleOnce
    PublishedGetsJob
    RowSettlesOrOrphaned
