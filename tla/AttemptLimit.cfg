\* One row, no fault but a POST that fails: how many attempts does it get?
SPECIFICATION Spec
CONSTANTS
    Events = {e1}
    Consumers = {c1}
    JobIds = {1}
    MaxAttempts = 3
    BatchSize = 1
    Configured = {"usable"}
    Faults = {}
CHECK_DEADLOCK FALSE
PROPERTY GivesUpOnlyBeyondMax
