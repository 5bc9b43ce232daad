\* Two replicas, an agent that reconnects to either, one event, one fault.
SPECIFICATION Spec
CONSTANTS
    Replicas = {r1, r2}
    Tenants = {t1}
    Agents = {a1}
    Conns = {c1, c2}
    NoConn = NoConn
    Kinds = {created}
    MaxEvents = 1
    Faults = {"restart", "ack"}
    MaxFaults = 1
SYMMETRY Symmetry
CHECK_DEADLOCK FALSE
INVARIANTS RegistryExact CopyWrittenOnce DueIsDelivered AckedIsPublished
