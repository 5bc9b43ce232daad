\* One replica that restarts, one agent that reconnects, no lost ack.
SPECIFICATION Spec
CONSTANTS
    Replicas = {r1}
    Tenants = {t1}
    Agents = {a1}
    Conns = {c1, c2}
    NoConn = NoConn
    Kinds = {created}
    MaxEvents = 1
    Faults = {"restart"}
    MaxFaults = 1
CHECK_DEADLOCK FALSE
INVARIANT NothingReplayed
