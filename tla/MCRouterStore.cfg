SPECIFICATION StoreSpec
CONSTANTS
  Agents = {a1, a2}
  Tasks = {t1, t2}
  Queues = {q1}
  Channels = {chat}
  Dispositions = {}
  Reservations = {r1, r2}
  Times = {1}
  Maxes = {2}
  RequestActive <- AnyActive
  RequestStatus = {"Available"}
  NoAgent = NoAgent
  NoReservation = NoReservation
  NoDisposition = NoDisposition
  StaleKeys = TRUE
SYMMETRY Symmetry
INVARIANTS TypeOK HeldTaskIsBacked ExclusiveClaim 
PROPERTIES ResolutionIsFinal ImplementsLifecycle
CHECK_DEADLOCK FALSE
