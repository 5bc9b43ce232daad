SPECIFICATION Spec
CONSTANTS
  Agents = {a1}
  Tasks = {t1}
  Queues = {q1}
  Channels = {chat}
  Dispositions = {d1}
  Reservations = {1, 2}
  Times = {1}
  Maxes = {1}
  RequestActive = {0}
  RequestStatus = {"Available", "Offline"}
  NoAgent = NoAgent
  NoReservation = NoReservation
  NoDisposition = NoDisposition
  StaleKeys = TRUE
  Callers = {c1, c2}
  ExpirySubs = {e1}
  WrapUpSubs = {w1}
  Calls = {"CreateAgent", "DeleteAgent", "SetAgentStatus", "ReplaceAgentQueues", "ReplaceAgentCapacity", "ToggleChannelReady", "EnqueueTask", "AcceptReservation", "RejectReservation", "EndTask", "CompleteTask", "SetTaskDisposition"}
  Lossy = TRUE
  Faulty = TRUE
SYMMETRY Symmetry
INVARIANT Consistent
CHECK_DEADLOCK FALSE
