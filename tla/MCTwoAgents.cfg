SPECIFICATION Spec
CONSTANTS
  Agents = {a1, a2}
  Tasks = {t1, t2}
  Queues = {q1}
  Channels = {chat}
  Dispositions = {}
  Reservations = {1, 2}
  Times = {1, 2}
  Maxes = {2}
  RequestActive = {0}
  RequestStatus = {"Available"}
  NoAgent = NoAgent
  NoReservation = NoReservation
  NoDisposition = NoDisposition
  StaleKeys = TRUE
  Callers = {c1, c2}
  ExpirySubs = {}
  WrapUpSubs = {w1}
  Calls = {"CreateAgent", "EnqueueTask", "SetAgentStatus", "AcceptReservation", "RejectReservation", "EndTask", "CompleteTask"}
  Lossy = FALSE
  Faulty = FALSE
SYMMETRY Symmetry
INVARIANTS NoStrandedTask EveryMatchIsAhead
PROPERTY NoQueueJump
CHECK_DEADLOCK FALSE
