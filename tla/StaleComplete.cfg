SPECIFICATION Spec
CONSTANTS
  Agents = {a1}
  Tasks = {t1}
  Queues = {q1}
  Channels = {chat}
  Dispositions = {}
  Reservations = {1, 2}
  Times = {1}
  Maxes = {1}
  RequestActive = {0}
  RequestStatus = {"Available", "Offline"}
  NoAgent = NoAgent
  NoReservation = NoReservation
  NoDisposition = NoDisposition
  StaleKeys = TRUE
  Callers = {c1, c2}
  ExpirySubs = {}
  WrapUpSubs = {}
  Calls = {"CreateAgent", "DeleteAgent", "EnqueueTask", "AcceptReservation", "CompleteTask"}
  Lossy = FALSE
  Faulty = FALSE
SYMMETRY Symmetry
PROPERTIES CompletedIsTerminal
CHECK_DEADLOCK FALSE
