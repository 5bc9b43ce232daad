SPECIFICATION FairSpec
CONSTANTS
  Agents = {a1}
  Tasks = {t1, t2}
  Queues = {q1}
  Channels = {chat}
  Dispositions = {}
  Reservations = {1, 2}
  Times = {1}
  Maxes = {2}
  RequestActive = {0}
  RequestStatus = {"Available"}
  NoAgent = NoAgent
  NoReservation = NoReservation
  NoDisposition = NoDisposition
  StaleKeys = TRUE
  Callers = {c1}
  ExpirySubs = {e1}
  WrapUpSubs = {w1}
  Calls = {"CreateAgent", "DeleteAgent", "SetAgentStatus", "EnqueueTask", "AcceptReservation", "RejectReservation", "EndTask", "CompleteTask"}
  Lossy = FALSE
  Faulty = FALSE
PROPERTIES OfferResolved WrapUpReleased EligibleIsServed
CHECK_DEADLOCK FALSE
