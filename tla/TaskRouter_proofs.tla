------------------------- MODULE TaskRouter_proofs -------------------------
(***************************************************************************)
(* Proofs about the handlers running concurrently over the store, for any  *)
(* number of callers and subscribers: what the store keeps true for any    *)
(* sequence of scripts it keeps true for the handlers; no matching         *)
(* opportunity is missed; a younger task is taken first only while the     *)
(* pass of another goroutine has the older one ahead; and the handlers     *)
(* implement the abstract life of a task.                                  *)
(***************************************************************************)
EXTENDS TaskRouter, RouterCapacity_proofs

---------------------------------------------------------------------------
\* Where a handler can be.

\* What a handler's local state holds at each place.
LEMMA PlaceFacts ==
    ASSUME NEW p \in Place
    PROVE  /\ p.at \in {"Idle", "Pass", "Read", "Timer", "List", "Load", "Scan"}
           /\ p.at = "Idle" => p = Idle
           /\ p.at = "Read" =>
                  /\ p.task \in Tasks
                  /\ p.key \in Agents \cup {NoAgent}
                  /\ p.op \in {"CompleteTask", "EndTask", "WrapUpTimeout"}
           /\ p.at = "Timer" => p.task \in Tasks
           /\ p.at = "List" => p.todo \in SUBSET Tasks
           /\ p.at = "Load" => /\ p.todo \in SUBSET Tasks
                               /\ p.left \in SUBSET Agents
                               /\ p.can \in SUBSET (Tasks \X Agents)
           /\ p.at = "Scan" => p.can \in SUBSET (Tasks \X Agents)
<1>1. CASE p \in {Idle, Pass}
  BY <1>1 DEF Idle, Pass
<1>2. ASSUME NEW op \in {"CompleteTask", "EndTask", "WrapUpTimeout"},
             NEW t \in Tasks, NEW k \in Agents \cup {NoAgent},
             p = Read(op, t, k)
      PROVE  /\ p.at = "Read" /\ p.task = t /\ p.key = k /\ p.op = op
  BY <1>2 DEF Read
<1>3. ASSUME NEW t \in Tasks, p = Timer(t)
      PROVE  p.at = "Timer" /\ p.task = t
  BY <1>3 DEF Timer
<1>4. ASSUME NEW T \in SUBSET Tasks, p = List(T)
      PROVE  p.at = "List" /\ p.todo = T
  BY <1>4 DEF List
<1>5. ASSUME NEW T \in SUBSET Tasks, NEW L \in SUBSET Agents,
             NEW C \in SUBSET (Tasks \X Agents), p = Load(T, L, C)
      PROVE  p.at = "Load" /\ p.todo = T /\ p.left = L /\ p.can = C
  BY <1>5 DEF Load
<1>6. ASSUME NEW C \in SUBSET (Tasks \X Agents), p = Scan(C)
      PROVE  p = Idle \/ (p.at = "Scan" /\ p.can = C)
  BY <1>6 DEF Scan
<1>7. p = Idle => p.at = "Idle"
  BY DEF Idle
<1>8. \/ p \in {Idle, Pass}
      \/ \E op \in {"CompleteTask", "EndTask", "WrapUpTimeout"}, t \in Tasks,
            k \in Agents \cup {NoAgent} : p = Read(op, t, k)
      \/ \E t \in Tasks : p = Timer(t)
      \/ \E T \in SUBSET Tasks : p = List(T)
      \/ \E T \in SUBSET Tasks, L \in SUBSET Agents,
            C \in SUBSET (Tasks \X Agents) : p = Load(T, L, C)
      \/ \E C \in SUBSET (Tasks \X Agents) : p = Scan(C)
  BY DEF Place
<1> QED
  BY <1>1, <1>2, <1>3, <1>4, <1>5, <1>6, <1>7, <1>8

\* The places a step can go to.
LEMMA PlaceMembers ==
    /\ Idle \in Place /\ Pass \in Place
    /\ \A op \in {"CompleteTask", "EndTask", "WrapUpTimeout"}, t \in Tasks,
          k \in Agents \cup {NoAgent} : Read(op, t, k) \in Place
    /\ \A t \in Tasks : Timer(t) \in Place
    /\ \A T \in SUBSET Tasks : List(T) \in Place
    /\ \A T \in SUBSET Tasks, L \in SUBSET Agents,
          C \in SUBSET (Tasks \X Agents) : Load(T, L, C) \in Place
    /\ \A C \in SUBSET (Tasks \X Agents) : Scan(C) \in Place
BY DEF Place

---------------------------------------------------------------------------
\* Reservation ids.

\* Every non-empty set of ids has a least one.
LEMMA LeastNatural ==
    ASSUME NEW S \in SUBSET Nat, S # {}
    PROVE  \E m \in S : \A n \in S : m <= n
<1> DEFINE R == OpToRel(<, Nat)
<1>1. IsWellFoundedOn(R, Nat)
  BY NatLessThanWellFounded
<1>2. \A x, y \in Nat : x < y => <<x, y>> \in R
  BY DEF OpToRel
<1> HIDE DEF R
<1>3. PICK m \in S : \A n \in S : ~(<<n, m>> \in R)
  BY <1>1, WFMin
<1>4. ASSUME NEW n \in S
      PROVE  m <= n
  <2>1. m \in Nat /\ n \in Nat
    OBVIOUS
  <2>2. ~(n < m)
    BY <1>2, <1>3, <2>1
  <2> QED
    BY <2>1, <2>2
<1> QED
  BY <1>4

\* The generator has a next id exactly while some id is unused.
LEMMA NextIDExists ==
    (NewReservationID # {}) <=>
        \E r \in Reservations : reservation[r].status = "None"
<1> DEFINE free == {r \in Reservations : reservation[r].status = "None"}
<1>1. NewReservationID = {r \in free : \A s \in free : r <= s}
  BY DEF NewReservationID
<1>2. free \in SUBSET Nat
  BY HandlerConstants
<1>3. (free # {}) <=> \E r \in Reservations : reservation[r].status = "None"
  OBVIOUS
<1> HIDE DEF free
<1> QED
  BY <1>1, <1>2, <1>3, LeastNatural

---------------------------------------------------------------------------
\* Every step of a handler is one script, or leaves the store alone.

\* Goto moves one goroutine.
LEMMA GotoFacts ==
    ASSUME HandlersTypeOK, NEW w \in Workers, NEW p, Goto(w, p)
    PROVE  /\ call'[w] = p
           /\ \A v \in Workers : v # w => call'[v] = call[v]
           /\ p \in Place => call' \in [Workers -> Place]
BY DEF HandlersTypeOK, Goto

\* The scripts that are handed a key, run by a handler that has read it.
KeyedScript(t, k) == EndTask(t, k) \/ CompleteTask(t, k) \/ WrapUpTimeout(t, k)
KeyedRun(w) ==
    /\ call[w].at = "Read"
    /\ call[w].task \in Tasks /\ call[w].key \in Agents \cup {NoAgent}
    /\ KeyedScript(call[w].task, call[w].key)

\* Every other script but match_commit, on any arguments.
OtherTaskStep(t) ==
    \/ \E q \in Queues, c \in Channels, i \in Times, b \in BOOLEAN :
           EnqueueTask(t, q, c, i, b)
    \/ \E d \in Dispositions : SetTaskDisposition(t, d)
    \/ StartWrapUpTimer(t)
    \/ WrapUpKeyExpires(t)
OtherScript ==
    \/ \E a \in Agents : AgentStep(a)
    \/ \E t \in Tasks : OtherTaskStep(t)
    \/ \E r \in Reservations : ReservationStep(r)

\* A gRPC handler runs a script on its arguments, or reads a task.
LEMMA StartCallIsStore ==
    ASSUME NEW w \in Callers, StartCall(w)
    PROVE  OtherScript \/ UNCHANGED storeVars
<1>1. CASE CallReadTask(w, "CompleteTask") \/ CallReadTask(w, "EndTask")
  BY <1>1 DEF CallReadTask
<1>2. ASSUME NEW a \in Agents, AgentStep(a)
      PROVE  OtherScript
  BY <1>2 DEF OtherScript
<1>3. ASSUME NEW t \in Tasks, OtherTaskStep(t)
      PROVE  OtherScript
  BY <1>3 DEF OtherScript
<1>4. ASSUME NEW r \in Reservations, ReservationStep(r)
      PROVE  OtherScript
  BY <1>4 DEF OtherScript
<1>5. CASE CallCreateAgent(w)
  BY <1>2, <1>5 DEF CallCreateAgent, AgentStep
<1>6. CASE CallDeleteAgent(w)
  BY <1>2, <1>6 DEF CallDeleteAgent, AgentStep
<1>7. CASE CallSetAgentStatus(w)
  BY <1>2, <1>7 DEF CallSetAgentStatus, AgentStep
<1>8. CASE CallReplaceAgentQueues(w)
  BY <1>2, <1>8 DEF CallReplaceAgentQueues, AgentStep
<1>9. CASE CallReplaceAgentCapacity(w)
  BY <1>2, <1>9 DEF CallReplaceAgentCapacity, AgentStep
<1>10. CASE CallToggleChannelReady(w)
  BY <1>2, <1>10 DEF CallToggleChannelReady, AgentStep
<1>11. CASE CallEnqueueTask(w)
  BY <1>3, <1>11 DEF CallEnqueueTask, OtherTaskStep
<1>12. CASE CallSetTaskDisposition(w)
  BY <1>3, <1>12 DEF CallSetTaskDisposition, OtherTaskStep
<1>13. CASE CallAcceptReservation(w)
  BY <1>4, <1>13 DEF CallAcceptReservation, ReservationStep
<1>14. CASE CallRejectReservation(w)
  BY <1>4, <1>14 DEF CallRejectReservation, ReservationStep
<1> QED
  BY <1>1, <1>5, <1>6, <1>7, <1>8, <1>9, <1>10, <1>11, <1>12, <1>13, <1>14,
     StartCall(w) DEF StartCall

\* So does a handler that is under way; the key it passes to complete_task,
\* end_task or wrap_up_timeout is whatever it read.
LEMMA ContinueIsStore ==
    ASSUME HandlersTypeOK, NEW w \in Workers, Continue(w) \/ Crash(w)
    PROVE  \/ OtherScript
           \/ UNCHANGED storeVars
           \/ KeyedRun(w)
           \/ /\ TryMatch(w)
              /\ \E t \in Tasks, a \in Agents, r \in Reservations :
                     MatchCommit(a, t, r)
<1>0. call[w] \in Place
  BY DEF HandlersTypeOK
<1>2. call[w].at = "Read" =>
          /\ call[w].task \in Tasks
          /\ call[w].key \in Agents \cup {NoAgent}
  BY <1>0, PlaceFacts
<1>3. ASSUME NEW t \in Tasks, OtherTaskStep(t)
      PROVE  OtherScript
  BY <1>3 DEF OtherScript
<1>4. CASE RunCompleteTask(w)
  BY <1>2, <1>4 DEF RunCompleteTask, KeyedRun, KeyedScript
<1>5. CASE RunEndTask(w)
  BY <1>2, <1>5 DEF RunEndTask, KeyedRun, KeyedScript
<1>6. CASE RunWrapUpTimeout(w)
  BY <1>2, <1>6 DEF RunWrapUpTimeout, KeyedRun, KeyedScript
<1>7. CASE RunStartWrapUpTimer(w)
  <2>1. call[w].task \in Tasks
    BY <1>0, <1>7, PlaceFacts DEF RunStartWrapUpTimer
  <2> QED
    BY <1>3, <1>7, <2>1 DEF RunStartWrapUpTimer, OtherTaskStep
<1>8. CASE TryMatch(w)
  <2>1. call[w].can \in SUBSET (Tasks \X Agents)
    BY <1>0, <1>8, PlaceFacts DEF TryMatch
  <2>2. PICK p \in Oldest(call[w].can), r \in NewReservationID :
            MatchCommit(p[2], p[1], r)
    BY <1>8 DEF TryMatch
  <2>3. p[1] \in Tasks /\ p[2] \in Agents /\ r \in Reservations
    BY <2>1 DEF Oldest, NewReservationID
  <2> QED
    BY <1>8, <2>2, <2>3
<1>9. CASE ReadPending(w) \/ ReadAgentIds(w) \/ ReadAgent(w)
           \/ MatchRefused(w) \/ PassFails(w) \/ Crash(w)
  BY <1>9 DEF ReadPending, ReadAgentIds, ReadAgent, MatchRefused, PassFails,
              Crash
<1> QED
  BY <1>4, <1>5, <1>6, <1>7, <1>8, <1>9, Continue(w) \/ Crash(w) DEF Continue

\* And so do Redis and the subscribers.
LEMMA NextIsScript ==
    ASSUME HandlersTypeOK, [Next]_vars
    PROVE  \/ OtherScript
           \/ UNCHANGED storeVars
           \/ \E w \in Workers : KeyedRun(w)
           \/ /\ \E w \in Workers : TryMatch(w)
              /\ \E t \in Tasks, a \in Agents, r \in Reservations :
                     MatchCommit(a, t, r)
<1>1. CASE UNCHANGED vars
  BY <1>1 DEF vars
<1>2. CASE \E w \in Callers : StartCall(w)
  BY <1>2, StartCallIsStore
<1>3. CASE \E w \in Workers : Continue(w) \/ Crash(w)
  BY <1>3, ContinueIsStore
<1>4. ASSUME NEW s \in ExpirySubs, HandleExpiredReservation(s)
      PROVE  OtherScript \/ UNCHANGED storeVars
  <2>1. expired[s] \subseteq Reservations
    BY DEF HandlersTypeOK
  <2> QED
    BY <1>4, <2>1 DEF HandleExpiredReservation, OtherScript, ReservationStep
<1>5. CASE \E s \in WrapUpSubs : HandleWrapUpTimeout(s)
  BY <1>5 DEF HandleWrapUpTimeout
<1>6. CASE \E r \in Reservations : ReservationExpires(r)
  BY <1>6 DEF ReservationExpires, OtherScript, ReservationStep
<1>7. CASE \E t \in Tasks : WrapUpTimerFires(t)
  BY <1>7 DEF WrapUpTimerFires, OtherScript, OtherTaskStep
<1> QED
  BY <1>1, <1>2, <1>3, <1>4, <1>5, <1>6, <1>7 DEF Next

\* Seen from the store, with keys that may be out of date.
LEMMA NextIsStore ==
    ASSUME HandlersTypeOK, [Next]_vars
    PROVE  [StoreNext]_storeVars
<1>1. \A t \in Tasks : Keys(t) = Agents \cup {NoAgent}
  BY HandlerConstants DEF Keys
<1>2. ASSUME NEW t \in Tasks,
             \/ OtherTaskStep(t)
             \/ \E k \in Agents \cup {NoAgent} : KeyedScript(t, k)
             \/ \E a \in Agents, r \in Reservations : MatchCommit(a, t, r)
      PROVE  StoreNext
  <2>1. TaskStep(t)
    BY <1>1, <1>2 DEF TaskStep, OtherTaskStep, KeyedScript
  <2> QED
    BY <2>1 DEF StoreNext
<1>3. OtherScript => StoreNext
  BY <1>2 DEF OtherScript, StoreNext
<1> QED
  BY <1>2, <1>3, NextIsScript DEF KeyedRun

---------------------------------------------------------------------------
\* The handlers' own state.

\* A goroutine on its way to wrap_up_timeout, with the key it has read.
InTimeout(place) == place.at = "Read" /\ place.op = "WrapUpTimeout"

\* No goroutine has just read a key for wrap_up_timeout.
NoNewTimeout ==
    \A v \in Workers : InTimeout(call'[v]) => call'[v] = call[v]

\* The local state after a step, whichever way the step goes.
LEMMA StartCallType ==
    ASSUME TypeOK, HandlersTypeOK, NEW w \in Callers, StartCall(w)
    PROVE  HandlersTypeOK' /\ NoNewTimeout
<1>0. w \in Workers
  BY DEF Workers
<1>1. \/ \E p \in {Idle, Pass} : Goto(w, p)
      \/ UNCHANGED call
      \/ \E t \in Tasks, op \in {"CompleteTask", "EndTask"} :
            Goto(w, Read(op, t, task[t].agent))
  <2>1. CASE \/ CallCreateAgent(w) \/ CallDeleteAgent(w)
             \/ CallSetAgentStatus(w) \/ CallReplaceAgentQueues(w)
             \/ CallReplaceAgentCapacity(w) \/ CallEnqueueTask(w)
             \/ CallRejectReservation(w)
    BY <2>1 DEF CallCreateAgent, CallDeleteAgent, CallSetAgentStatus,
       CallReplaceAgentQueues, CallReplaceAgentCapacity, CallEnqueueTask,
       CallRejectReservation
  <2>2. CASE \/ CallToggleChannelReady(w) \/ CallAcceptReservation(w)
             \/ CallSetTaskDisposition(w)
    BY <2>2 DEF CallToggleChannelReady, CallAcceptReservation,
       CallSetTaskDisposition
  <2>3. CASE CallReadTask(w, "CompleteTask") \/ CallReadTask(w, "EndTask")
    BY <2>3 DEF CallReadTask
  <2> QED
    BY <2>1, <2>2, <2>3, StartCall(w) DEF StartCall
<1>2. UNCHANGED <<expired, fired>>
  BY StartCall(w) DEF StartCall, CallCreateAgent, CallDeleteAgent,
     CallSetAgentStatus, CallReplaceAgentQueues, CallReplaceAgentCapacity,
     CallEnqueueTask, CallRejectReservation, CallToggleChannelReady,
     CallAcceptReservation, CallSetTaskDisposition, CallReadTask, Local
<1>3. CASE UNCHANGED call
  BY <1>2, <1>3 DEF HandlersTypeOK, NoNewTimeout, InTimeout
<1>4. ASSUME NEW p \in {Idle, Pass}, Goto(w, p)
      PROVE  HandlersTypeOK' /\ NoNewTimeout
  <2>1. p \in Place /\ p.at # "Read"
    BY PlaceMembers DEF Idle, Pass
  <2> QED
    BY <1>0, <1>2, <1>4, <2>1, GotoFacts
    DEF HandlersTypeOK, NoNewTimeout, InTimeout
<1>5. ASSUME NEW t \in Tasks, NEW op \in {"CompleteTask", "EndTask"},
             Goto(w, Read(op, t, task[t].agent))
      PROVE  HandlersTypeOK' /\ NoNewTimeout
  <2>1. task[t].agent \in Agents \cup {NoAgent}
    BY DEF TypeOK, Task
  <2>2. Read(op, t, task[t].agent) \in Place
    BY <2>1, PlaceMembers
  <2>3. Read(op, t, task[t].agent).op # "WrapUpTimeout"
    BY DEF Read
  <2> QED
    BY <1>0, <1>2, <1>5, <2>2, <2>3, GotoFacts
    DEF HandlersTypeOK, NoNewTimeout, InTimeout
<1> QED
  BY <1>1, <1>3, <1>4, <1>5

\* A handler under way moves along its own places.
LEMMA ContinueGoes ==
    ASSUME TypeOK, HandlersTypeOK, NEW w \in Workers, Continue(w) \/ Crash(w)
    PROVE  /\ \E p \in Place : p.at # "Read" /\ Goto(w, p)
           /\ UNCHANGED <<expired, fired>>
<1>0. call[w] \in Place
  BY DEF HandlersTypeOK
<1>1. Idle \in Place /\ Pass \in Place /\ Idle.at # "Read" /\ Pass.at # "Read"
  BY PlaceMembers DEF Idle, Pass
<1>2. \A C \in SUBSET (Tasks \X Agents) : Scan(C) \in Place /\ Scan(C).at # "Read"
  BY PlaceMembers DEF Scan, Idle
<1>3. CASE RunCompleteTask(w) \/ RunWrapUpTimeout(w) \/ RunStartWrapUpTimer(w)
           \/ PassFails(w) \/ Crash(w)
  BY <1>1, <1>3 DEF RunCompleteTask, RunWrapUpTimeout, RunStartWrapUpTimer,
     PassFails, Crash, Local
<1>4. CASE RunEndTask(w)
  <2>1. call[w].task \in Tasks
    BY <1>0, <1>4, PlaceFacts DEF RunEndTask
  <2>2. Timer(call[w].task) \in Place /\ Timer(call[w].task).at # "Read"
    BY <2>1, PlaceMembers DEF Timer
  <2> QED
    BY <1>1, <1>4, <2>2 DEF RunEndTask, Local
<1>5. CASE ReadPending(w)
  <2>1. List(pending) \in Place /\ List(pending).at # "Read"
    BY PlaceMembers DEF List, TypeOK
  <2> QED
    BY <1>1, <1>5, <2>1 DEF ReadPending, Local
<1>6. CASE ReadAgentIds(w)
  <2> DEFINE ids == {a \in Agents : Exists(a)}
             next == Load(call[w].todo, ids, {})
  <2>1. call[w].todo \in SUBSET Tasks
    BY <1>0, <1>6, PlaceFacts DEF ReadAgentIds
  <2>2. next \in Place
    BY <2>1, PlaceMembers
  <2>3. next.at # "Read"
    BY DEF Load
  <2> HIDE DEF next
  <2>4. Goto(w, IF ids = {} THEN Idle ELSE next) /\ Local
    BY <1>6 DEF ReadAgentIds, next
  <2> QED
    BY <1>1, <2>2, <2>3, <2>4 DEF Local
<1>7. CASE ReadAgent(w)
  <2>1. /\ call[w].todo \in SUBSET Tasks /\ call[w].left \in SUBSET Agents
        /\ call[w].can \in SUBSET (Tasks \X Agents)
    BY <1>0, <1>7, PlaceFacts DEF ReadAgent
  <2>2. PICK a \in call[w].left :
            LET can == call[w].can \cup
                    {<<t, a>> : t \in {u \in call[w].todo :
                         AgentCanTake(agent[a], capacity[a], task[u])}}
                left == call[w].left \ {a}
            IN  Goto(w, IF left = {} THEN Scan(can)
                        ELSE Load(call[w].todo, left, can))
    BY <1>7 DEF ReadAgent
  <2> DEFINE can == call[w].can \cup
                    {<<t, a>> : t \in {u \in call[w].todo :
                         AgentCanTake(agent[a], capacity[a], task[u])}}
             left == call[w].left \ {a}
             next == Load(call[w].todo, left, can)
  <2>3. can \in SUBSET (Tasks \X Agents) /\ left \in SUBSET Agents
    BY <2>1
  <2>4. Goto(w, IF left = {} THEN Scan(can) ELSE next)
    BY <2>2
  <2> HIDE DEF can, left
  <2>5. next \in Place
    BY <2>1, <2>3, PlaceMembers
  <2>6. next.at # "Read"
    BY DEF Load
  <2> HIDE DEF next
  <2> QED
    BY <1>2, <1>7, <2>3, <2>4, <2>5, <2>6 DEF ReadAgent, Local
<1>8. CASE TryMatch(w) \/ MatchRefused(w)
  <2>1. call[w].can \in SUBSET (Tasks \X Agents)
    BY <1>0, <1>8, PlaceFacts DEF TryMatch, MatchRefused
  <2>2. /\ \A p : Scan({q \in call[w].can : q[1] # p[1]}) \in Place
               /\ Scan({q \in call[w].can : q[1] # p[1]}).at # "Read"
        /\ \A p : Scan(call[w].can \ {p}) \in Place
               /\ Scan(call[w].can \ {p}).at # "Read"
    BY <1>2, <2>1
  <2> QED
    BY <1>8, <2>2 DEF TryMatch, MatchRefused, Local
<1> QED
  BY <1>3, <1>4, <1>5, <1>6, <1>7, <1>8, Continue(w) \/ Crash(w) DEF Continue

\* Every step keeps the handlers' state in its type.
LEMMA HandlersStepType ==
    ASSUME TypeOK, HandlersTypeOK, [Next]_vars
    PROVE  /\ HandlersTypeOK'
           /\ NoNewTimeout \/ \E s \in WrapUpSubs : HandleWrapUpTimeout(s)
<1>1. CASE UNCHANGED vars
  BY <1>1 DEF vars, HandlersTypeOK, NoNewTimeout, InTimeout
<1>2. CASE \E w \in Callers : StartCall(w)
  BY <1>2, StartCallType
<1>3. ASSUME NEW w \in Workers, Continue(w) \/ Crash(w)
      PROVE  HandlersTypeOK' /\ NoNewTimeout
  BY <1>3, ContinueGoes, GotoFacts
    DEF HandlersTypeOK, NoNewTimeout, InTimeout
<1>4. ASSUME NEW s \in ExpirySubs, HandleExpiredReservation(s)
      PROVE  HandlersTypeOK' /\ NoNewTimeout
  <2>1. s \in Workers
    BY DEF Workers
  <2>2. fired' = fired /\ expired' \in [ExpirySubs -> SUBSET Reservations]
    BY <1>4 DEF HandleExpiredReservation, HandlersTypeOK
  <2>3. Goto(s, Pass) \/ UNCHANGED call
    BY <1>4 DEF HandleExpiredReservation
  <2>4. Pass \in Place /\ Pass.at # "Read"
    BY PlaceMembers DEF Pass
  <2> QED
    BY <2>1, <2>2, <2>3, <2>4, GotoFacts
    DEF HandlersTypeOK, NoNewTimeout, InTimeout
<1>5. ASSUME NEW s \in WrapUpSubs, HandleWrapUpTimeout(s)
      PROVE  HandlersTypeOK'
  <2>1. s \in Workers
    BY DEF Workers
  <2>2. PICK t \in fired[s] :
            /\ fired' = [fired EXCEPT ![s] = @ \ {t}]
            /\ Goto(s, Read("WrapUpTimeout", t, task[t].agent))
    BY <1>5 DEF HandleWrapUpTimeout
  <2>3. t \in Tasks /\ task[t].agent \in Agents \cup {NoAgent}
    BY DEF HandlersTypeOK, TypeOK, Task
  <2>4. Read("WrapUpTimeout", t, task[t].agent) \in Place
    BY <2>3, PlaceMembers
  <2>5. expired' = expired /\ fired' \in [WrapUpSubs -> SUBSET Tasks]
    BY <1>5, <2>2 DEF HandleWrapUpTimeout, HandlersTypeOK
  <2> QED
    BY <2>1, <2>2, <2>4, <2>5, GotoFacts DEF HandlersTypeOK
<1>6. ASSUME NEW r \in Reservations, ReservationExpires(r)
      PROVE  HandlersTypeOK' /\ NoNewTimeout
  BY <1>6 DEF ReservationExpires, HandlersTypeOK, NoNewTimeout, InTimeout
<1>7. ASSUME NEW t \in Tasks, WrapUpTimerFires(t)
      PROVE  HandlersTypeOK' /\ NoNewTimeout
  BY <1>7 DEF WrapUpTimerFires, HandlersTypeOK, NoNewTimeout, InTimeout
<1> QED
  BY <1>1, <1>2, <1>3, <1>4, <1>5, <1>6, <1>7 DEF Next

---------------------------------------------------------------------------
\* Where the key of wrap_up_timeout comes from.

\* No script touches the timer field of a task.
LEMMA TimerFacts ==
    ASSUME NEW tk \in Task
    PROVE  /\ \A s \in TaskStatus : InStatus(tk, s).timer = tk.timer
           /\ \A r \in Reservations, a \in Agents :
                  Reserved(tk, r, a).timer = tk.timer
           /\ Requeued(tk).timer = tk.timer
           /\ Completed(tk).timer = tk.timer
           /\ \A d \in Dispositions :
                  [tk EXCEPT !.disposition = d].timer = tk.timer
BY DEF InStatus, Reserved, Requeued, Completed, Task

\* What one script does to a task: it is enqueued, or offered to an agent,
\* or keeps its timer and its agent or loses the latter.
LEMMA TaskChange ==
    ASSUME Consistent, [StoreNext]_storeVars, NEW t \in Tasks
    PROVE  \/ task'[t] = task[t]
           \/ /\ task[t].status = "Absent" /\ task'[t].status = "Pending"
              /\ task'[t].agent = NoAgent
           \/ /\ task[t].status # "Absent" /\ task'[t].status # "Absent"
              /\ task'[t].timer = task[t].timer
              /\ task'[t].agent \in {NoAgent, task[t].agent}
           \/ \E a \in Agents, r \in Reservations : MatchCommit(a, t, r)
<1>0. task \in [Tasks -> Task] /\ task[t] \in Task
  BY DEF Consistent, TypeOK
<1>1. ASSUME NEW a \in Agents, AgentStep(a)
      PROVE  \/ task'[t] = task[t]
             \/ /\ task[t].status # "Absent" /\ task'[t].status # "Absent"
                /\ task'[t].timer = task[t].timer
                /\ task'[t].agent \in {NoAgent, task[t].agent}
  <2>1. CASE DeleteAgent(a)
    <3>1. \/ task'[t] = task[t]
          \/ /\ task'[t] = Requeued(task[t])
             /\ \E r \in InFlight(a) : reservation[r].task = t
      BY <2>1 DEF DeleteAgent
    <3>2. ASSUME NEW r \in InFlight(a), reservation[r].task = t
          PROVE  task[t].status # "Absent"
      <4>1. r \in Reservations /\ r \in offers[a]
            /\ reservation[r].status \in {"Offered", "Accepted"}
        BY DEF InFlight, Consistent, TypeOK
      <4> QED
        BY <3>2, <4>1
        DEF Consistent, OfferIsCurrent, AcceptedIsCurrentOrDone
    <3> QED
      BY <1>0, <3>1, <3>2, RequeuedFacts, TimerFacts
  <2>2. CASE ~DeleteAgent(a)
    BY <1>1, <2>2 DEF AgentStep, CreateAgent, SetAgentStatus,
       ReplaceAgentQueues, ReplaceCapacity, ToggleChannelReady, taskVars
  <2> QED
    BY <2>1, <2>2
<1>2. ASSUME NEW r \in Reservations, ReservationStep(r)
      PROVE  \/ task'[t] = task[t]
             \/ /\ task[t].status # "Absent" /\ task'[t].status # "Absent"
                /\ task'[t].timer = task[t].timer
                /\ task'[t].agent \in {NoAgent, task[t].agent}
  <2>1. /\ reservation[r].task \in Tasks
        /\ reservation[r].status = "Offered" =>
               task[reservation[r].task].status = "Reserved"
    BY DEF Consistent, TypeOK, Reservation, OfferIsCurrent
  <2>2. "Active" \in TaskStatus
    BY DEF TaskStatus
  <2>3. CASE AcceptReservation(r)
    <3>1. task' = [task EXCEPT ![reservation[r].task] =
                                   InStatus(@, "Active")]
          /\ reservation[r].status = "Offered"
      BY <2>3 DEF AcceptReservation
    <3>2. CASE reservation[r].task = t
      <4>1. task'[t] = InStatus(task[t], "Active")
        BY <1>0, <3>1, <3>2
      <4> QED
        BY <1>0, <2>1, <2>2, <3>1, <3>2, <4>1, InStatusFacts, TimerFacts
    <3>3. CASE reservation[r].task # t
      BY <1>0, <3>1, <3>3
    <3> QED
      BY <3>2, <3>3
  <2>4. CASE RejectReservation(r)
    <3>1. task' = [task EXCEPT ![reservation[r].task] = Requeued(@)]
          /\ reservation[r].status = "Offered"
      BY <2>4 DEF RejectReservation
    <3>2. CASE reservation[r].task = t
      <4>1. task'[t] = Requeued(task[t])
        BY <1>0, <3>1, <3>2
      <4> QED
        BY <1>0, <2>1, <3>1, <3>2, <4>1, RequeuedFacts, TimerFacts
    <3>3. CASE reservation[r].task # t
      BY <1>0, <3>1, <3>3
    <3> QED
      BY <3>2, <3>3
  <2>5. CASE ReservationKeyExpires(r)
    BY <2>5 DEF ReservationKeyExpires, taskVars
  <2> QED
    BY <1>2, <2>3, <2>4, <2>5 DEF ReservationStep
<1>3. ASSUME NEW u \in Tasks, TaskStep(u), task'[t] # task[t],
             \A a \in Agents, r \in Reservations : ~MatchCommit(a, t, r)
      PROVE  \/ /\ task[t].status = "Absent" /\ task'[t].status = "Pending"
                /\ task'[t].agent = NoAgent
             \/ /\ task[t].status # "Absent" /\ task'[t].status # "Absent"
                /\ task'[t].timer = task[t].timer
                /\ task'[t].agent \in {NoAgent, task[t].agent}
  <2>1. u = t
    BY <1>0, <1>3 DEF TaskStep, EnqueueTask, MatchCommit, EndTask,
       CompleteTask, WrapUpTimeout, SetTaskDisposition, StartWrapUpTimer,
       WrapUpKeyExpires, taskVars
  <2>2. "WrapUp" \in TaskStatus
    BY DEF TaskStatus
  <2>3. CASE \E q \in Queues, c \in Channels, i \in Times, b \in BOOLEAN :
                 EnqueueTask(t, q, c, i, b)
    BY <1>0, <2>3 DEF EnqueueTask
  <2>4. CASE \E k \in Keys(t) : EndTask(t, k)
    <3>1. task[t].status = "Active" /\ task'[t] = InStatus(task[t], "WrapUp")
      BY <1>0, <2>4 DEF EndTask
    <3> QED
      BY <1>0, <2>2, <3>1, InStatusFacts, TimerFacts
  <2>5. CASE \E k \in Keys(t) : CompleteTask(t, k)
    <3>1. /\ task[t].status \in {"Active", "WrapUp"}
          /\ task'[t] = Completed(task[t])
      BY <1>0, <2>5 DEF CompleteTask
    <3> QED
      BY <1>0, <3>1, CompletedFacts, TimerFacts
  <2>6. CASE \E d \in Dispositions : SetTaskDisposition(t, d)
    BY <1>0, <2>6, TaggedFacts, TimerFacts DEF SetTaskDisposition
  <2>7. /\ \A k : ~WrapUpTimeout(t, k)
        /\ ~StartWrapUpTimer(t) /\ ~WrapUpKeyExpires(t)
    BY <1>3 DEF WrapUpTimeout, StartWrapUpTimer, WrapUpKeyExpires, taskVars
  <2> QED
    BY <1>3, <2>1, <2>3, <2>4, <2>5, <2>6, <2>7 DEF TaskStep
<1> QED
  BY <1>1, <1>2, <1>3 DEF StoreNext, storeVars

\* A reservation names one task and one agent for ever.
LEMMA OfferIsRemembered ==
    ASSUME TypeOK, [StoreNext]_storeVars, NEW r \in Reservations,
           reservation[r].status # "None"
    PROVE  /\ reservation'[r].status # "None"
           /\ reservation'[r].task = reservation[r].task
           /\ reservation'[r].agent = reservation[r].agent
<1>0. reservation \in [Reservations -> Reservation]
      /\ reservation[r] \in Reservation
  BY DEF TypeOK
<1>1. ASSUME NEW a \in Agents, AgentStep(a)
      PROVE  reservation'[r] \in {reservation[r],
                                  Resolved(reservation[r], "Rejected")}
  <2>1. CASE DeleteAgent(a)
    BY <2>1 DEF DeleteAgent
  <2>2. CASE ~DeleteAgent(a)
    BY <1>1, <2>2 DEF AgentStep, CreateAgent, SetAgentStatus,
       ReplaceAgentQueues, ReplaceCapacity, ToggleChannelReady
  <2> QED
    BY <2>1, <2>2
<1>2. ASSUME NEW t \in Tasks, TaskStep(t)
      PROVE  reservation'[r] = reservation[r]
  BY <1>0, <1>2 DEF TaskStep, EnqueueTask, MatchCommit, EndTask,
     CompleteTask, WrapUpTimeout, SetTaskDisposition, StartWrapUpTimer,
     WrapUpKeyExpires
<1>3. ASSUME NEW s \in Reservations, ReservationStep(s)
      PROVE  reservation'[r] \in {reservation[r],
                                  Resolved(reservation[r], "Accepted"),
                                  Resolved(reservation[r], "Rejected")}
  BY <1>0, <1>3 DEF ReservationStep, AcceptReservation, RejectReservation,
     ReservationKeyExpires
<1>4. reservation'[r] \in {reservation[r],
                           Resolved(reservation[r], "Accepted"),
                           Resolved(reservation[r], "Rejected")}
  BY <1>1, <1>2, <1>3 DEF StoreNext, storeVars
<1> QED
  BY <1>0, <1>4, ResolvedFacts

\* So an agent that a task was offered to stays one.
LEMMA OfferedStays ==
    ASSUME TypeOK, [StoreNext]_storeVars, NEW t, NEW a, OfferedTo(t, a)
    PROVE  OfferedTo(t, a)'
BY OfferIsRemembered DEF OfferedTo

\* The agent of a task is one it was offered to, and only a task with a
\* timer has a timer key.
HoldersWereOffered ==
    \A t \in Tasks : /\ task[t].agent # NoAgent => OfferedTo(t, task[t].agent)
                     /\ task[t].status = "Absent" => task[t].timer = FALSE
TimersAreSet == \A t \in wrapupexp : task[t].timer = TRUE

\* The timer of a task is decided when it is enqueued.
LEMMA TimerStays ==
    ASSUME Consistent, HoldersWereOffered, [StoreNext]_storeVars,
           NEW t \in Tasks, task[t].timer = TRUE
    PROVE  task'[t].timer = TRUE
<1>1. task[t].status # "Absent"
  BY DEF HoldersWereOffered
<1>2. ASSUME NEW a \in Agents, NEW r \in Reservations, MatchCommit(a, t, r)
      PROVE  task'[t].timer = TRUE
  <2>1. task[t] \in Task /\ task'[t] = Reserved(task[t], r, a)
    BY <1>2 DEF MatchCommit, Consistent, TypeOK
  <2> QED
    BY <2>1, TimerFacts
<1> QED
  BY <1>1, <1>2, TaskChange

\* Every script keeps the two.
LEMMA HoldersStep ==
    ASSUME Consistent, HoldersWereOffered, TimersAreSet, [StoreNext]_storeVars
    PROVE  HoldersWereOffered' /\ TimersAreSet'
<1>0. TypeOK
  BY DEF Consistent
<1>1. ASSUME NEW t \in Tasks
      PROVE  (/\ task[t].agent # NoAgent => OfferedTo(t, task[t].agent)
              /\ task[t].status = "Absent" => task[t].timer = FALSE)'
  <2>1. ASSUME NEW a \in Agents, NEW r \in Reservations, MatchCommit(a, t, r)
        PROVE  (/\ OfferedTo(t, task[t].agent)
                /\ task[t].status # "Absent")'
    <3>1. task'[t] = Reserved(task[t], r, a) /\ task[t] \in Task
      BY <1>0, <2>1 DEF MatchCommit, TypeOK
    <3>2. task'[t].agent = a /\ task'[t].status = "Reserved"
      BY <3>1, ReservedFacts
    <3>3. reservation'[r] = [status |-> "Offered", task |-> t, agent |-> a]
      BY <1>0, <2>1 DEF MatchCommit, TypeOK
    <3> QED
      BY <3>2, <3>3 DEF OfferedTo
  <2>2. CASE \A a \in Agents, r \in Reservations : ~MatchCommit(a, t, r)
    <3>1. /\ task'[t].agent \in {NoAgent, task[t].agent}
          /\ task'[t].status = "Absent" => task'[t] = task[t]
      BY <2>2, TaskChange
    <3>2. ASSUME NEW a, a = task[t].agent, a # NoAgent
          PROVE  OfferedTo(t, a)'
      BY <1>0, <3>2, OfferedStays DEF HoldersWereOffered
    <3>3. (task[t].agent # NoAgent => OfferedTo(t, task[t].agent))'
      BY <3>1, <3>2
    <3> QED
      BY <3>1, <3>3 DEF HoldersWereOffered
  <2> QED
    BY <2>1, <2>2
<1>2. ASSUME NEW t \in wrapupexp'
      PROVE  task'[t].timer = TRUE
  <2>1. CASE t \in wrapupexp
    BY <1>0, <2>1, TimerStays DEF TimersAreSet, TypeOK
  <2>2. CASE t \notin wrapupexp
    <3>1. t \in Tasks /\ StartWrapUpTimer(t)
      BY <1>2, <2>2 DEF StoreNext, storeVars, AgentStep, CreateAgent,
         SetAgentStatus, ReplaceAgentQueues, ReplaceCapacity,
         ToggleChannelReady, DeleteAgent, TaskStep, EnqueueTask, MatchCommit,
         EndTask, CompleteTask, WrapUpTimeout, SetTaskDisposition,
         StartWrapUpTimer, WrapUpKeyExpires, ReservationStep,
         AcceptReservation, RejectReservation, ReservationKeyExpires
    <3> QED
      BY <1>0, <3>1 DEF StartWrapUpTimer, taskVars, TypeOK, Task
  <2> QED
    BY <2>1, <2>2
<1> QED
  BY <1>1, <1>2 DEF HoldersWereOffered, TimersAreSet

\* A notification of a wrap-up timer is about a task that has one, and the
\* key its handler has read is that of an agent the task was offered to.
TimeoutKeys ==
    /\ \A s \in WrapUpSubs : \A t \in fired[s] : task[t].timer = TRUE
    /\ \A w \in Workers : InTimeout(call[w]) =>
           /\ task[call[w].task].timer = TRUE
           /\ \/ call[w].key = NoAgent
              \/ OfferedTo(call[w].task, call[w].key)

\* Every step keeps that too.
LEMMA TimeoutKeysStep ==
    ASSUME Consistent, HandlersTypeOK, HoldersWereOffered, TimersAreSet,
           TimeoutKeys, [Next]_vars
    PROVE  TimeoutKeys'
<1>0. TypeOK /\ [StoreNext]_storeVars
  BY NextIsStore DEF Consistent
<1>1. ASSUME NEW s \in WrapUpSubs, NEW t \in fired'[s]
      PROVE  task'[t].timer = TRUE
  <2>1. fired[s] \subseteq Tasks /\ wrapupexp \subseteq Tasks
    BY <1>0 DEF HandlersTypeOK, TypeOK
  <2>2. t \in fired[s] \/ t \in wrapupexp
    <3>1. CASE \E u \in Tasks : WrapUpTimerFires(u)
      BY <1>1, <3>1 DEF WrapUpTimerFires, WrapUpKeyExpires
    <3>2. CASE \E v \in WrapUpSubs : HandleWrapUpTimeout(v)
      BY <1>1, <3>2 DEF HandleWrapUpTimeout, HandlersTypeOK
    <3>3. CASE UNCHANGED fired
      BY <1>1, <3>3
    <3>4. \/ \E u \in Tasks : WrapUpTimerFires(u)
          \/ \E v \in WrapUpSubs : HandleWrapUpTimeout(v)
          \/ UNCHANGED fired
      <4>1. ASSUME NEW w \in Callers, StartCall(w) PROVE UNCHANGED fired
        BY <4>1 DEF StartCall, CallCreateAgent, CallDeleteAgent,
           CallSetAgentStatus, CallReplaceAgentQueues,
           CallReplaceAgentCapacity, CallEnqueueTask, CallRejectReservation,
           CallToggleChannelReady, CallAcceptReservation,
           CallSetTaskDisposition, CallReadTask, Local
      <4>2. ASSUME NEW w \in Workers, Continue(w) \/ Crash(w)
            PROVE  UNCHANGED fired
        BY <1>0, <4>2, ContinueGoes
      <4> QED
        BY <4>1, <4>2 DEF Next, vars, HandleExpiredReservation,
           ReservationExpires
    <3> QED
      BY <3>1, <3>2, <3>3, <3>4
  <2>3. task[t].timer = TRUE
    BY <2>2 DEF TimeoutKeys, TimersAreSet
  <2> QED
    BY <1>0, <2>1, <2>2, <2>3, TimerStays
<1>2. ASSUME NEW w \in Workers, InTimeout(call'[w])
      PROVE  (/\ task[call[w].task].timer = TRUE
              /\ \/ call[w].key = NoAgent
                 \/ OfferedTo(call[w].task, call[w].key))'
  <2>1. PICK t, k :
            /\ t \in Tasks /\ task[t].timer = TRUE
            /\ k = NoAgent \/ OfferedTo(t, k)
            /\ call'[w].task = t /\ call'[w].key = k
    <3>1. CASE call'[w] = call[w]
      <4>1. InTimeout(call[w])
        BY <1>2, <3>1
      <4>2. call[w].task \in Tasks
        BY <4>1, PlaceFacts DEF InTimeout, HandlersTypeOK
      <4> QED
        BY <3>1, <4>1, <4>2 DEF TimeoutKeys
    <3>2. CASE call'[w] # call[w]
      <4>1. PICK s \in WrapUpSubs : HandleWrapUpTimeout(s)
        BY <1>0, <1>2, <3>2, HandlersStepType DEF NoNewTimeout
      <4>2. PICK t \in fired[s] :
                Goto(s, Read("WrapUpTimeout", t, task[t].agent))
        BY <4>1 DEF HandleWrapUpTimeout
      <4>3. s \in Workers
        BY DEF Workers
      <4>4. call'[w] = Read("WrapUpTimeout", t, task[t].agent)
        BY <3>2, <4>2, <4>3, GotoFacts
      <4>5. t \in Tasks /\ task[t].timer = TRUE
        BY DEF HandlersTypeOK, TimeoutKeys
      <4>6. task[t].agent = NoAgent \/ OfferedTo(t, task[t].agent)
        BY <4>5 DEF HoldersWereOffered
      <4>7. call'[w].task = t /\ call'[w].key = task[t].agent
        BY <4>4 DEF Read
      <4> QED
        BY <4>5, <4>6, <4>7
    <3> QED
      BY <3>1, <3>2
  <2>2. task'[t].timer = TRUE
    BY <1>0, <2>1, TimerStays
  <2>3. k = NoAgent \/ OfferedTo(t, k)'
    BY <1>0, <2>1, OfferedStays
  <2> QED
    BY <2>1, <2>2, <2>3
<1> QED
  BY <1>1, <1>2 DEF TimeoutKeys

---------------------------------------------------------------------------
\* What every reachable state of the handlers satisfies.
HandlersInv == /\ Consistent /\ HandlersTypeOK
               /\ HoldersWereOffered /\ TimersAreSet /\ TimeoutKeys

\* At the start no call is in flight.
LEMMA InitHandlers == Init => HandlersInv
<1> SUFFICES ASSUME Init PROVE HandlersInv
  OBVIOUS
<1>1. Consistent
  BY InitConsistent DEF Init
<1>2. HandlersTypeOK
  BY PlaceMembers DEF Init, HandlersTypeOK
<1>3. HoldersWereOffered /\ TimersAreSet
  BY DEF Init, StoreInit, HoldersWereOffered, TimersAreSet, UnknownTask
<1>4. TimeoutKeys
  BY DEF Init, TimeoutKeys, InTimeout, Idle
<1> QED
  BY <1>1, <1>2, <1>3, <1>4 DEF HandlersInv

\* Every step of a handler, an engine or a timer keeps the invariant.
LEMMA StepHandlers ==
    ASSUME HandlersInv, [Next]_vars
    PROVE  HandlersInv'
<1>1. Consistent' /\ HoldersWereOffered' /\ TimersAreSet'
  BY NextIsStore, StepConsistent, HoldersStep DEF HandlersInv
<1>2. HandlersTypeOK'
  BY HandlersStepType DEF HandlersInv, Consistent
<1>3. TimeoutKeys'
  BY TimeoutKeysStep DEF HandlersInv
<1> QED
  BY <1>1, <1>2, <1>3 DEF HandlersInv

\* The handlers, however they interleave, die or are cut off from expiry
\* events, keep the store consistent and their own state in its type.
THEOREM HandlersSound == Spec => []HandlersInv
<1>1. HandlersInv /\ [Next]_vars => HandlersInv'
  BY StepHandlers
<1> QED
  BY <1>1, InitHandlers, PTL DEF Spec

\* The local state of every goroutine and the notifications queued at the
\* subscribers have their types.
THEOREM HandlersTypeCorrect == Spec => []HandlersTypeOK
<1>1. HandlersInv => HandlersTypeOK
  BY DEF HandlersInv
<1> QED
  BY <1>1, HandlersSound, PTL

\* The handlers call the store's scripts and nothing else: every execution
\* of the router is one of the store, with keys that may be out of date, so
\* all that is proved of the store holds of the router.
THEOREM HandlersRunTheStore == Spec => StoreSpec
<1>1. Init => StoreInit
  BY DEF Init
<1>2. HandlersInv /\ [Next]_vars => [StoreNext]_storeVars
  BY NextIsStore DEF HandlersInv
<1> QED
  BY <1>1, <1>2, HandlersSound, PTL DEF Spec, StoreSpec

\* The run that lets processes die and notifications be lost, for every
\* number of goroutines, agents and tasks.
THEOREM RouterConsistent == Spec => []Consistent
BY HandlersRunTheStore, StoreConsistent, PTL

\* A reservation is resolved once, also when a reject, an expiry and an
\* accept of several goroutines race.
THEOREM RouterResolutionsFinal == Spec => ResolutionIsFinal
BY HandlersRunTheStore, ResolutionsFinal, PTL

\* No slot stays taken that no in-flight reservation and no count declared
\* at creation accounts for, whatever the handlers do.
THEOREM RouterCapacitySound == Spec => []CapacityNotOverstated
BY HandlersRunTheStore, CapacitySound, PTL

---------------------------------------------------------------------------
\* No opportunity is missed.

\* An id that was handed out is never free again.
LEMMA UsedStaysUsed ==
    ASSUME TypeOK, [StoreNext]_storeVars, NEW r \in Reservations,
           reservation'[r].status = "None"
    PROVE  reservation[r].status = "None"
<1> USE DEF TypeOK
<1>1. ASSUME NEW a \in Agents, AgentStep(a)
      PROVE  reservation[r].status = "None"
  <2>1. CASE DeleteAgent(a)
    BY <2>1, ResolvedFacts DEF DeleteAgent
  <2>2. CASE ~DeleteAgent(a)
    BY <1>1, <2>2 DEF AgentStep, CreateAgent, SetAgentStatus,
       ReplaceAgentQueues, ReplaceCapacity, ToggleChannelReady
  <2> QED
    BY <2>1, <2>2
<1>2. ASSUME NEW t \in Tasks, TaskStep(t)
      PROVE  reservation[r].status = "None"
  BY <1>2 DEF TaskStep, EnqueueTask, MatchCommit, EndTask, CompleteTask,
     WrapUpTimeout, SetTaskDisposition, StartWrapUpTimer, WrapUpKeyExpires
<1>3. ASSUME NEW s \in Reservations, ReservationStep(s)
      PROVE  reservation[r].status = "None"
  BY <1>3, ResolvedFacts DEF ReservationStep, AcceptReservation,
     RejectReservation, ReservationKeyExpires
<1> QED
  BY <1>1, <1>2, <1>3 DEF StoreNext, storeVars

\* So the generator does not recover once it has run out.
LEMMA GeneratorRunsOut ==
    ASSUME TypeOK, [StoreNext]_storeVars, NewReservationID' # {}
    PROVE  NewReservationID # {}
<1>1. \E r \in Reservations : reservation'[r].status = "None"
  BY DEF NewReservationID
<1> QED
  BY <1>1, NextIDExists, UsedStaysUsed

\* What is ahead of a pass stays ahead while others move.
LEMMA AheadKept ==
    ASSUME HandlersTypeOK, NEW w \in Workers, NEW a, NEW t,
           UNCHANGED call \/ \E p : Goto(w, p),
           NEW v \in Workers, Ahead(v, a, t),
           v = w => UNCHANGED call
    PROVE  Ahead(v, a, t)'
<1>1. ASSUME NEW p, Goto(w, p), v # w
      PROVE  call'[v] = call[v]
  BY <1>1, GotoFacts
<1>2. call'[v] = call[v]
  BY <1>1
<1> QED
  BY <1>2 DEF Ahead

\* A goroutine that is not in a pass has nothing ahead.
LEMMA AheadMeansPass ==
    ASSUME NEW w, NEW a, NEW t, Ahead(w, a, t)
    PROVE  call[w].at \in {"Pass", "List", "Load", "Scan"}
BY DEF Ahead

\* The scripts that are followed by no pass, but for wrap_up_timeout.
Unannounced ==
    \/ UNCHANGED <<agent, capacity, task>>
    \/ \E b \in Agents, s \in AgentStatus \ {"Available"} :
          SetAgentStatus(b, s)
    \/ \E b \in Agents : DeleteAgent(b) /\ InFlight(b) = {}
    \/ \E r \in Reservations : AcceptReservation(r)
    \/ \E u \in Tasks, d \in Dispositions : SetTaskDisposition(u, d)
    \/ \E u \in Tasks : \E k : EndTask(u, k)
    \/ \E b \in Agents, u \in Tasks : \E r : MatchCommit(b, u, r)

\* They open no match: what passes the gates after them passed them before.
LEMMA NothingNew ==
    ASSUME TypeOK, TypeOK', NEW a \in Agents, NEW t \in Tasks,
           MatchGates(a, t)', Unannounced
    PROVE  MatchGates(a, t)
<1> USE DEF MatchGates, AgentCanTake
<1>0. /\ task[t] \in Task /\ agent[a] \in Agent
      /\ capacity[a] \in [Channels -> Capacity]
      /\ task[t].type \in Channels
  BY DEF TypeOK, Task
<1>1. CASE UNCHANGED <<agent, capacity, task>>
  BY <1>1
<1>2. ASSUME NEW b \in Agents, NEW s \in AgentStatus \ {"Available"},
             SetAgentStatus(b, s)
      PROVE  MatchGates(a, t)
  BY <1>2 DEF SetAgentStatus, TypeOK, Agent, taskVars
<1>3. ASSUME NEW b \in Agents, DeleteAgent(b), InFlight(b) = {}
      PROVE  MatchGates(a, t)
  BY <1>3 DEF DeleteAgent, TypeOK, AbsentAgent
<1>4. ASSUME NEW r \in Reservations, AcceptReservation(r)
      PROVE  MatchGates(a, t)
  <2>1. reservation[r].task \in Tasks
    BY DEF TypeOK, Reservation
  <2>2. task'[reservation[r].task].status = "Active"
    BY <1>4, <2>1, InStatusFacts DEF AcceptReservation, TypeOK, TaskStatus
  <2>3. task'[t] = task[t]
    BY <1>4, <2>1, <2>2 DEF AcceptReservation, TypeOK
  <2> QED
    BY <1>4, <2>3 DEF AcceptReservation, agentVars
<1>5. ASSUME NEW u \in Tasks, NEW d \in Dispositions, SetTaskDisposition(u, d)
      PROVE  MatchGates(a, t)
  BY <1>5 DEF SetTaskDisposition, TypeOK, agentVars, Task
<1>6. ASSUME NEW u \in Tasks, NEW k, EndTask(u, k)
      PROVE  MatchGates(a, t)
  <2>1. task'[t] = task[t] /\ capacity' = capacity
    BY <1>6, InStatusFacts DEF EndTask, TypeOK, TaskStatus
  <2>2. agent'[a].status = "Available" => agent'[a] = agent[a]
    BY <1>6 DEF EndTask, SetStatusOfKey, KeyIsLive, TypeOK, Agent
  <2> QED
    BY <2>1, <2>2
<1>7. ASSUME NEW b \in Agents, NEW u \in Tasks, NEW r, MatchCommit(b, u, r)
      PROVE  MatchGates(a, t)
  <2>a. task'[u] = Reserved(task[u], r, b) /\ task[u] \in Task
    BY <1>7 DEF MatchCommit, TypeOK
  <2>0. task'[u].status = "Reserved"
    BY <2>a DEF Reserved, Task
  <2>1. task'[t] = task[t] /\ agent' = agent
    BY <1>7, <2>0 DEF MatchCommit, TypeOK
  <2>2. \A c \in Channels :
            /\ capacity'[a][c].exists => capacity[a][c].exists
            /\ capacity'[a][c].max = capacity[a][c].max
            /\ capacity[a][c].active <= capacity'[a][c].active
            /\ capacity'[a][c].active \in Int
    <3>1. CASE b # a
      BY <1>7, <3>1 DEF MatchCommit, TypeOK, Capacity
    <3>2. CASE b = a
      <4> DEFINE c0 == task[u].type
      <4>1. c0 \in Channels /\ capacity[a] \in [Channels -> Capacity]
        BY DEF TypeOK, Task
      <4>2. capacity'[a] = Claimed(capacity[a], c0)
        BY <1>7, <3>2 DEF MatchCommit, TypeOK
      <4>3. Claimed(capacity[a], c0)[c0].max = capacity[a][c0].max
        BY <4>1 DEF Claimed, Capacity
      <4> HIDE DEF c0
      <4>4. \A c \in Channels : capacity[a][c].active \in Int
        BY <4>1 DEF Capacity
      <4>5. /\ \A c \in Channels : c # c0 => capacity'[a][c] = capacity[a][c]
            /\ capacity'[a][c0].exists = capacity[a][c0].exists
            /\ capacity'[a][c0].max = capacity[a][c0].max
            /\ capacity'[a][c0].active = capacity[a][c0].active + 1
        BY <4>1, <4>2, <4>3, ClaimedFacts
      <4> QED
        BY <4>1, <4>4, <4>5
    <3> QED
      BY <3>1, <3>2
  <2>3. \A c \in Channels : capacity[a][c].active \in Int
                            /\ capacity[a][c].max \in Int
    BY DEF TypeOK, Capacity
  <2> QED
    BY <1>0, <2>1, <2>2, <2>3
<1> QED
  BY <1>1, <1>2, <1>3, <1>4, <1>5, <1>6, <1>7 DEF Unannounced

\* They end no wrap-up: an agent a timeout may have released stays one.
LEMMA StillReleased ==
    ASSUME HandlersInv, [StoreNext]_storeVars, Unannounced,
           NEW a, WrapUpMayRelease(a)
    PROVE  WrapUpMayRelease(a)'
<1>0. Consistent /\ TypeOK /\ HoldersWereOffered
  BY DEF HandlersInv, Consistent
<1>1. PICK t \in Tasks : /\ task[t].status = "WrapUp" /\ task[t].timer
                         /\ OfferedTo(t, a)
  BY DEF WrapUpMayRelease
<1>2. task[t] \in Task /\ task \in [Tasks -> Task]
  BY <1>0 DEF TypeOK
<1>3. task'[t].status = "WrapUp"
  <2>1. CASE \/ UNCHANGED <<agent, capacity, task>>
             \/ \E b \in Agents, s \in AgentStatus \ {"Available"} :
                   SetAgentStatus(b, s)
             \/ \E b \in Agents : DeleteAgent(b) /\ InFlight(b) = {}
    BY <1>1, <2>1 DEF SetAgentStatus, DeleteAgent, taskVars
  <2>2. ASSUME NEW r \in Reservations, AcceptReservation(r)
        PROVE  task'[t].status = "WrapUp"
    <3>1. reservation[r].task # t
      BY <1>0, <1>1, <2>2 DEF AcceptReservation, Consistent, OfferIsCurrent
    <3> QED
      BY <1>1, <1>2, <2>2, <3>1 DEF AcceptReservation
  <2>3. ASSUME NEW u \in Tasks, NEW d \in Dispositions,
               SetTaskDisposition(u, d)
        PROVE  task'[t].status = "WrapUp"
    BY <1>1, <1>2, <2>3, TaggedFacts DEF SetTaskDisposition
  <2>4. ASSUME NEW u \in Tasks, NEW k, EndTask(u, k)
        PROVE  task'[t].status = "WrapUp"
    BY <1>1, <1>2, <2>4 DEF EndTask
  <2>5. ASSUME NEW b \in Agents, NEW u \in Tasks, NEW r, MatchCommit(b, u, r)
        PROVE  task'[t].status = "WrapUp"
    BY <1>1, <1>2, <2>5 DEF MatchCommit, MatchGates
  <2> QED
    BY <2>1, <2>2, <2>3, <2>4, <2>5 DEF Unannounced
<1>4. task[t].timer = TRUE
  BY <1>1, <1>2 DEF Task
<1>5. task'[t].timer = TRUE
  BY <1>0, <1>4, TimerStays
<1>6. OfferedTo(t, a)'
  BY <1>0, <1>1, OfferedStays
<1> QED
  BY <1>3, <1>5, <1>6 DEF WrapUpMayRelease

\* So a match that is possible after such a script, with an agent that no
\* timeout may have released, was ahead of a pass before it.
LEMMA WasAhead ==
    ASSUME HandlersInv, TypeOK', [StoreNext]_storeVars, Unannounced,
           NEW a \in Agents, NEW t \in Tasks, MatchGates(a, t)',
           ~WrapUpMayRelease(a)',
           MatchGates(a, t) =>
               WrapUpMayRelease(a) \/ \E v \in Workers : Ahead(v, a, t)
    PROVE  MatchGates(a, t) /\ \E v \in Workers : Ahead(v, a, t)
<1>1. TypeOK
  BY DEF HandlersInv, Consistent
<1> QED
  BY <1>1, NothingNew, StillReleased

\* A gRPC handler either opens no match or goes on to a pass of its own.
LEMMA StartCallAhead ==
    ASSUME HandlersInv, TypeOK', [StoreNext]_storeVars,
           "ToggleChannelReady" \notin Calls,
           NEW w \in Callers, StartCall(w),
           NEW a \in Agents, NEW t \in Tasks, MatchGates(a, t)',
           ~WrapUpMayRelease(a)',
           MatchGates(a, t) =>
               WrapUpMayRelease(a) \/ \E v \in Workers : Ahead(v, a, t)
    PROVE  \E v \in Workers : Ahead(v, a, t)'
<1>0. w \in Workers /\ HandlersTypeOK /\ TypeOK
  BY DEF Workers, HandlersInv, Consistent
<1>1. CASE Goto(w, Pass)
  BY <1>0, <1>1, GotoFacts DEF Ahead, Pass
<1>2. CASE /\ call[w] = Idle
           /\ UNCHANGED call \/ \E p : Goto(w, p)
           /\ \/ UNCHANGED storeVars
              \/ \E b \in Agents, s \in AgentStatus \ {"Available"} :
                    SetAgentStatus(b, s)
              \/ \E b \in Agents : DeleteAgent(b) /\ InFlight(b) = {}
              \/ \E r \in Reservations : AcceptReservation(r)
              \/ \E u \in Tasks, d \in Dispositions : SetTaskDisposition(u, d)
  <2>1. Unannounced
    BY <1>2 DEF Unannounced, storeVars
  <2>2. PICK v \in Workers : Ahead(v, a, t)
    BY <2>1, WasAhead
  <2>3. v # w
    BY <1>2, <2>2, AheadMeansPass DEF Idle
  <2> QED
    BY <1>0, <1>2, <2>2, <2>3, AheadKept
<1>3. CASE \/ CallCreateAgent(w) \/ CallReplaceAgentQueues(w)
           \/ CallReplaceAgentCapacity(w) \/ CallEnqueueTask(w)
           \/ CallRejectReservation(w)
  BY <1>1, <1>3 DEF CallCreateAgent, CallReplaceAgentQueues,
     CallReplaceAgentCapacity, CallEnqueueTask, CallRejectReservation
<1>4. CASE CallSetAgentStatus(w)
  <2>1. PICK b \in Agents, s \in RequestStatus :
            /\ SetAgentStatus(b, s)
            /\ Goto(w, IF s = "Available" THEN Pass ELSE Idle)
    BY <1>4 DEF CallSetAgentStatus
  <2>2. s \in AgentStatus /\ call[w] = Idle
    BY <1>4, RouterConstants DEF CallSetAgentStatus, Serves
  <2>3. CASE s = "Available"
    BY <1>1, <2>1, <2>3
  <2>4. CASE s # "Available"
    BY <1>2, <2>1, <2>2, <2>4
  <2> QED
    BY <2>3, <2>4
<1>5. CASE CallDeleteAgent(w)
  <2>1. PICK b \in Agents :
            DeleteAgent(b) /\ Goto(w, IF InFlight(b) = {} THEN Idle ELSE Pass)
    BY <1>5 DEF CallDeleteAgent
  <2>2. CASE InFlight(b) = {}
    BY <1>2, <1>5, <2>1, <2>2 DEF CallDeleteAgent, Serves
  <2>3. CASE InFlight(b) # {}
    BY <1>1, <2>1, <2>3
  <2> QED
    BY <2>2, <2>3
<1>6. CASE CallAcceptReservation(w) \/ CallSetTaskDisposition(w)
  BY <1>2, <1>6 DEF CallAcceptReservation, CallSetTaskDisposition, Serves
<1>7. CASE CallReadTask(w, "CompleteTask") \/ CallReadTask(w, "EndTask")
  BY <1>2, <1>7 DEF CallReadTask, Serves
<1>8. ~CallToggleChannelReady(w)
  BY DEF CallToggleChannelReady, Serves
<1> QED
  BY <1>3, <1>4, <1>5, <1>6, <1>7, <1>8, StartCall(w) DEF StartCall

\* The scripts run after a read: complete_task goes on to a pass, end_task
\* takes the agent out of routing, and wrap_up_timeout makes an agent
\* Available that the task in wrap-up was offered to.
LEMMA RunAhead ==
    ASSUME HandlersInv, TypeOK', [StoreNext]_storeVars, NEW w \in Workers,
           \/ RunCompleteTask(w) \/ RunEndTask(w) \/ RunStartWrapUpTimer(w)
           \/ RunWrapUpTimeout(w),
           NEW a \in Agents, NEW t \in Tasks, MatchGates(a, t)',
           ~WrapUpMayRelease(a)',
           MatchGates(a, t) =>
               WrapUpMayRelease(a) \/ \E v \in Workers : Ahead(v, a, t)
    PROVE  \E v \in Workers : Ahead(v, a, t)'
<1>0. HandlersTypeOK /\ TypeOK /\ TimeoutKeys /\ call[w] \in Place
  BY DEF HandlersInv, Consistent, HandlersTypeOK
<1>1. CASE Goto(w, Pass)
  BY <1>0, <1>1, GotoFacts DEF Ahead, Pass
<1>2. CASE /\ call[w].at \in {"Read", "Timer"}
           /\ \E p : Goto(w, p)
           /\ \/ UNCHANGED <<agent, capacity, task>>
              \/ \E u \in Tasks : \E k : EndTask(u, k)
  <2>1. Unannounced
    BY <1>2 DEF Unannounced
  <2>2. PICK v \in Workers : Ahead(v, a, t)
    BY <2>1, WasAhead
  <2>3. v # w
    BY <1>2, <2>2, AheadMeansPass
  <2> QED
    BY <1>0, <1>2, <2>2, <2>3, AheadKept
<1>3. CASE RunCompleteTask(w)
  BY <1>1, <1>2, <1>3 DEF RunCompleteTask, storeVars
<1>4. CASE RunEndTask(w)
  <2>1. call[w].task \in Tasks
    BY <1>0, <1>4, PlaceFacts DEF RunEndTask
  <2> QED
    BY <1>2, <1>4, <2>1 DEF RunEndTask, storeVars
<1>5. CASE RunStartWrapUpTimer(w)
  BY <1>2, <1>5 DEF RunStartWrapUpTimer, StartWrapUpTimer, agentVars, taskVars
<1>6. CASE RunWrapUpTimeout(w)
  <2> DEFINE u == call[w].task
             k == call[w].key
  <2>1. /\ call[w].at = "Read" /\ Goto(w, Idle) /\ u \in Tasks
        /\ task[u].timer = TRUE /\ (k = NoAgent \/ OfferedTo(u, k))
    BY <1>0, <1>6, PlaceFacts DEF RunWrapUpTimeout, TimeoutKeys, InTimeout
  <2>2. CASE UNCHANGED storeVars
    BY <1>2, <2>1, <2>2 DEF storeVars
  <2>3. CASE WrapUpTimeout(u, k)
    <3>1. /\ UNCHANGED <<capacity, task, reservation>>
          /\ task[u].status = "WrapUp"
          /\ SetStatusOfKey(u, k, "Available")
      BY <2>3 DEF WrapUpTimeout, taskVars
    <3>2. a # k
      <4>1. NoAgent # a
        BY RouterConstants
      <4>2. k = a => WrapUpMayRelease(a)'
        BY <2>1, <3>1, <4>1 DEF WrapUpMayRelease, OfferedTo
      <4> QED
        BY <4>2
    <3>3. agent'[a] = agent[a]
      BY <1>0, <3>1, <3>2 DEF SetStatusOfKey, KeyIsLive, TypeOK
    <3>4. MatchGates(a, t) /\ ~WrapUpMayRelease(a)
      BY <3>1, <3>3 DEF MatchGates, WrapUpMayRelease, OfferedTo
    <3>5. PICK v \in Workers : Ahead(v, a, t)
      BY <3>4
    <3>6. v # w
      BY <2>1, <3>5, AheadMeansPass
    <3> QED
      BY <1>0, <2>1, <3>5, <3>6, AheadKept
  <2> QED
    BY <1>6, <2>2, <2>3 DEF RunWrapUpTimeout
<1> QED
  BY <1>3, <1>4, <1>5, <1>6

\* A pass keeps ahead of it every match it has not tried: it reads the whole
\* index, every agent, and drops a pair only when it is taken or refused.
LEMMA PassAhead ==
    ASSUME HandlersInv, TypeOK', [StoreNext]_storeVars, ~Faulty,
           NewReservationID # {}, NEW w \in Workers,
           \/ ReadPending(w) \/ ReadAgentIds(w) \/ ReadAgent(w)
           \/ TryMatch(w) \/ MatchRefused(w) \/ PassFails(w) \/ Crash(w),
           NEW a \in Agents, NEW t \in Tasks, MatchGates(a, t)',
           ~WrapUpMayRelease(a)',
           MatchGates(a, t) =>
               WrapUpMayRelease(a) \/ \E v \in Workers : Ahead(v, a, t)
    PROVE  \E v \in Workers : Ahead(v, a, t)'
<1>0. HandlersTypeOK /\ TypeOK /\ PendingIndexExact /\ call[w] \in Place
  BY DEF HandlersInv, Consistent, HandlersTypeOK
<1>1. ~PassFails(w) /\ ~Crash(w)
  BY DEF PassFails, Crash
<1>2. TryMatch(w) =>
          \E p \in Oldest(call[w].can), r \in NewReservationID :
              /\ p[1] \in Tasks /\ p[2] \in Agents
              /\ MatchCommit(p[2], p[1], r)
              /\ Goto(w, Scan({q \in call[w].can : q[1] # p[1]}))
  <2> SUFFICES ASSUME TryMatch(w)
               PROVE  \A p \in Oldest(call[w].can) :
                          p[1] \in Tasks /\ p[2] \in Agents
    BY DEF TryMatch
  <2>1. call[w].can \in SUBSET (Tasks \X Agents)
    BY <1>0, PlaceFacts DEF TryMatch
  <2> QED
    BY <2>1 DEF Oldest
<1>a. Unannounced
  <2>1. CASE TryMatch(w)
    BY <1>2, <2>1 DEF Unannounced
  <2>2. CASE ~TryMatch(w)
    BY <1>1, <2>2 DEF ReadPending, ReadAgentIds, ReadAgent, MatchRefused,
       storeVars, Unannounced
  <2> QED
    BY <2>1, <2>2
<1>3. MatchGates(a, t)
  BY <1>a, WasAhead
<1>4. PICK v \in Workers : Ahead(v, a, t)
  BY <1>a, WasAhead
<1>5. CASE v # w
  <2>1. \E p : Goto(w, p)
    BY <1>1 DEF ReadPending, ReadAgentIds, ReadAgent, TryMatch, MatchRefused
  <2> QED
    BY <1>0, <1>4, <1>5, <2>1, AheadKept
<1>6. CASE v = w
  <2>1. Ahead(w, a, t)
    BY <1>4, <1>6
  <2>2. CASE ReadPending(w)
    <3>1. t \in pending
      BY <1>0, <1>3 DEF MatchGates, PendingIndexExact
    <3>2. call'[w] = List(pending)
      BY <1>0, <2>2, <3>1, GotoFacts DEF ReadPending
    <3>3. call'[w].at = "List" /\ call'[w].todo = pending
      BY <3>2 DEF List
    <3> QED
      BY <3>1, <3>3 DEF Ahead
  <2>3. CASE ReadAgentIds(w)
    <3> DEFINE ids == {b \in Agents : Exists(b)}
    <3>1. a \in ids
      BY <1>3 DEF MatchGates, AgentCanTake, Exists
    <3>2. t \in call[w].todo
      BY <2>1, <2>3 DEF ReadAgentIds, Ahead
    <3>3. Goto(w, IF ids = {} THEN Idle ELSE Load(call[w].todo, ids, {}))
      BY <2>3 DEF ReadAgentIds
    <3> HIDE DEF ids
    <3>4. call'[w] = Load(call[w].todo, ids, {})
      BY <1>0, <3>1, <3>3, GotoFacts
    <3>5. /\ call'[w].at = "Load" /\ call'[w].todo = call[w].todo
          /\ call'[w].left = ids
      BY <3>4 DEF Load
    <3> QED
      BY <3>1, <3>2, <3>5 DEF Ahead
  <2>4. CASE ReadAgent(w)
    <3>1. PICK b \in call[w].left :
              LET can == call[w].can \cup
                      {<<u, b>> : u \in {x \in call[w].todo :
                           AgentCanTake(agent[b], capacity[b], task[x])}}
                  left == call[w].left \ {b}
              IN  Goto(w, IF left = {} THEN Scan(can)
                          ELSE Load(call[w].todo, left, can))
      BY <2>4 DEF ReadAgent
    <3> DEFINE can == call[w].can \cup
                      {<<u, b>> : u \in {x \in call[w].todo :
                           AgentCanTake(agent[b], capacity[b], task[x])}}
               left == call[w].left \ {b}
    <3>2. /\ call[w].at = "Load" /\ t \in call[w].todo
          /\ a \in call[w].left \/ <<t, a>> \in call[w].can
      BY <2>1, <2>4 DEF ReadAgent, Ahead
    <3>3. a \in left \/ <<t, a>> \in can
      <4>1. CASE a = b
        <5>1. AgentCanTake(agent[b], capacity[b], task[t])
          BY <1>3, <4>1 DEF MatchGates
        <5> QED
          BY <3>2, <4>1, <5>1
      <4>2. CASE a # b
        BY <3>2, <4>2
      <4> QED
        BY <4>1, <4>2
    <3>4. call'[w] = IF left = {} THEN Scan(can)
                     ELSE Load(call[w].todo, left, can)
      BY <1>0, <3>1, GotoFacts
    <3> HIDE DEF can, left
    <3>5. CASE left = {}
      <4>1. call'[w].at = "Scan" /\ call'[w].can = can
        BY <3>3, <3>4, <3>5 DEF Scan
      <4> QED
        BY <3>3, <3>5, <4>1 DEF Ahead
    <3>6. CASE left # {}
      <4>1. /\ call'[w].at = "Load" /\ call'[w].todo = call[w].todo
            /\ call'[w].left = left /\ call'[w].can = can
        BY <3>4, <3>6 DEF Load
      <4> QED
        BY <3>2, <3>3, <4>1 DEF Ahead
    <3> QED
      BY <3>5, <3>6
  <2>5. CASE TryMatch(w)
    <3>1. PICK p \in Oldest(call[w].can), r \in NewReservationID :
              /\ p[1] \in Tasks /\ p[2] \in Agents
              /\ MatchCommit(p[2], p[1], r)
              /\ Goto(w, Scan({q \in call[w].can : q[1] # p[1]}))
      BY <1>2, <2>5
    <3> DEFINE rest == {q \in call[w].can : q[1] # p[1]}
    <3>2. task'[p[1]].status = "Reserved"
      BY <1>0, <3>1 DEF MatchCommit, Reserved, TypeOK, Task
    <3>3. t # p[1]
      BY <3>2 DEF MatchGates
    <3>4. <<t, a>> \in call[w].can
      BY <2>1, <2>5 DEF TryMatch, Ahead
    <3>5. <<t, a>> \in rest
      BY <3>3, <3>4
    <3>6. call'[w] = Scan(rest)
      BY <1>0, <3>1, GotoFacts
    <3> HIDE DEF rest
    <3>7. call'[w].at = "Scan" /\ call'[w].can = rest
      BY <3>5, <3>6 DEF Scan
    <3> QED
      BY <3>5, <3>7 DEF Ahead
  <2>6. CASE MatchRefused(w)
    <3>1. PICK p \in Oldest(call[w].can) :
              /\ ~MatchGates(p[2], p[1])
              /\ Goto(w, Scan(call[w].can \ {p}))
      BY <2>6 DEF MatchRefused
    <3> DEFINE rest == call[w].can \ {p}
    <3>2. <<t, a>> # p
      BY <1>3, <3>1
    <3>3. <<t, a>> \in rest
      BY <2>1, <2>6, <3>2 DEF MatchRefused, Ahead
    <3>4. call'[w] = Scan(rest)
      BY <1>0, <3>1, GotoFacts
    <3> HIDE DEF rest
    <3>5. call'[w].at = "Scan" /\ call'[w].can = rest
      BY <3>3, <3>4 DEF Scan
    <3> QED
      BY <3>3, <3>5 DEF Ahead
  <2> QED
    BY <1>1, <2>2, <2>3, <2>4, <2>5, <2>6
<1> QED
  BY <1>5, <1>6

\* The inductive step: a match that is possible after any step is ahead of
\* some pass, or its agent is one a wrap-up timeout may have released, when
\* no pass can fail and no client creates a channel by toggling it (the other
\* call that opens a match and runs no pass).
LEMMA StepAhead ==
    ASSUME HandlersInv, EveryMatchIsAhead, [Next]_vars,
           ~Faulty, "ToggleChannelReady" \notin Calls
    PROVE  EveryMatchIsAhead'
<1> SUFFICES ASSUME NewReservationID' # {}, NEW a \in Agents, NEW t \in Tasks,
                    MatchGates(a, t)', ~WrapUpMayRelease(a)'
             PROVE  \E v \in Workers : Ahead(v, a, t)'
  BY DEF EveryMatchIsAhead
<1>0. TypeOK /\ HandlersTypeOK /\ TypeOK' /\ [StoreNext]_storeVars
  BY StepHandlers, NextIsStore DEF HandlersInv, Consistent
<1>1. NewReservationID # {}
  BY <1>0, GeneratorRunsOut
<1>2. MatchGates(a, t) =>
          WrapUpMayRelease(a) \/ \E v \in Workers : Ahead(v, a, t)
  BY <1>1 DEF EveryMatchIsAhead
<1>3. CASE UNCHANGED <<agent, capacity, task>>
           /\ \A v \in Workers : Ahead(v, a, t) => call'[v] = call[v]
  <2>1. Unannounced
    BY <1>3 DEF Unannounced
  <2>2. PICK v \in Workers : Ahead(v, a, t)
    BY <1>0, <1>2, <2>1, WasAhead
  <2> QED
    BY <1>3, <2>2 DEF Ahead
<1>4. CASE UNCHANGED vars
  BY <1>3, <1>4 DEF vars, storeVars
<1>5. ASSUME NEW w \in Callers, StartCall(w)
      PROVE  \E v \in Workers : Ahead(v, a, t)'
  BY <1>0, <1>2, <1>5, StartCallAhead
<1>6. ASSUME NEW w \in Workers, Continue(w) \/ Crash(w)
      PROVE  \E v \in Workers : Ahead(v, a, t)'
  <2>1. CASE \/ RunCompleteTask(w) \/ RunEndTask(w) \/ RunStartWrapUpTimer(w)
             \/ RunWrapUpTimeout(w)
    BY <1>0, <1>2, <2>1, RunAhead
  <2>2. CASE \/ ReadPending(w) \/ ReadAgentIds(w) \/ ReadAgent(w)
             \/ TryMatch(w) \/ MatchRefused(w) \/ PassFails(w) \/ Crash(w)
    BY <1>0, <1>1, <1>2, <2>2, PassAhead
  <2> QED
    BY <1>6, <2>1, <2>2 DEF Continue
<1>7. ASSUME NEW s \in ExpirySubs, HandleExpiredReservation(s)
      PROVE  \E v \in Workers : Ahead(v, a, t)'
  <2>1. s \in Workers
    BY DEF Workers
  <2>2. CASE Goto(s, Pass)
    BY <1>0, <2>1, <2>2, GotoFacts DEF Ahead, Pass
  <2>3. CASE UNCHANGED <<storeVars, call>>
    BY <1>3, <2>3 DEF storeVars
  <2> QED
    BY <1>7, <2>2, <2>3 DEF HandleExpiredReservation
<1>8. CASE \E r \in Reservations : ReservationExpires(r)
  BY <1>3, <1>8 DEF ReservationExpires, ReservationKeyExpires, agentVars, taskVars
<1>9. CASE \E u \in Tasks : WrapUpTimerFires(u)
  BY <1>3, <1>9 DEF WrapUpTimerFires, WrapUpKeyExpires, agentVars, taskVars
<1>10. ASSUME NEW s \in WrapUpSubs, HandleWrapUpTimeout(s)
       PROVE  \E v \in Workers : Ahead(v, a, t)'
  <2>1. s \in Workers /\ call[s] = Idle /\ UNCHANGED storeVars
    BY <1>10 DEF Workers, HandleWrapUpTimeout
  <2>2. \E p : Goto(s, p)
    BY <1>10 DEF HandleWrapUpTimeout
  <2>3. \A v \in Workers : Ahead(v, a, t) => call'[v] = call[v]
    BY <1>0, <2>1, <2>2, GotoFacts, AheadMeansPass DEF Idle
  <2> QED
    BY <1>3, <2>1, <2>3 DEF storeVars
<1> QED
  BY <1>4, <1>5, <1>6, <1>7, <1>8, <1>9, <1>10 DEF Next

\* While a task can be matched to an agent, some pass has that pair still
\* ahead of it, for any number of callers and of subscribers, and whether
\* or not notifications are lost; the property itself exempts the agents a
\* wrap-up timeout may have released.  The hypotheses name what else the code
\* lets go wrong: a process that dies before its pass, and
\* ToggleChannelReady, which runs none.
THEOREM MatchesAhead ==
    ASSUME ~Faulty, "ToggleChannelReady" \notin Calls
    PROVE  Spec => []EveryMatchIsAhead
<1>1. Init => EveryMatchIsAhead
  <2> SUFFICES ASSUME Init, NEW a \in Agents, NEW t \in Tasks,
                      MatchGates(a, t)
               PROVE  FALSE
    BY DEF EveryMatchIsAhead
  <2> QED
    BY DEF Init, StoreInit, MatchGates, UnknownTask
<1>2. HandlersInv /\ EveryMatchIsAhead /\ [Next]_vars => EveryMatchIsAhead'
  BY StepAhead
<1> QED
  BY <1>1, <1>2, HandlersSound, PTL DEF Spec

\* Hence no waiting task is left beside an agent that could take it once
\* every handler has returned, although nothing scans the queue again.
THEOREM NothingStranded ==
    ASSUME ~Faulty, "ToggleChannelReady" \notin Calls
    PROVE  Spec => []NoStrandedTask
<1>1. EveryMatchIsAhead => NoStrandedTask
  <2> SUFFICES ASSUME EveryMatchIsAhead, Quiet, NewReservationID # {},
                      NEW a \in Agents, NEW t \in Tasks, MatchGates(a, t),
                      ~WrapUpMayRelease(a)
               PROVE  FALSE
    BY DEF NoStrandedTask
  <2>1. PICK w \in Workers : Ahead(w, a, t)
    BY DEF EveryMatchIsAhead
  <2> QED
    BY <2>1, AheadMeansPass DEF Quiet, Idle
<1> QED
  BY <1>1, MatchesAhead, PTL

---------------------------------------------------------------------------
\* First come, first served.

\* Only match_commit makes a Pending task Reserved.
LEMMA OnlyMatchReserves ==
    ASSUME HandlersInv, [Next]_vars, NEW t \in Tasks,
           task[t].status = "Pending", task'[t].status = "Reserved"
    PROVE  \E w \in Workers : TryMatch(w)
<1> SUFFICES ASSUME OtherScript \/ \E w \in Workers : KeyedRun(w)
             PROVE  FALSE
  BY NextIsScript DEF HandlersInv, storeVars
<1>0. TypeOK
  BY DEF HandlersInv, Consistent
<1>1. ASSUME NEW a \in Agents, AgentStep(a)
      PROVE  FALSE
  <2>1. CASE DeleteAgent(a)
    BY <1>0, <2>1, RequeuedFacts DEF DeleteAgent, TypeOK
  <2>2. CASE ~DeleteAgent(a)
    BY <1>1, <2>2 DEF AgentStep, CreateAgent, SetAgentStatus,
       ReplaceAgentQueues, ReplaceCapacity, ToggleChannelReady, taskVars
  <2> QED
    BY <2>1, <2>2
<1>2. ASSUME NEW r \in Reservations, ReservationStep(r)
      PROVE  FALSE
  <2>1. CASE AcceptReservation(r)
    BY <1>0, <2>1, InStatusFacts
    DEF AcceptReservation, TypeOK, Reservation, TaskStatus
  <2>2. CASE RejectReservation(r)
    BY <1>0, <2>2, RequeuedFacts DEF RejectReservation, TypeOK, Reservation
  <2>3. CASE ReservationKeyExpires(r)
    BY <2>3 DEF ReservationKeyExpires, taskVars
  <2> QED
    BY <1>2, <2>1, <2>2, <2>3 DEF ReservationStep
<1>3. ASSUME NEW u \in Tasks, OtherTaskStep(u)
      PROVE  FALSE
  <2>2. ASSUME NEW q, NEW c, NEW i, NEW b, EnqueueTask(u, q, c, i, b)
        PROVE  FALSE
    BY <1>0, <2>2 DEF EnqueueTask, TypeOK
  <2>3. ASSUME NEW d \in Dispositions, SetTaskDisposition(u, d)
        PROVE  FALSE
    BY <1>0, <2>3, TaggedFacts DEF SetTaskDisposition, TypeOK
  <2>4. ~StartWrapUpTimer(u) /\ ~WrapUpKeyExpires(u)
    BY DEF StartWrapUpTimer, WrapUpKeyExpires, taskVars
  <2> QED
    BY <1>3, <2>2, <2>3, <2>4 DEF OtherTaskStep
<1>4. ASSUME NEW u \in Tasks, NEW k, KeyedScript(u, k)
      PROVE  FALSE
  BY <1>0, <1>4
  DEF KeyedScript, EndTask, CompleteTask, WrapUpTimeout, TypeOK, taskVars
<1> QED
  BY <1>1, <1>2, <1>3, <1>4 DEF OtherScript, KeyedRun

\* What NoQueueJump says of one step.
FairStep ==
    \A t, u \in Tasks :
        /\ task[t].status = "Pending" /\ task'[t].status = "Reserved"
        /\ task[u].at < task[t].at /\ MatchGates(task'[t].agent, u)
        => \/ WrapUpMayRelease(task'[t].agent)
           \/ \E w \in Workers : /\ call'[w] = call[w]
                                 /\ Ahead(w, task'[t].agent, u)

\* The pair of the older task is ahead of some goroutine.  It is not the one
\* that makes the offer, which holds it, if at all, among the pairs to try,
\* and takes the oldest.
LEMMA StepIsFair ==
    ASSUME HandlersInv, EveryMatchIsAhead, [Next]_vars
    PROVE  FairStep
<1> SUFFICES ASSUME NEW t \in Tasks, NEW u \in Tasks,
                    task[t].status = "Pending", task'[t].status = "Reserved",
                    task[u].at < task[t].at, MatchGates(task'[t].agent, u),
                    ~WrapUpMayRelease(task'[t].agent)
             PROVE  \E v \in Workers : /\ call'[v] = call[v]
                                       /\ Ahead(v, task'[t].agent, u)
  BY DEF FairStep
<1>1. PICK w \in Workers : TryMatch(w)
  BY OnlyMatchReserves
<1>0. TypeOK /\ HandlersTypeOK /\ call[w] \in Place
  BY DEF HandlersInv, Consistent, HandlersTypeOK
<1>2. call[w].at = "Scan" /\ call[w].can \in SUBSET (Tasks \X Agents)
  BY <1>0, <1>1, PlaceFacts DEF TryMatch
<1>3. PICK p \in Oldest(call[w].can), r \in NewReservationID :
          /\ MatchCommit(p[2], p[1], r)
          /\ Goto(w, Scan({q \in call[w].can : q[1] # p[1]}))
  BY <1>1 DEF TryMatch
<1>4. /\ p \in call[w].can /\ p[1] \in Tasks /\ p[2] \in Agents
      /\ r \in Reservations
  BY <1>2 DEF Oldest, NewReservationID
<1>5. p[1] = t
  BY <1>0, <1>3, <1>4 DEF MatchCommit, TypeOK
<1>6. task'[t].agent = p[2]
  BY <1>0, <1>3, <1>4, <1>5, ReservedFacts DEF MatchCommit, TypeOK
<1>7. PICK v \in Workers : Ahead(v, p[2], u)
  BY <1>3, <1>4, <1>6 DEF EveryMatchIsAhead
<1>8. v # w
  <2> SUFFICES ASSUME Ahead(w, p[2], u)
               PROVE  FALSE
    BY <1>7
  <2>1. <<u, p[2]>> \in call[w].can
    BY <1>2 DEF Ahead
  <2>2. task[t].at <= task[u].at
    BY <1>5, <2>1 DEF Oldest
  <2>3. task[t].at \in Nat /\ task[u].at \in Nat
    BY <1>0, RouterConstants DEF TypeOK, Task
  <2> QED
    BY <2>2, <2>3
<1>9. call'[v] = call[v]
  BY <1>0, <1>3, <1>8, GotoFacts
<1> QED
  BY <1>6, <1>7, <1>9

\* For any number of goroutines whose passes overlap in any way, a task is
\* offered to an agent over the head of an older one the agent could take
\* only while the pass of another goroutine has the older one ahead: a pass
\* sees all of the index, tries the oldest first, and no match escaped an
\* earlier pass.
THEOREM OldestFirst ==
    ASSUME ~Faulty, "ToggleChannelReady" \notin Calls
    PROVE  Spec => NoQueueJump
<1>1. HandlersInv /\ EveryMatchIsAhead /\ [Next]_vars => [FairStep]_vars
  BY StepIsFair
<1> QED
  BY <1>1, HandlersSound, MatchesAhead, PTL DEF Spec, NoQueueJump, FairStep

---------------------------------------------------------------------------
\* The life of a task.

\* The router implements the abstract life of a task, whatever calls are
\* made, however the goroutines interleave, with keys that are out of date
\* when they are used, and also when the process dies or a pass fails in
\* between.
THEOREM RouterImplementsLifecycle == Spec => ImplementsLifecycle
BY HandlersRunTheStore, StoreImplementsLifecycle, PTL
=============================================================================
