------------------------- MODULE RouterStore_proofs -------------------------
(***************************************************************************)
(* Proofs that the scripts keep the store consistent, for any number of    *)
(* agents, tasks, queues, channels and reservations, and whichever agent   *)
(* key complete_task, end_task and wrap_up_timeout are handed.             *)
(***************************************************************************)
EXTENDS RouterRefinement, FiniteSetTheorems, TLAPS

---------------------------------------------------------------------------
\* The operators the scripts share.

\* Every entry of a capacity request is well formed.
LEMMA RequestEntry ==
    ASSUME NEW req \in CapacityRequests, NEW c \in DOMAIN req
    PROVE  req[c].max \in Int /\ req[c].active \in Int
<1>1. PICK C \in SUBSET Channels :
          req \in [C -> [max: Maxes, active: RequestActive]]
  BY DEF CapacityRequests
<1>2. req[c] \in [max: Maxes, active: RequestActive]
  BY <1>1
<1> QED
  BY <1>2, RouterConstants

\* What a channel is written with has its type, if a count below zero is
\* the one declared.
LEMMA ChannelType ==
    ASSUME NEW m \in Int, NEW i \in Int, NEW d \in Int, i < 0 => d < 0
    PROVE  /\ Channel(m, i, d) \in Capacity
           /\ Channel(m, i, d).exists
           /\ Channel(m, i, d).active = i
           /\ Channel(m, i, d).declared = d
BY DEF Channel, Capacity

\* The channel an agent lacks has its type too.
LEMMA NoChannelType == NoChannel \in Capacity
BY DEF NoChannel, Capacity

\* Giving a slot back touches one channel, never goes below zero, and only
\* ever lowers the count.
LEMMA ReleasedFacts ==
    ASSUME NEW cap \in [Channels -> Capacity], NEW c \in Channels
    PROVE  /\ Released(cap, c) \in [Channels -> Capacity]
           /\ \A d \in Channels : d # c => Released(cap, c)[d] = cap[d]
           /\ Released(cap, c)[c].exists = cap[c].exists
           /\ Released(cap, c)[c].declared = cap[c].declared
           /\ cap[c].exists /\ cap[c].active > 0 =>
                  Released(cap, c)[c].active = cap[c].active - 1
           /\ ~(cap[c].exists /\ cap[c].active > 0) =>
                  Released(cap, c) = cap
<1> DEFINE less == [cap[c] EXCEPT !.active = @ - 1]
<1>1. cap[c].active > 0 =>
          /\ less \in Capacity
          /\ less.active = cap[c].active - 1
          /\ less.exists = cap[c].exists
          /\ less.declared = cap[c].declared
  BY DEF Capacity
<1>2. Released(cap, c) = IF cap[c].exists /\ cap[c].active > 0
                         THEN [cap EXCEPT ![c] = less] ELSE cap
  BY DEF Released
<1> HIDE DEF less
<1> QED
  BY <1>1, <1>2

\* Taking a slot touches one channel.
LEMMA ClaimedFacts ==
    ASSUME NEW cap \in [Channels -> Capacity], NEW c \in Channels
    PROVE  /\ Claimed(cap, c) \in [Channels -> Capacity]
           /\ \A d \in Channels : d # c => Claimed(cap, c)[d] = cap[d]
           /\ Claimed(cap, c)[c].exists = cap[c].exists
           /\ Claimed(cap, c)[c].declared = cap[c].declared
           /\ Claimed(cap, c)[c].active = cap[c].active + 1
<1> DEFINE more == [cap[c] EXCEPT !.active = @ + 1]
<1>1. /\ more \in Capacity
      /\ more.active = cap[c].active + 1
      /\ more.exists = cap[c].exists
      /\ more.declared = cap[c].declared
  BY DEF Capacity
<1>2. Claimed(cap, c) = [cap EXCEPT ![c] = more]
  BY DEF Claimed
<1> HIDE DEF more
<1> QED
  BY <1>1, <1>2

\* What each write to a task hash changes; the type is never among it.
\* Accept and end change the status.
LEMMA InStatusFacts ==
    ASSUME NEW tk \in Task, NEW s \in TaskStatus
    PROVE  /\ InStatus(tk, s) \in Task
           /\ InStatus(tk, s).status = s
           /\ InStatus(tk, s).res = tk.res
           /\ InStatus(tk, s).agent = tk.agent
           /\ InStatus(tk, s).type = tk.type
BY DEF InStatus, Task

\* A match names the reservation and the agent.
LEMMA ReservedFacts ==
    ASSUME NEW tk \in Task, NEW r \in Reservations, NEW a \in Agents
    PROVE  /\ Reserved(tk, r, a) \in Task
           /\ Reserved(tk, r, a).status = "Reserved"
           /\ Reserved(tk, r, a).res = r
           /\ Reserved(tk, r, a).agent = a
           /\ Reserved(tk, r, a).type = tk.type
BY DEF Reserved, Task, TaskStatus

\* A return to the queue clears both.
LEMMA RequeuedFacts ==
    ASSUME NEW tk \in Task
    PROVE  /\ Requeued(tk) \in Task
           /\ Requeued(tk).status = "Pending"
           /\ Requeued(tk).res = NoReservation
           /\ Requeued(tk).agent = NoAgent
           /\ Requeued(tk).type = tk.type
BY DEF Requeued, Task, TaskStatus

\* Completion clears the reservation only.
LEMMA CompletedFacts ==
    ASSUME NEW tk \in Task
    PROVE  /\ Completed(tk) \in Task
           /\ Completed(tk).status = "Completed"
           /\ Completed(tk).res = NoReservation
           /\ Completed(tk).agent = tk.agent
           /\ Completed(tk).type = tk.type
BY DEF Completed, Task, TaskStatus

\* A disposition changes nothing that routing reads.
LEMMA TaggedFacts ==
    ASSUME NEW tk \in Task, NEW d \in Dispositions
    PROVE  /\ [tk EXCEPT !.disposition = d] \in Task
           /\ [tk EXCEPT !.disposition = d].status = tk.status
           /\ [tk EXCEPT !.disposition = d].res = tk.res
           /\ [tk EXCEPT !.disposition = d].agent = tk.agent
           /\ [tk EXCEPT !.disposition = d].type = tk.type
BY DEF Task

\* A resolved reservation keeps its task and its agent.
LEMMA ResolvedFacts ==
    ASSUME NEW rec \in Reservation, NEW s \in {"Accepted", "Rejected"}
    PROVE  /\ Resolved(rec, s) \in Reservation
           /\ Resolved(rec, s).status = s
           /\ Resolved(rec, s).task = rec.task
           /\ Resolved(rec, s).agent = rec.agent
BY DEF Resolved, Reservation

---------------------------------------------------------------------------
\* Types.

\* The state of a tenant that has made no call yet.
LEMMA InitType == StoreInit => TypeOK
<1> SUFFICES ASSUME StoreInit PROVE TypeOK
  OBVIOUS
<1> USE RouterConstants
<1>1. UnknownTask \in Task
  BY Zenon DEF UnknownTask, Task
<1>2. UnusedReservation \in Reservation
  BY Zenon DEF UnusedReservation, Reservation
<1>3. AbsentAgent \in Agent
  BY DEF AbsentAgent, Agent
<1>4. NoCapacity \in [Channels -> Capacity]
  BY NoChannelType DEF NoCapacity
<1> QED
  BY <1>1, <1>2, <1>3, <1>4 DEF StoreInit, TypeOK

\* Setting the status of the agent behind a key keeps every agent's
\* existence and queues.
LEMMA SetStatusOfKeyFacts ==
    ASSUME TypeOK, NEW t \in Tasks, NEW k, NEW s \in AgentStatus,
           SetStatusOfKey(t, k, s)
    PROVE  /\ agent' \in [Agents -> Agent]
           /\ \A a \in Agents : Exists(a)' <=> Exists(a)
BY DEF TypeOK, SetStatusOfKey, KeyIsLive, Exists, Agent, AgentStatus

\* The agent scripts keep every key in its type; the requests they store are
\* well formed.
LEMMA AgentStepType ==
    ASSUME TypeOK, NEW a \in Agents, AgentStep(a)
    PROVE  TypeOK'
<1> USE RouterConstants DEF TypeOK
<1>1. ASSUME NEW s \in RequestStatus, NEW Q \in SUBSET Queues,
             NEW req \in CapacityRequests, CreateAgent(a, s, Q, req)
      PROVE  TypeOK'
  <2>1. [status |-> s, queues |-> Q] \in Agent
    BY DEF Agent
  <2>2. [c \in Channels |->
            IF c \in DOMAIN req
            THEN Channel(WithDefault(req[c].max), req[c].active,
                         req[c].active)
            ELSE NoChannel] \in [Channels -> Capacity]
    BY RequestEntry, ChannelType, NoChannelType DEF WithDefault
  <2> QED
    BY <1>1, <2>1, <2>2 DEF CreateAgent, taskVars
<1>2. ASSUME NEW s \in RequestStatus, SetAgentStatus(a, s)
      PROVE  TypeOK'
  BY <1>2 DEF SetAgentStatus, taskVars, Agent
<1>3. ASSUME NEW Q \in SUBSET Queues, ReplaceAgentQueues(a, Q)
      PROVE  TypeOK'
  BY <1>3 DEF ReplaceAgentQueues, taskVars, Agent
<1>4. ASSUME NEW req \in CapacityRequests, ReplaceCapacity(a, req)
      PROVE  TypeOK'
  <2>0. \A c \in Channels :
            /\ capacity[a][c].active \in Int /\ capacity[a][c].declared \in Int
            /\ capacity[a][c].active < 0 => capacity[a][c].declared < 0
    BY DEF Capacity
  <2>1. [c \in Channels |->
            IF c \in DOMAIN req
            THEN Channel(WithDefault(req[c].max),
                         IF capacity[a][c].exists
                         THEN capacity[a][c].active ELSE 0,
                         capacity[a][c].declared)
            ELSE NoChannel] \in [Channels -> Capacity]
    <3> SUFFICES ASSUME NEW c \in Channels, c \in DOMAIN req
                 PROVE  Channel(WithDefault(req[c].max),
                                IF capacity[a][c].exists
                                THEN capacity[a][c].active ELSE 0,
                                capacity[a][c].declared) \in Capacity
      BY NoChannelType
    <3>1. WithDefault(req[c].max) \in Int
      BY RequestEntry DEF WithDefault
    <3> QED
      BY <2>0, <3>1, ChannelType
  <2> QED
    BY <1>4, <2>1 DEF ReplaceCapacity, taskVars
<1>5. ASSUME NEW c \in Channels, ToggleChannelReady(a, c)
      PROVE  TypeOK'
  <2>1. Channel(1, 0, 0) \in Capacity
    BY ChannelType
  <2> QED
    BY <1>5, <2>1 DEF ToggleChannelReady, taskVars
<1>6. ASSUME DeleteAgent(a)
      PROVE  TypeOK'
  <2>1. AbsentAgent \in Agent /\ NoCapacity \in [Channels -> Capacity]
    BY NoChannelType DEF AbsentAgent, Agent, NoCapacity
  <2>2. \A r \in Reservations :
            /\ reservation[r].task \in Tasks
            /\ Resolved(reservation[r], "Rejected") \in Reservation
    BY ResolvedFacts DEF Reservation
  <2>3. {reservation[r].task : r \in InFlight(a)} \subseteq Tasks
    BY <2>2 DEF InFlight
  <2> QED
    BY <1>6, <2>1, <2>2, <2>3, RequeuedFacts DEF DeleteAgent
<1> QED
  BY <1>1, <1>2, <1>3, <1>4, <1>5, <1>6, AgentStep(a) DEF AgentStep

\* The task scripts and match_commit do; a count is raised by a match and
\* lowered, not below zero, by complete_task.
LEMMA TaskStepType ==
    ASSUME TypeOK, NEW t \in Tasks, TaskStep(t)
    PROVE  TypeOK'
<1> USE RouterConstants DEF TypeOK
<1>1. ASSUME NEW q \in Queues, NEW c \in Channels, NEW i \in Times,
             NEW w \in BOOLEAN, EnqueueTask(t, q, c, i, w)
      PROVE  TypeOK'
  <2>1. [status |-> "Pending", queue |-> q, type |-> c, at |-> i,
         timer |-> w, res |-> NoReservation, agent |-> NoAgent,
         disposition |-> NoDisposition] \in Task
    BY DEF Task, TaskStatus
  <2> QED
    BY <1>1, <2>1 DEF EnqueueTask, agentVars
<1>2. ASSUME NEW a \in Agents, NEW r \in Reservations, MatchCommit(a, t, r)
      PROVE  TypeOK'
  <2>1. task[t].type \in Channels
    BY DEF Task
  <2>2. capacity' \in [Agents -> [Channels -> Capacity]]
    BY <1>2, <2>1, ClaimedFacts DEF MatchCommit
  <2>3. task' \in [Tasks -> Task]
    BY <1>2, ReservedFacts DEF MatchCommit
  <2>4. reservation' \in [Reservations -> Reservation]
    BY <1>2 DEF MatchCommit, Reservation
  <2> QED
    BY <1>2, <2>2, <2>3, <2>4 DEF MatchCommit
<1>3. ASSUME NEW k, EndTask(t, k)
      PROVE  TypeOK'
  <2>1. agent' \in [Agents -> Agent]
    BY <1>3, SetStatusOfKeyFacts DEF EndTask, AgentStatus
  <2>2. task' \in [Tasks -> Task]
    BY <1>3, InStatusFacts DEF EndTask, TaskStatus
  <2> QED
    BY <1>3, <2>1, <2>2 DEF EndTask
<1>4. ASSUME NEW k, CompleteTask(t, k)
      PROVE  TypeOK'
  <2>1. agent' \in [Agents -> Agent]
    BY <1>4, SetStatusOfKeyFacts DEF CompleteTask, AgentStatus
  <2>2. task' \in [Tasks -> Task]
    BY <1>4, CompletedFacts DEF CompleteTask
  <2>3. capacity' \in [Agents -> [Channels -> Capacity]]
    BY <1>4, ReleasedFacts DEF CompleteTask, Task
  <2> QED
    BY <1>4, <2>1, <2>2, <2>3 DEF CompleteTask
<1>5. ASSUME NEW k, WrapUpTimeout(t, k)
      PROVE  TypeOK'
  <2>1. agent' \in [Agents -> Agent]
    BY <1>5, SetStatusOfKeyFacts DEF WrapUpTimeout, AgentStatus
  <2> QED
    BY <1>5, <2>1 DEF WrapUpTimeout, taskVars
<1>6. ASSUME NEW d \in Dispositions, SetTaskDisposition(t, d)
      PROVE  TypeOK'
  <2>1. task' \in [Tasks -> Task]
    BY <1>6, TaggedFacts DEF SetTaskDisposition
  <2> QED
    BY <1>6, <2>1 DEF SetTaskDisposition, agentVars
<1>7. CASE StartWrapUpTimer(t)
  BY <1>7 DEF StartWrapUpTimer, agentVars, taskVars
<1>8. CASE WrapUpKeyExpires(t)
  BY <1>8 DEF WrapUpKeyExpires, agentVars, taskVars
<1> QED
  BY <1>1, <1>2, <1>3, <1>4, <1>5, <1>6, <1>7, <1>8, TaskStep(t)
  DEF TaskStep

\* Accept, reject and the end of a TTL do.
LEMMA ReservationStepType ==
    ASSUME TypeOK, NEW r \in Reservations, ReservationStep(r)
    PROVE  TypeOK'
<1> USE DEF TypeOK
<1>1. reservation[r].task \in Tasks /\ reservation[r].agent \in Agents
  BY DEF Reservation
<1>2. CASE AcceptReservation(r)
  <2>1. task' \in [Tasks -> Task]
    BY <1>1, <1>2, InStatusFacts DEF AcceptReservation, TaskStatus
  <2>2. reservation' \in [Reservations -> Reservation]
    BY <1>2, ResolvedFacts DEF AcceptReservation
  <2> QED
    BY <1>2, <2>1, <2>2 DEF AcceptReservation, agentVars
<1>3. CASE RejectReservation(r)
  <2>1. agent' \in [Agents -> Agent]
    BY <1>1, <1>3 DEF RejectReservation, Agent, AgentStatus
  <2>2. capacity' \in [Agents -> [Channels -> Capacity]]
    BY <1>1, <1>3, ReleasedFacts DEF RejectReservation, Task
  <2>3. task' \in [Tasks -> Task]
    BY <1>1, <1>3, RequeuedFacts DEF RejectReservation
  <2>4. reservation' \in [Reservations -> Reservation]
    BY <1>3, ResolvedFacts DEF RejectReservation
  <2> QED
    BY <1>1, <1>3, <2>1, <2>2, <2>3, <2>4 DEF RejectReservation
<1>4. CASE ReservationKeyExpires(r)
  BY <1>4 DEF ReservationKeyExpires, agentVars, taskVars
<1> QED
  BY <1>2, <1>3, <1>4, ReservationStep(r) DEF ReservationStep

\* Each script keeps the type of every key.
THEOREM StoreTypeCorrect == StoreSpec => []TypeOK
<1>1. StoreInit => TypeOK
  BY InitType
<1>2. TypeOK /\ [StoreNext]_storeVars => TypeOK'
  <2> SUFFICES ASSUME TypeOK, [StoreNext]_storeVars PROVE TypeOK'
    OBVIOUS
  <2>1. CASE StoreNext
    BY <2>1, AgentStepType, TaskStepType, ReservationStepType DEF StoreNext
  <2>2. CASE UNCHANGED storeVars
    BY <2>2 DEF storeVars, TypeOK
  <2> QED
    BY <2>1, <2>2
<1> QED
  BY <1>1, <1>2, PTL DEF StoreSpec
---------------------------------------------------------------------------
\* Consistency of the hashes, sets and indexes.

\* Steps that write no task, offers set or reservation, remove no agent and
\* add no sentinel keep the invariant.
LEMMA QuietStep ==
    ASSUME Consistent, TypeOK', UNCHANGED <<task, pending, offers, reservation>>,
           resexp' \subseteq resexp,
           \A a \in Agents : Exists(a) => Exists(a)'
    PROVE  Consistent'
<1>1. PendingIndexExact'
  BY DEF Consistent, PendingIndexExact
<1>2. HeldTaskIsBacked'
  BY DEF Consistent, HeldTaskIsBacked, BackedBy
<1>3. OfferIsCurrent' /\ ExclusiveClaim' /\ AcceptedIsCurrentOrDone'
  BY DEF Consistent, OfferIsCurrent, ExclusiveClaim, AcceptedIsCurrentOrDone
<1>4. OffersAreOwnAndLive' /\ SentinelMeansOffered'
  BY DEF Consistent, OffersAreOwnAndLive, SentinelMeansOffered
<1> QED
  BY <1>1, <1>2, <1>3, <1>4 DEF Consistent

\* delete_agent: what was in flight is exactly what the agent held, so all
\* of it goes back and nothing else moves.
LEMMA DeleteAgentConsistent ==
    ASSUME Consistent, TypeOK', NEW a \in Agents, DeleteAgent(a)
    PROVE  Consistent'
<1> DEFINE returned == {reservation[r].task : r \in InFlight(a)}
<1>0. /\ PendingIndexExact /\ HeldTaskIsBacked /\ OfferIsCurrent
      /\ ExclusiveClaim /\ OffersAreOwnAndLive /\ AcceptedIsCurrentOrDone
      /\ SentinelMeansOffered
  BY DEF Consistent
<1> USE DEF TypeOK
<1> TypeOK
  BY DEF Consistent
<1>1. InFlight(a) = offers[a]
  BY <1>0 DEF InFlight, OffersAreOwnAndLive
<1>a. \A t : t \in returned <=> \E s \in offers[a] : t = reservation[s].task
  BY <1>1
<1>2. /\ \A t \in returned : task'[t] = Requeued(task[t])
      /\ \A t \in Tasks : t \notin returned => task'[t] = task[t]
      /\ returned \subseteq Tasks
      /\ pending' = pending \cup returned
  BY DEF DeleteAgent, InFlight, Reservation
<1> HIDE DEF returned
<1>3. /\ \A r \in offers[a] : reservation'[r] = Resolved(reservation[r], "Rejected")
      /\ \A r \in Reservations : r \notin offers[a] => reservation'[r] = reservation[r]
  BY <1>1 DEF DeleteAgent
<1>4. \A r \in Reservations : /\ reservation'[r].task = reservation[r].task
                              /\ reservation'[r].agent = reservation[r].agent
  BY <1>3, ResolvedFacts
<1>5. /\ offers'[a] = {}
      /\ \A b \in Agents : b # a => offers'[b] = offers[b]
      /\ \A b \in Agents : b # a => (Exists(b)' <=> Exists(b))
  BY DEF DeleteAgent, Exists
<1>6. \A b \in Agents : \A r \in offers[b] :
          b # a => /\ r \notin offers[a]
                   /\ reservation[r].task \notin returned
  <2> SUFFICES ASSUME NEW b \in Agents, NEW r \in offers[b], b # a
               PROVE  /\ r \notin offers[a]
                      /\ reservation[r].task \notin returned
    OBVIOUS
  <2>1. r \notin offers[a]
    BY <1>0 DEF OffersAreOwnAndLive
  <2>2. \A s \in offers[a] : reservation[r].task # reservation[s].task
    BY <1>0, <2>1 DEF ExclusiveClaim
  <2> QED
    BY <1>a, <2>1, <2>2
<1>7. \A t \in Tasks : t \notin returned /\ task[t].status \in HeldStatus =>
          task[t].agent # a
  BY <1>0, <1>a DEF HeldTaskIsBacked, BackedBy
<1>8. \A t \in returned : task'[t].status = "Pending"
  <2> SUFFICES ASSUME NEW t \in returned PROVE task'[t].status = "Pending"
    OBVIOUS
  <2>1. task[t] \in Task /\ task'[t] = Requeued(task[t])
    BY <1>2
  <2> QED
    BY <2>1, RequeuedFacts
<1>9. PendingIndexExact'
  BY <1>0, <1>2, <1>8 DEF PendingIndexExact
<1>10. HeldTaskIsBacked'
  <2> SUFFICES ASSUME NEW t \in Tasks, task'[t].status \in HeldStatus
               PROVE  BackedBy(t, task[t].res, task[t].agent)'
    BY DEF HeldTaskIsBacked
  <2>1. t \notin returned /\ task'[t] = task[t]
    BY <1>2, <1>8 DEF HeldStatus
  <2>2. task[t].agent # a
    BY <1>7, <2>1
  <2>3. BackedBy(t, task[t].res, task[t].agent)
    BY <1>0, <2>1 DEF HeldTaskIsBacked
  <2>4. reservation'[task[t].res] = reservation[task[t].res]
    BY <1>3, <1>6, <2>2, <2>3 DEF BackedBy
  <2> QED
    BY <1>5, <2>1, <2>2, <2>3, <2>4 DEF BackedBy
<1>11. OfferIsCurrent'
  <2> SUFFICES ASSUME NEW r \in Reservations, reservation'[r].status = "Offered"
               PROVE  /\ task'[reservation'[r].task].status = "Reserved"
                      /\ task'[reservation'[r].task].res = r
    BY DEF OfferIsCurrent
  <2>1. r \notin offers[a] /\ reservation'[r] = reservation[r]
    BY <1>3, ResolvedFacts
  <2>2. /\ task[reservation[r].task].status = "Reserved"
        /\ task[reservation[r].task].res = r
        /\ reservation[r].task \in Tasks
    BY <1>0, <2>1 DEF OfferIsCurrent, Reservation
  <2>3. task[reservation[r].task].agent # a
    BY <1>0, <2>1, <2>2 DEF HeldTaskIsBacked, HeldStatus, BackedBy
  <2>4. reservation[r].task \notin returned
    BY <1>0, <1>6, <2>2, <2>3 DEF HeldTaskIsBacked, HeldStatus, BackedBy
  <2> QED
    BY <1>2, <2>1, <2>2, <2>4
<1>12. ExclusiveClaim'
  <2>1. \A b \in Agents : offers'[b] \subseteq offers[b]
    BY <1>5
  <2> QED
    BY <1>0, <1>4, <2>1 DEF ExclusiveClaim
<1>13. OffersAreOwnAndLive'
  BY <1>0, <1>3, <1>5, <1>6 DEF OffersAreOwnAndLive
<1>14. AcceptedIsCurrentOrDone'
  <2> SUFFICES ASSUME NEW b \in Agents, NEW r \in offers'[b],
                      reservation'[r].status = "Accepted"
               PROVE  LET t == reservation'[r].task
                      IN  \/ task'[t].status = "Completed"
                          \/ /\ task'[t].status \in {"Active", "WrapUp"}
                             /\ task'[t].res = r
    BY DEF AcceptedIsCurrentOrDone
  <2>1. b # a /\ r \in offers[b] /\ reservation'[r] = reservation[r]
    BY <1>3, <1>5, <1>6
  <2>2. task'[reservation[r].task] = task[reservation[r].task]
    BY <1>2, <1>6, <2>1 DEF Reservation
  <2> QED
    BY <1>0, <2>1, <2>2 DEF AcceptedIsCurrentOrDone
<1>15. SentinelMeansOffered'
  BY <1>0, <1>1, <1>3 DEF SentinelMeansOffered, DeleteAgent
<1> QED
  BY <1>9, <1>10, <1>11, <1>12, <1>13, <1>14, <1>15 DEF Consistent


\* Steps that change one task, without taking it into or out of the pending
\* index, the hold of its agent or the current reservation.
LEMMA SameHoldStep ==
    ASSUME Consistent, TypeOK', NEW t \in Tasks,
           UNCHANGED <<pending, offers, reservation, resexp>>,
           \A a \in Agents : Exists(a) => Exists(a)',
           \A u \in Tasks : u # t => task'[u] = task[u],
           task'[t].res = task[t].res, task'[t].agent = task[t].agent,
           \/ task'[t].status = task[t].status
           \/ task[t].status = "Active" /\ task'[t].status = "WrapUp"
    PROVE  Consistent'
<1>0. /\ PendingIndexExact /\ HeldTaskIsBacked /\ OfferIsCurrent
      /\ ExclusiveClaim /\ OffersAreOwnAndLive /\ AcceptedIsCurrentOrDone
      /\ SentinelMeansOffered
  BY DEF Consistent
<1>1. \A u \in Tasks :
          /\ task'[u].res = task[u].res /\ task'[u].agent = task[u].agent
          /\ \/ task'[u].status = task[u].status
             \/ task[u].status = "Active" /\ task'[u].status = "WrapUp"
  OBVIOUS
<1>2. \A r \in Reservations : reservation[r].task \in Tasks
  BY DEF Consistent, TypeOK, Reservation
<1>3. \A a \in Agents : offers[a] \subseteq Reservations
  BY DEF Consistent, TypeOK
<1>4. PendingIndexExact'
  BY <1>0, <1>1 DEF PendingIndexExact
<1>5. HeldTaskIsBacked'
  BY <1>0, <1>1 DEF HeldTaskIsBacked, BackedBy, HeldStatus
<1>6. OfferIsCurrent'
  BY <1>0, <1>1, <1>2 DEF OfferIsCurrent
<1>7. AcceptedIsCurrentOrDone'
  BY <1>0, <1>1, <1>2, <1>3 DEF AcceptedIsCurrentOrDone
<1>8. ExclusiveClaim' /\ OffersAreOwnAndLive' /\ SentinelMeansOffered'
  BY <1>0 DEF ExclusiveClaim, OffersAreOwnAndLive, SentinelMeansOffered
<1> QED
  BY <1>4, <1>5, <1>6, <1>7, <1>8 DEF Consistent

\* enqueue_task: a new task has no reservation behind it.
LEMMA EnqueueTaskConsistent ==
    ASSUME Consistent, TypeOK', NEW t \in Tasks,
           NEW q, NEW c, NEW i, NEW w, EnqueueTask(t, q, c, i, w)
    PROVE  Consistent'
<1>0. /\ PendingIndexExact /\ HeldTaskIsBacked /\ OfferIsCurrent
      /\ ExclusiveClaim /\ OffersAreOwnAndLive /\ AcceptedIsCurrentOrDone
      /\ SentinelMeansOffered /\ TypeOK
  BY DEF Consistent
<1>1. /\ task[t].status = "Absent" /\ task'[t].status = "Pending"
      /\ \A u \in Tasks : u # t => task'[u] = task[u]
      /\ pending' = pending \cup {t}
      /\ UNCHANGED <<agent, offers, reservation, resexp>>
  BY <1>0 DEF EnqueueTask, agentVars, TypeOK
<1>2. \A r \in Reservations : reservation[r].task \in Tasks
  BY <1>0 DEF TypeOK, Reservation
<1>3. \A a \in Agents : offers[a] \subseteq Reservations
  BY <1>0 DEF TypeOK
<1>4. PendingIndexExact'
  BY <1>0, <1>1 DEF PendingIndexExact
<1>5. HeldTaskIsBacked'
  BY <1>0, <1>1 DEF HeldTaskIsBacked, BackedBy, HeldStatus, Exists
<1>6. OfferIsCurrent'
  BY <1>0, <1>1, <1>2 DEF OfferIsCurrent
<1>7. AcceptedIsCurrentOrDone'
  BY <1>0, <1>1, <1>2, <1>3 DEF AcceptedIsCurrentOrDone
<1>8. ExclusiveClaim' /\ OffersAreOwnAndLive' /\ SentinelMeansOffered'
  BY <1>0, <1>1
  DEF ExclusiveClaim, OffersAreOwnAndLive, SentinelMeansOffered, Exists
<1> QED
  BY <1>4, <1>5, <1>6, <1>7, <1>8 DEF Consistent

\* match_commit: a Pending task has no claim on it, and a fresh id is in no
\* offers set, so the new claim is the only one.
LEMMA MatchCommitConsistent ==
    ASSUME Consistent, TypeOK', NEW a \in Agents, NEW t \in Tasks,
           NEW r \in Reservations, MatchCommit(a, t, r)
    PROVE  Consistent'
<1>0. /\ PendingIndexExact /\ HeldTaskIsBacked /\ OfferIsCurrent
      /\ ExclusiveClaim /\ OffersAreOwnAndLive /\ AcceptedIsCurrentOrDone
      /\ SentinelMeansOffered /\ TypeOK
  BY DEF Consistent
<1>1. /\ reservation[r].status = "None"
      /\ task[t].status = "Pending"
      /\ Exists(a)
      /\ pending' = pending \ {t}
      /\ resexp' = resexp \cup {r}
      /\ agent' = agent
  BY DEF MatchCommit, MatchGates, AgentCanTake, Exists
<1>2. /\ task'[t] = Reserved(task[t], r, a) /\ task[t] \in Task
      /\ \A u \in Tasks : u # t => task'[u] = task[u]
  BY <1>0 DEF MatchCommit, TypeOK
<1>3. task'[t].status = "Reserved" /\ task'[t].res = r /\ task'[t].agent = a
  BY <1>2, ReservedFacts
<1>4. /\ reservation'[r] = [status |-> "Offered", task |-> t, agent |-> a]
      /\ \A s \in Reservations : s # r => reservation'[s] = reservation[s]
  BY <1>0 DEF MatchCommit, TypeOK
<1>5. /\ offers'[a] = offers[a] \cup {r}
      /\ \A b \in Agents : b # a => offers'[b] = offers[b]
  BY <1>0 DEF MatchCommit, TypeOK
<1>6. \A s \in Reservations : reservation[s].task \in Tasks
  BY <1>0 DEF TypeOK, Reservation
<1>7. \A b \in Agents : offers[b] \subseteq Reservations /\ r \notin offers[b]
  BY <1>0, <1>1 DEF TypeOK, OffersAreOwnAndLive
<1>8. \A b \in Agents : \A s \in offers[b] : reservation[s].task # t
  BY <1>0, <1>1, <1>7
  DEF OffersAreOwnAndLive, OfferIsCurrent, AcceptedIsCurrentOrDone
<1>9. PendingIndexExact'
  BY <1>0, <1>1, <1>2, <1>3 DEF PendingIndexExact
<1>10. HeldTaskIsBacked'
  <2> SUFFICES ASSUME NEW u \in Tasks, task'[u].status \in HeldStatus
               PROVE  BackedBy(u, task[u].res, task[u].agent)'
    BY DEF HeldTaskIsBacked
  <2>1. CASE u = t
    BY <1>1, <1>3, <1>4, <1>5, <2>1 DEF BackedBy, Exists
  <2>2. CASE u # t
    <3>1. BackedBy(u, task[u].res, task[u].agent) /\ task'[u] = task[u]
      BY <1>0, <1>2, <2>2 DEF HeldTaskIsBacked
    <3>2. task[u].res # r /\ task[u].res \in Reservations
      BY <1>7, <3>1 DEF BackedBy
    <3> QED
      BY <1>1, <1>4, <1>5, <3>1, <3>2 DEF BackedBy, Exists
  <2> QED
    BY <2>1, <2>2
<1>11. OfferIsCurrent'
  BY <1>0, <1>1, <1>2, <1>3, <1>4, <1>6 DEF OfferIsCurrent
<1>12. ExclusiveClaim'
  <2> SUFFICES ASSUME NEW b \in Agents, NEW d \in Agents,
                      NEW s \in offers'[b], NEW v \in offers'[d],
                      reservation'[s].task = reservation'[v].task, s # v
               PROVE  FALSE
    BY DEF ExclusiveClaim
  <2>1. CASE s = r
    BY <1>4, <1>5, <1>7, <1>8, <2>1
  <2>2. CASE v = r
    BY <1>4, <1>5, <1>7, <1>8, <2>2
  <2>3. CASE s # r /\ v # r
    <3>1. s \in offers[b] /\ v \in offers[d]
      BY <1>5, <2>3
    <3>2. reservation'[s] = reservation[s] /\ reservation'[v] = reservation[v]
      BY <1>4, <1>7, <2>3, <3>1
    <3> QED
      BY <1>0, <3>1, <3>2 DEF ExclusiveClaim
  <2> QED
    BY <2>1, <2>2, <2>3
<1>13. OffersAreOwnAndLive'
  BY <1>0, <1>1, <1>4, <1>5, <1>7 DEF OffersAreOwnAndLive, Exists
<1>14. AcceptedIsCurrentOrDone'
  BY <1>0, <1>2, <1>4, <1>5, <1>6, <1>7, <1>8 DEF AcceptedIsCurrentOrDone
<1>15. SentinelMeansOffered'
  BY <1>0, <1>1, <1>4 DEF SentinelMeansOffered, TypeOK
<1> QED
  BY <1>9, <1>10, <1>11, <1>12, <1>13, <1>14, <1>15 DEF Consistent

\* accept_reservation: the offer is the current one of its task, so the task
\* it makes Active is the one the agent was offered.
LEMMA AcceptConsistent ==
    ASSUME Consistent, TypeOK', NEW r \in Reservations, AcceptReservation(r)
    PROVE  Consistent'
<1> DEFINE t == reservation[r].task
<1>0. /\ PendingIndexExact /\ HeldTaskIsBacked /\ OfferIsCurrent
      /\ ExclusiveClaim /\ OffersAreOwnAndLive /\ AcceptedIsCurrentOrDone
      /\ SentinelMeansOffered /\ TypeOK
  BY DEF Consistent
<1>1. \A s \in Reservations : reservation[s].task \in Tasks
  BY <1>0 DEF TypeOK, Reservation
<1>2. /\ reservation[r].status = "Offered"
      /\ task[t].status = "Reserved" /\ task[t].res = r
      /\ t \in Tasks /\ task[t] \in Task
  BY <1>0, <1>1 DEF AcceptReservation, OfferIsCurrent, TypeOK
<1>3. /\ task'[t] = InStatus(task[t], "Active")
      /\ \A u \in Tasks : u # t => task'[u] = task[u]
  BY <1>0, <1>2 DEF AcceptReservation, TypeOK
<1>4. /\ task'[t].status = "Active" /\ task'[t].res = r
      /\ task'[t].agent = task[t].agent
  BY <1>2, <1>3, InStatusFacts DEF TaskStatus
<1>5. /\ reservation'[r].status = "Accepted"
      /\ reservation'[r].task = t
      /\ reservation'[r].agent = reservation[r].agent
      /\ \A s \in Reservations : s # r => reservation'[s] = reservation[s]
  BY <1>0, ResolvedFacts DEF AcceptReservation, TypeOK
<1>6. /\ UNCHANGED <<agent, offers, pending>> /\ resexp' = resexp \ {r}
      /\ \A b \in Agents : offers[b] \subseteq Reservations
      /\ resexp \subseteq Reservations
  BY <1>0 DEF AcceptReservation, agentVars, TypeOK
<1> HIDE DEF t
<1>7. PendingIndexExact'
  BY <1>0, <1>2, <1>3, <1>4, <1>6 DEF PendingIndexExact
<1>8. HeldTaskIsBacked'
  <2> SUFFICES ASSUME NEW u \in Tasks, task'[u].status \in HeldStatus
               PROVE  BackedBy(u, task[u].res, task[u].agent)'
    BY DEF HeldTaskIsBacked
  <2>1. CASE u = t
    BY <1>0, <1>2, <1>4, <1>5, <1>6, <2>1
    DEF HeldTaskIsBacked, BackedBy, HeldStatus, Exists
  <2>2. CASE u # t
    <3>1. BackedBy(u, task[u].res, task[u].agent) /\ task'[u] = task[u]
      BY <1>0, <1>3, <2>2 DEF HeldTaskIsBacked
    <3>2. task[u].res # r
      BY <2>2, <3>1 DEF BackedBy, t
    <3> QED
      BY <1>5, <1>6, <3>1, <3>2 DEF BackedBy, Exists
  <2> QED
    BY <2>1, <2>2
<1>9. OfferIsCurrent'
  <2> SUFFICES ASSUME NEW s \in Reservations, reservation'[s].status = "Offered"
               PROVE  /\ task'[reservation'[s].task].status = "Reserved"
                      /\ task'[reservation'[s].task].res = s
    BY DEF OfferIsCurrent
  <2>1. s # r /\ reservation'[s] = reservation[s]
    BY <1>5
  <2>2. reservation[s].task # t
    BY <1>0, <1>2, <2>1 DEF OfferIsCurrent
  <2> QED
    BY <1>0, <1>1, <1>3, <2>1, <2>2 DEF OfferIsCurrent
<1>10. ExclusiveClaim' /\ OffersAreOwnAndLive' /\ SentinelMeansOffered'
  <2>1. \A s \in Reservations : /\ reservation'[s].task = reservation[s].task
                                /\ reservation'[s].agent = reservation[s].agent
    BY <1>5 DEF t
  <2> QED
    BY <1>0, <1>5, <1>6, <2>1
    DEF ExclusiveClaim, OffersAreOwnAndLive, SentinelMeansOffered, Exists
<1>11. AcceptedIsCurrentOrDone'
  <2> SUFFICES ASSUME NEW b \in Agents, NEW s \in offers[b],
                      reservation'[s].status = "Accepted"
               PROVE  LET u == reservation'[s].task
                      IN  \/ task'[u].status = "Completed"
                          \/ /\ task'[u].status \in {"Active", "WrapUp"}
                             /\ task'[u].res = s
    BY <1>6 DEF AcceptedIsCurrentOrDone
  <2>1. CASE s = r
    BY <1>4, <1>5, <2>1
  <2>2. CASE s # r
    <3>1. reservation'[s] = reservation[s]
      BY <1>5, <1>6, <2>2
    <3>2. reservation[s].task # t /\ reservation[s].task \in Tasks
      BY <1>0, <1>1, <1>2, <1>6, <3>1 DEF AcceptedIsCurrentOrDone
    <3> QED
      BY <1>0, <1>3, <3>1, <3>2 DEF AcceptedIsCurrentOrDone
  <2> QED
    BY <2>1, <2>2
<1> QED
  BY <1>7, <1>8, <1>9, <1>10, <1>11 DEF Consistent

\* reject_reservation, by hand or by expiry: the task it returns is held by
\* this very offer, and nothing else refers to it.
LEMMA RejectConsistent ==
    ASSUME Consistent, TypeOK', NEW r \in Reservations, RejectReservation(r)
    PROVE  Consistent'
<1> DEFINE t == reservation[r].task
           a == reservation[r].agent
<1>0. /\ PendingIndexExact /\ HeldTaskIsBacked /\ OfferIsCurrent
      /\ ExclusiveClaim /\ OffersAreOwnAndLive /\ AcceptedIsCurrentOrDone
      /\ SentinelMeansOffered /\ TypeOK
  BY DEF Consistent
<1>1. \A s \in Reservations :
          reservation[s].task \in Tasks /\ reservation[s].agent \in Agents
  BY <1>0 DEF TypeOK, Reservation
<1>2. /\ reservation[r].status = "Offered"
      /\ task[t].status = "Reserved" /\ task[t].res = r
      /\ t \in Tasks /\ a \in Agents /\ task[t] \in Task
  BY <1>0, <1>1 DEF RejectReservation, OfferIsCurrent, TypeOK
<1>3. /\ task'[t] = Requeued(task[t])
      /\ \A u \in Tasks : u # t => task'[u] = task[u]
      /\ pending' = pending \cup {t}
  BY <1>0, <1>2 DEF RejectReservation, TypeOK
<1>4. task'[t].status = "Pending"
  BY <1>2, <1>3, RequeuedFacts
<1>5. /\ reservation'[r].status = "Rejected"
      /\ \A s \in Reservations : s # r => reservation'[s] = reservation[s]
  BY <1>0, ResolvedFacts DEF RejectReservation, TypeOK
<1>6. /\ offers'[a] = offers[a] \ {r}
      /\ \A b \in Agents : b # a => offers'[b] = offers[b]
      /\ resexp' = resexp \ {r}
      /\ \A b \in Agents : offers[b] \subseteq Reservations
      /\ resexp \subseteq Reservations
  BY <1>0, <1>2 DEF RejectReservation, TypeOK
<1>7. \A b \in Agents : Exists(b)' <=> Exists(b)
  <2>1. agent' = IF Exists(a)
                 THEN [agent EXCEPT ![a].status = "Not Responding"]
                 ELSE agent
    BY DEF RejectReservation
  <2>2. agent \in [Agents -> Agent]
    BY <1>0 DEF TypeOK
  <2> HIDE DEF a
  <2> QED
    BY <1>2, <2>1, <2>2 DEF Agent, Exists
<1>8. \A b \in Agents : r \notin offers'[b] /\ offers'[b] \subseteq offers[b]
  BY <1>0, <1>6 DEF OffersAreOwnAndLive
<1> HIDE DEF t, a
<1>9. PendingIndexExact'
  BY <1>0, <1>2, <1>3, <1>4 DEF PendingIndexExact
<1>10. HeldTaskIsBacked'
  <2> SUFFICES ASSUME NEW u \in Tasks, task'[u].status \in HeldStatus
               PROVE  BackedBy(u, task[u].res, task[u].agent)'
    BY DEF HeldTaskIsBacked
  <2>1. u # t /\ task'[u] = task[u]
    BY <1>3, <1>4 DEF HeldStatus
  <2>2. BackedBy(u, task[u].res, task[u].agent)
    BY <1>0, <2>1 DEF HeldTaskIsBacked
  <2>3. task[u].res # r
    BY <2>1, <2>2 DEF BackedBy, t
  <2> QED
    BY <1>5, <1>6, <1>7, <2>1, <2>2, <2>3 DEF BackedBy
<1>11. OfferIsCurrent'
  <2> SUFFICES ASSUME NEW s \in Reservations, reservation'[s].status = "Offered"
               PROVE  /\ task'[reservation'[s].task].status = "Reserved"
                      /\ task'[reservation'[s].task].res = s
    BY DEF OfferIsCurrent
  <2>1. s # r /\ reservation'[s] = reservation[s]
    BY <1>5
  <2>2. reservation[s].task # t
    BY <1>0, <1>2, <2>1 DEF OfferIsCurrent
  <2> QED
    BY <1>0, <1>1, <1>3, <2>1, <2>2 DEF OfferIsCurrent
<1>12. \A b \in Agents : \A s \in offers'[b] : reservation'[s] = reservation[s]
  BY <1>5, <1>6, <1>8
<1>13. ExclusiveClaim' /\ OffersAreOwnAndLive'
  BY <1>0, <1>7, <1>8, <1>12 DEF ExclusiveClaim, OffersAreOwnAndLive
<1>14. SentinelMeansOffered'
  BY <1>0, <1>5, <1>6 DEF SentinelMeansOffered
<1>15. AcceptedIsCurrentOrDone'
  <2> SUFFICES ASSUME NEW b \in Agents, NEW s \in offers'[b],
                      reservation'[s].status = "Accepted"
               PROVE  LET u == reservation'[s].task
                      IN  \/ task'[u].status = "Completed"
                          \/ /\ task'[u].status \in {"Active", "WrapUp"}
                             /\ task'[u].res = s
    BY DEF AcceptedIsCurrentOrDone
  <2>1. reservation'[s] = reservation[s] /\ s \in offers[b]
    BY <1>8, <1>12
  <2>2. reservation[s].task # t /\ reservation[s].task \in Tasks
    BY <1>0, <1>1, <1>2, <1>6, <2>1 DEF AcceptedIsCurrentOrDone
  <2> QED
    BY <1>0, <1>3, <2>1, <2>2 DEF AcceptedIsCurrentOrDone
<1> QED
  BY <1>9, <1>10, <1>11, <1>13, <1>14, <1>15 DEF Consistent

\* complete_task: whichever agent the key belongs to, the only claim that
\* can disappear is the one of the task that completes.
LEMMA CompleteConsistent ==
    ASSUME Consistent, TypeOK', NEW t \in Tasks, NEW k, CompleteTask(t, k)
    PROVE  Consistent'
<1>0. /\ PendingIndexExact /\ HeldTaskIsBacked /\ OfferIsCurrent
      /\ ExclusiveClaim /\ OffersAreOwnAndLive /\ AcceptedIsCurrentOrDone
      /\ SentinelMeansOffered /\ TypeOK
  BY DEF Consistent
<1>1. \A s \in Reservations : reservation[s].task \in Tasks
  BY <1>0 DEF TypeOK, Reservation
<1>2. /\ task[t].status \in {"Active", "WrapUp"} /\ task[t] \in Task
      /\ task'[t] = Completed(task[t])
      /\ \A u \in Tasks : u # t => task'[u] = task[u]
      /\ UNCHANGED <<pending, reservation, resexp>>
  BY <1>0 DEF CompleteTask, TypeOK
<1>3. task'[t].status = "Completed"
  BY <1>2, CompletedFacts
<1>4. \A b \in Agents : Exists(b)' <=> Exists(b)
  BY <1>0, SetStatusOfKeyFacts DEF CompleteTask, AgentStatus
<1>5. \A b \in Agents : /\ offers'[b] \subseteq offers[b]
                        /\ offers[b] \ {task[t].res} \subseteq offers'[b]
                        /\ offers[b] \subseteq Reservations
  BY <1>0 DEF CompleteTask, KeyIsLive, TypeOK
<1>6. BackedBy(t, task[t].res, task[t].agent)
  BY <1>0, <1>2 DEF HeldTaskIsBacked, HeldStatus
<1>7. PendingIndexExact'
  BY <1>0, <1>2, <1>3 DEF PendingIndexExact
<1>8. HeldTaskIsBacked'
  <2> SUFFICES ASSUME NEW u \in Tasks, task'[u].status \in HeldStatus
               PROVE  BackedBy(u, task[u].res, task[u].agent)'
    BY DEF HeldTaskIsBacked
  <2>1. u # t /\ task'[u] = task[u]
    BY <1>2, <1>3 DEF HeldStatus
  <2>2. BackedBy(u, task[u].res, task[u].agent)
    BY <1>0, <2>1 DEF HeldTaskIsBacked
  <2>3. task[u].res # task[t].res
    BY <1>6, <2>1, <2>2 DEF BackedBy
  <2> QED
    BY <1>2, <1>4, <1>5, <2>1, <2>2, <2>3 DEF BackedBy
<1>9. OfferIsCurrent'
  BY <1>0, <1>1, <1>2 DEF OfferIsCurrent
<1>10. ExclusiveClaim' /\ OffersAreOwnAndLive' /\ SentinelMeansOffered'
  BY <1>0, <1>2, <1>4, <1>5
  DEF ExclusiveClaim, OffersAreOwnAndLive, SentinelMeansOffered
<1>11. AcceptedIsCurrentOrDone'
  BY <1>0, <1>1, <1>2, <1>3, <1>5 DEF AcceptedIsCurrentOrDone
<1> QED
  BY <1>7, <1>8, <1>9, <1>10, <1>11 DEF Consistent

\* An empty store is consistent.
LEMMA InitConsistent == StoreInit => Consistent
<1> SUFFICES ASSUME StoreInit PROVE Consistent
  OBVIOUS
<1>1. TypeOK
  BY InitType
<1>2. \A t \in Tasks : task[t].status = "Absent"
  BY DEF StoreInit, UnknownTask
<1>3. \A r \in Reservations : reservation[r].status = "None"
  BY DEF StoreInit, UnusedReservation
<1>4. pending = {} /\ resexp = {} /\ \A a \in Agents : offers[a] = {}
  BY DEF StoreInit
<1> QED
  BY <1>1, <1>2, <1>3, <1>4
  DEF Consistent, PendingIndexExact, HeldTaskIsBacked, HeldStatus,
      OfferIsCurrent, ExclusiveClaim, OffersAreOwnAndLive,
      AcceptedIsCurrentOrDone, SentinelMeansOffered

\* Every script keeps the store consistent: one case per script.
LEMMA StepConsistent ==
    ASSUME Consistent, [StoreNext]_storeVars
    PROVE  Consistent'
<1> USE RouterConstants
<1>0. TypeOK
  BY DEF Consistent
<1>1. ASSUME NEW a \in Agents, AgentStep(a)
      PROVE  Consistent'
  <2>0. TypeOK'
    BY <1>0, <1>1, AgentStepType
  <2>1. CASE DeleteAgent(a)
    BY <2>0, <2>1, DeleteAgentConsistent
  <2>2. CASE ~DeleteAgent(a)
    <3>1. UNCHANGED <<task, pending, offers, reservation, resexp>>
      BY <1>1, <2>2 DEF AgentStep, CreateAgent, SetAgentStatus,
             ReplaceAgentQueues, ReplaceCapacity, ToggleChannelReady, taskVars
    <3>2. \A b \in Agents : Exists(b) => Exists(b)'
      <4>1. ASSUME NEW s \in RequestStatus, NEW Q \in SUBSET Queues,
                   NEW req, CreateAgent(a, s, Q, req)
            PROVE  \A b \in Agents : Exists(b) => Exists(b)'
        <5>1. s # "Absent" /\ agent \in [Agents -> Agent]
          BY <1>0 DEF TypeOK, AgentStatus
        <5>2. agent' = [agent EXCEPT ![a] = [status |-> s, queues |-> Q]]
          BY <4>1 DEF CreateAgent
        <5> QED
          BY <5>1, <5>2 DEF Exists
      <4>2. ASSUME NEW s \in RequestStatus, SetAgentStatus(a, s)
            PROVE  \A b \in Agents : Exists(b) => Exists(b)'
        <5>1. s # "Absent" /\ agent \in [Agents -> Agent]
          BY <1>0 DEF TypeOK, AgentStatus
        <5>2. agent' = [agent EXCEPT ![a].status = s]
          BY <4>2 DEF SetAgentStatus
        <5> QED
          BY <5>1, <5>2 DEF Exists, Agent
      <4>3. ASSUME NEW Q \in SUBSET Queues, ReplaceAgentQueues(a, Q)
            PROVE  \A b \in Agents : Exists(b) => Exists(b)'
        BY <1>0, <4>3 DEF ReplaceAgentQueues, Exists, TypeOK, Agent
      <4>4. ASSUME UNCHANGED agent
            PROVE  \A b \in Agents : Exists(b) => Exists(b)'
        BY <4>4 DEF Exists
      <4> QED
        BY <1>1, <2>2, <4>1, <4>2, <4>3, <4>4
        DEF AgentStep, ReplaceCapacity, ToggleChannelReady
    <3> QED
      BY <2>0, <3>1, <3>2, QuietStep
  <2> QED
    BY <2>1, <2>2
<1>2. ASSUME NEW t \in Tasks, TaskStep(t)
      PROVE  Consistent'
  <2>0. TypeOK'
    BY <1>0, <1>2, TaskStepType
  <2>1. ASSUME NEW q, NEW c, NEW i, NEW w, EnqueueTask(t, q, c, i, w)
        PROVE  Consistent'
    BY <2>0, <2>1, EnqueueTaskConsistent
  <2>2. ASSUME NEW a \in Agents, NEW r \in Reservations, MatchCommit(a, t, r)
        PROVE  Consistent'
    BY <2>0, <2>2, MatchCommitConsistent
  <2>3. ASSUME NEW k, EndTask(t, k)
        PROVE  Consistent'
    <3>1. task[t] \in Task /\ task'[t] = InStatus(task[t], "WrapUp")
      BY <1>0, <2>3 DEF EndTask, TypeOK
    <3>2. /\ task'[t].status = "WrapUp" /\ task'[t].res = task[t].res
          /\ task'[t].agent = task[t].agent
      BY <3>1, InStatusFacts DEF TaskStatus
    <3>3. /\ task[t].status = "Active"
          /\ UNCHANGED <<pending, offers, reservation, resexp>>
          /\ \A u \in Tasks : u # t => task'[u] = task[u]
      BY <1>0, <2>3 DEF EndTask, TypeOK
    <3>4. \A a \in Agents : Exists(a) => Exists(a)'
      BY <1>0, <2>3, SetStatusOfKeyFacts DEF EndTask, AgentStatus
    <3> QED
      BY <2>0, <3>2, <3>3, <3>4, SameHoldStep
  <2>4. ASSUME NEW k, CompleteTask(t, k)
        PROVE  Consistent'
    BY <2>0, <2>4, CompleteConsistent
  <2>5. ASSUME NEW k, WrapUpTimeout(t, k)
        PROVE  Consistent'
    <3>1. \A a \in Agents : Exists(a) => Exists(a)'
      BY <1>0, <2>5, SetStatusOfKeyFacts DEF WrapUpTimeout, AgentStatus
    <3>2. UNCHANGED <<task, pending, offers, reservation, resexp>>
      BY <2>5 DEF WrapUpTimeout, taskVars
    <3> QED
      BY <2>0, <3>1, <3>2, QuietStep
  <2>6. ASSUME NEW d \in Dispositions, SetTaskDisposition(t, d)
        PROVE  Consistent'
    <3>1. task[t] \in Task /\ task'[t] = [task[t] EXCEPT !.disposition = d]
      BY <1>0, <2>6 DEF SetTaskDisposition, TypeOK
    <3>2. /\ task'[t].status = task[t].status /\ task'[t].res = task[t].res
          /\ task'[t].agent = task[t].agent
      BY <3>1, TaggedFacts
    <3>3. /\ UNCHANGED <<agent, pending, offers, reservation, resexp>>
          /\ \A u \in Tasks : u # t => task'[u] = task[u]
      BY <1>0, <2>6 DEF SetTaskDisposition, agentVars, TypeOK
    <3>4. \A a \in Agents : Exists(a) => Exists(a)'
      BY <3>3 DEF Exists
    <3> QED
      BY <2>0, <3>2, <3>3, <3>4, SameHoldStep
  <2>7. CASE StartWrapUpTimer(t) \/ WrapUpKeyExpires(t)
    <3>1. UNCHANGED <<agent, task, pending, offers, reservation, resexp>>
      BY <2>7 DEF StartWrapUpTimer, WrapUpKeyExpires, agentVars, taskVars
    <3> QED
      BY <2>0, <3>1, QuietStep DEF Exists
  <2> QED
    BY <1>2, <2>1, <2>2, <2>3, <2>4, <2>5, <2>6, <2>7 DEF TaskStep
<1>3. ASSUME NEW r \in Reservations, ReservationStep(r)
      PROVE  Consistent'
  <2>0. TypeOK'
    BY <1>0, <1>3, ReservationStepType
  <2>1. CASE AcceptReservation(r)
    BY <2>0, <2>1, AcceptConsistent
  <2>2. CASE RejectReservation(r)
    BY <2>0, <2>2, RejectConsistent
  <2>3. CASE ReservationKeyExpires(r)
    <3>1. /\ UNCHANGED <<agent, task, pending, offers, reservation>>
          /\ resexp' \subseteq resexp
      BY <2>3 DEF ReservationKeyExpires, agentVars, taskVars
    <3> QED
      BY <2>0, <3>1, QuietStep DEF Exists
  <2> QED
    BY <1>3, <2>1, <2>2, <2>3 DEF ReservationStep
<1>4. CASE UNCHANGED storeVars
  <2>1. /\ TypeOK'
        /\ UNCHANGED <<agent, task, pending, offers, reservation, resexp>>
    BY <1>0, <1>4 DEF storeVars, TypeOK
  <2> QED
    BY <2>1, QuietStep DEF Exists
<1> QED
  BY <1>1, <1>2, <1>3, <1>4 DEF StoreNext

\* Hashes, sets and indexes stay consistent with one another under every
\* sequence of scripts.
THEOREM StoreConsistent == StoreSpec => []Consistent
<1>1. StoreInit => Consistent
  BY InitConsistent
<1>2. Consistent /\ [StoreNext]_storeVars => Consistent'
  BY StepConsistent
<1> QED
  BY <1>1, <1>2, PTL DEF StoreSpec

\* The matcher, which looks at nothing but the pending index, sees every
\* waiting task and nothing else.
THEOREM PendingIndexCorrect == StoreSpec => []PendingIndexExact
<1>1. Consistent => PendingIndexExact
  BY DEF Consistent
<1> QED
  BY <1>1, StoreConsistent, PTL

\* No task is left on a reservation or an agent that is gone.
THEOREM HeldTasksBacked == StoreSpec => []HeldTaskIsBacked
<1>1. Consistent => HeldTaskIsBacked
  BY DEF Consistent
<1> QED
  BY <1>1, StoreConsistent, PTL

\* An offer that can still be accepted or rejected is its task's current one.
THEOREM OffersCurrent == StoreSpec => []OfferIsCurrent
<1>1. Consistent => OfferIsCurrent
  BY DEF Consistent
<1> QED
  BY <1>1, StoreConsistent, PTL

\* No task is claimed twice, by two agents or by one.
THEOREM NoDoubleBooking == StoreSpec => []ExclusiveClaim
<1>1. Consistent => ExclusiveClaim
  BY DEF Consistent
<1> QED
  BY <1>1, StoreConsistent, PTL

\* The in-flight set of an agent holds its own unresolved reservations only.
THEOREM OffersOwnAndLive == StoreSpec => []OffersAreOwnAndLive
<1>1. Consistent => OffersAreOwnAndLive
  BY DEF Consistent
<1> QED
  BY <1>1, StoreConsistent, PTL

\* A TTL sentinel exists for open offers only.
THEOREM SentinelsOffered == StoreSpec => []SentinelMeansOffered
<1>1. Consistent => SentinelMeansOffered
  BY DEF Consistent
<1> QED
  BY <1>1, StoreConsistent, PTL

---------------------------------------------------------------------------
\* Resolutions.

\* What a step may do to a reservation.
FinalStep ==
    \A r \in Reservations :
         /\ reservation[r].status = "Rejected" =>
                reservation'[r] = reservation[r]
         /\ reservation[r].status = "Accepted" =>
                \/ reservation'[r] = reservation[r]
                \/ /\ reservation'[r].status = "Rejected"
                   /\ Exists(reservation[r].agent)
                   /\ ~Exists(reservation[r].agent)'

\* What each script may do to a reservation that is resolved.
LEMMA StepIsFinal ==
    ASSUME Consistent, [StoreNext]_storeVars
    PROVE  FinalStep
<1>0. TypeOK /\ OffersAreOwnAndLive
  BY DEF Consistent
<1>1. ASSUME NEW a \in Agents, DeleteAgent(a)
      PROVE  FinalStep
  <2> SUFFICES ASSUME NEW r \in Reservations
               PROVE  /\ reservation[r].status = "Rejected" =>
                             reservation'[r] = reservation[r]
                      /\ reservation[r].status = "Accepted" =>
                             \/ reservation'[r] = reservation[r]
                             \/ /\ reservation'[r].status = "Rejected"
                                /\ Exists(reservation[r].agent)
                                /\ ~Exists(reservation[r].agent)'
    BY DEF FinalStep
  <2>1. /\ r \in InFlight(a) =>
              reservation'[r] = Resolved(reservation[r], "Rejected")
        /\ r \notin InFlight(a) => reservation'[r] = reservation[r]
    BY <1>1 DEF DeleteAgent
  <2>2. r \in InFlight(a) => /\ reservation[r].status # "Rejected"
                             /\ reservation[r].agent = a
    BY <1>0 DEF InFlight, OffersAreOwnAndLive
  <2>3. Exists(a) /\ ~Exists(a)'
    BY <1>0, <1>1 DEF DeleteAgent, Exists, AbsentAgent, TypeOK
  <2>4. /\ Resolved(reservation[r], "Rejected").status = "Rejected"
        /\ Resolved(reservation[r], "Rejected").agent = reservation[r].agent
    BY <1>0, ResolvedFacts DEF TypeOK
  <2> QED
    BY <2>1, <2>2, <2>3, <2>4 DEF Exists
<1>2. ASSUME NEW r \in Reservations,
             reservation[r].status \in {"None", "Offered"},
             \A s \in Reservations : s # r => reservation'[s] = reservation[s]
      PROVE  FinalStep
  BY <1>2 DEF FinalStep
<1>3. ASSUME UNCHANGED reservation
      PROVE  FinalStep
  BY <1>3 DEF FinalStep
<1>4. ASSUME NEW a \in Agents, AgentStep(a)
      PROVE  FinalStep
  BY <1>1, <1>3, <1>4 DEF AgentStep, CreateAgent, SetAgentStatus,
         ReplaceAgentQueues, ReplaceCapacity, ToggleChannelReady
<1>5. ASSUME NEW t \in Tasks, TaskStep(t)
      PROVE  FinalStep
  <2>1. ASSUME NEW a \in Agents, NEW r \in Reservations, MatchCommit(a, t, r)
        PROVE  FinalStep
    <3>1. /\ reservation[r].status = "None"
          /\ \A s \in Reservations : s # r => reservation'[s] = reservation[s]
      BY <1>0, <2>1 DEF MatchCommit, TypeOK
    <3> QED
      BY <1>2, <3>1
  <2> QED
    BY <1>3, <1>5, <2>1 DEF TaskStep, EnqueueTask, EndTask, CompleteTask,
           WrapUpTimeout, SetTaskDisposition, StartWrapUpTimer,
           WrapUpKeyExpires
<1>6. ASSUME NEW r \in Reservations, ReservationStep(r)
      PROVE  FinalStep
  <2>1. CASE AcceptReservation(r) \/ RejectReservation(r)
    <3>1. /\ reservation[r].status = "Offered"
          /\ \A s \in Reservations : s # r => reservation'[s] = reservation[s]
      BY <1>0, <2>1 DEF AcceptReservation, RejectReservation, TypeOK
    <3> QED
      BY <1>2, <3>1
  <2>2. CASE ReservationKeyExpires(r)
    BY <1>3, <2>2 DEF ReservationKeyExpires
  <2> QED
    BY <1>6, <2>1, <2>2 DEF ReservationStep
<1> QED
  BY <1>3, <1>4, <1>5, <1>6 DEF StoreNext, storeVars

\* Accept, reject, expiry and deletion race for a reservation, and exactly
\* one of them decides it.
THEOREM ResolutionsFinal == StoreSpec => ResolutionIsFinal
<1>1. Consistent /\ [StoreNext]_storeVars => [FinalStep]_storeVars
  BY StepIsFinal
<1> QED
  BY <1>1, StoreConsistent, PTL DEF StoreSpec, ResolutionIsFinal, FinalStep

---------------------------------------------------------------------------
\* The scripts implement the life of a task.

\* What the mapping rests on besides Consistent: whoever has a reservation
\* in flight is the agent its task names, also when the task is completed.
ClaimNamesAgent ==
    \A a \in Agents : \A r \in offers[a] : task[reservation[r].task].agent = a

\* A task in the queue, or not there yet, has no reservation in flight.
LEMMA WaitingHasNoClaim ==
    ASSUME Consistent, NEW t \in Tasks, task[t].status \in {"Absent", "Pending"}
    PROVE  ~HasClaim(t)
<1> SUFFICES ASSUME NEW a \in Agents, NEW r \in offers[a], reservation[r].task = t
             PROVE  FALSE
  BY DEF HasClaim
<1>1. r \in Reservations
  BY DEF Consistent, TypeOK
<1> QED
  BY <1>1 DEF Consistent, OffersAreOwnAndLive, OfferIsCurrent,
              AcceptedIsCurrentOrDone

\* The same of the state after a step.
LEMMA WaitingHasNoClaimNext ==
    ASSUME Consistent', NEW t \in Tasks,
           task'[t].status \in {"Absent", "Pending"}
    PROVE  ~HasClaim(t)'
<1> SUFFICES ASSUME NEW a \in Agents, NEW r \in offers'[a],
                    reservation'[r].task = t
             PROVE  FALSE
  BY DEF HasClaim
<1>1. r \in Reservations
  BY DEF Consistent, TypeOK
<1> QED
  BY <1>1 DEF Consistent, OffersAreOwnAndLive, OfferIsCurrent,
              AcceptedIsCurrentOrDone

\* A task that is offered, worked on or in wrap-up has one.
LEMMA HeldHasClaim ==
    ASSUME Consistent, NEW t \in Tasks, task[t].status \in HeldStatus
    PROVE  HasClaim(t)
BY DEF Consistent, HeldTaskIsBacked, BackedBy, HasClaim

\* Scripts that put no reservation in flight keep the claims in their
\* agents' names, if a task changes its agent only by going back to the queue.
LEMMA NoNewClaim ==
    ASSUME ClaimNamesAgent, TypeOK, Consistent',
           \A b \in Agents : offers'[b] \subseteq offers[b],
           \A s \in Reservations : reservation'[s].task = reservation[s].task,
           \A u \in Tasks : \/ task'[u].agent = task[u].agent
                            \/ task'[u].status \in {"Absent", "Pending"}
    PROVE  ClaimNamesAgent'
<1> SUFFICES ASSUME NEW b \in Agents, NEW s \in offers'[b]
             PROVE  task'[reservation'[s].task].agent = b
  BY DEF ClaimNamesAgent
<1>1. s \in offers[b] /\ s \in Reservations /\ reservation[s].task \in Tasks
      /\ reservation'[s].task = reservation[s].task
  BY DEF TypeOK, Reservation
<1>2. task[reservation[s].task].agent = b
  BY <1>1 DEF ClaimNamesAgent
<1>3. CASE task'[reservation[s].task].agent = task[reservation[s].task].agent
  BY <1>1, <1>2, <1>3
<1>4. CASE task'[reservation[s].task].status \in {"Absent", "Pending"}
  <2>1. ~HasClaim(reservation[s].task)'
    BY <1>1, <1>4, WaitingHasNoClaimNext
  <2> QED
    BY <1>1, <2>1 DEF HasClaim
<1> QED
  BY <1>1, <1>3, <1>4

\* No script leaves a claim in another agent's name.
LEMMA ClaimStep ==
    ASSUME Consistent, ClaimNamesAgent, Consistent', [StoreNext]_storeVars
    PROVE  ClaimNamesAgent'
<1>0. TypeOK /\ TypeOK' /\ OffersAreOwnAndLive
  BY DEF Consistent
<1>1. ASSUME UNCHANGED <<offers, reservation>>,
             \A u \in Tasks : \/ task'[u].agent = task[u].agent
                              \/ task'[u].status \in {"Absent", "Pending"}
      PROVE  ClaimNamesAgent'
  BY <1>0, <1>1, NoNewClaim
<1>2. ASSUME NEW a \in Agents, AgentStep(a)
      PROVE  ClaimNamesAgent'
  <2>1. CASE DeleteAgent(a)
    <3>1. \A b \in Agents : offers'[b] \subseteq offers[b]
      BY <1>0, <2>1 DEF DeleteAgent, TypeOK
    <3>2. \A s \in Reservations : reservation'[s].task = reservation[s].task
      BY <1>0, <2>1, ResolvedFacts DEF DeleteAgent, TypeOK
    <3>3. \A u \in Tasks : \/ task'[u].agent = task[u].agent
                            \/ task'[u].status \in {"Absent", "Pending"}
      BY <1>0, <2>1, RequeuedFacts DEF DeleteAgent, TypeOK
    <3> QED
      BY <1>0, <3>1, <3>2, <3>3, NoNewClaim
  <2>2. CASE ~DeleteAgent(a)
    BY <1>1, <1>2, <2>2 DEF AgentStep, CreateAgent, SetAgentStatus,
       ReplaceAgentQueues, ReplaceCapacity, ToggleChannelReady, taskVars
  <2> QED
    BY <2>1, <2>2
<1>3. ASSUME NEW t \in Tasks, TaskStep(t)
      PROVE  ClaimNamesAgent'
  <2>0. task[t] \in Task
    BY <1>0 DEF TypeOK
  <2>1. ASSUME NEW q \in Queues, NEW c \in Channels, NEW i \in Times,
               NEW w \in BOOLEAN, EnqueueTask(t, q, c, i, w)
        PROVE  ClaimNamesAgent'
    BY <1>0, <1>1, <2>1 DEF EnqueueTask, agentVars, TypeOK
  <2>2. ASSUME NEW a \in Agents, NEW r \in Reservations, MatchCommit(a, t, r)
        PROVE  ClaimNamesAgent'
    <3> SUFFICES ASSUME NEW b \in Agents, NEW s \in offers'[b]
                 PROVE  task'[reservation'[s].task].agent = b
      BY DEF ClaimNamesAgent
    <3>1. /\ task[t].status = "Pending" /\ reservation[r].status = "None"
          /\ \A u \in Tasks : u # t => task'[u] = task[u]
          /\ \A x \in Reservations : x # r => reservation'[x] = reservation[x]
          /\ reservation'[r].task = t
          /\ offers' = [offers EXCEPT ![a] = @ \cup {r}]
          /\ task'[t] = Reserved(task[t], r, a)
      BY <1>0, <2>2 DEF MatchCommit, MatchGates, TypeOK
    <3>2. task'[t].agent = a
      BY <2>0, <3>1, ReservedFacts
    <3>3. \A x \in Agents : r \notin offers[x]
      BY <1>0, <3>1 DEF OffersAreOwnAndLive
    <3>4. CASE s = r
      <4>1. b = a
        BY <1>0, <3>1, <3>3, <3>4 DEF TypeOK
      <4> QED
        BY <3>1, <3>2, <3>4, <4>1
    <3>5. CASE s # r
      <4>1. s \in offers[b] /\ s \in Reservations /\ reservation[s].task \in Tasks
        BY <1>0, <3>1, <3>5 DEF TypeOK, Reservation
      <4>2. reservation[s].task # t
        BY <3>1, <4>1, WaitingHasNoClaim DEF HasClaim
      <4> QED
        BY <3>1, <3>5, <4>1, <4>2 DEF ClaimNamesAgent
    <3> QED
      BY <3>4, <3>5
  <2>3. ASSUME NEW k, EndTask(t, k)
        PROVE  ClaimNamesAgent'
    BY <1>0, <1>1, <2>0, <2>3, InStatusFacts DEF EndTask, TypeOK, TaskStatus
  <2>4. ASSUME NEW k, CompleteTask(t, k)
        PROVE  ClaimNamesAgent'
    <3>1. \A b \in Agents : offers'[b] \subseteq offers[b]
      BY <1>0, <2>4 DEF CompleteTask, KeyIsLive, TypeOK
    <3>2. UNCHANGED reservation /\ \A u \in Tasks : task'[u].agent = task[u].agent
      BY <1>0, <2>0, <2>4, CompletedFacts DEF CompleteTask, TypeOK
    <3> QED
      BY <1>0, <3>1, <3>2, NoNewClaim
  <2>5. ASSUME NEW d \in Dispositions, SetTaskDisposition(t, d)
        PROVE  ClaimNamesAgent'
    BY <1>0, <1>1, <2>0, <2>5, TaggedFacts
    DEF SetTaskDisposition, agentVars, TypeOK
  <2>6. ASSUME UNCHANGED <<offers, reservation, task>>
        PROVE  ClaimNamesAgent'
    BY <1>1, <2>6
  <2> QED
    BY <1>3, <2>1, <2>2, <2>3, <2>4, <2>5, <2>6 DEF TaskStep, WrapUpTimeout,
       StartWrapUpTimer, WrapUpKeyExpires, agentVars, taskVars
<1>4. ASSUME NEW r \in Reservations, ReservationStep(r)
      PROVE  ClaimNamesAgent'
  <2>0. reservation[r] \in Reservation /\ reservation[r].task \in Tasks
        /\ task[reservation[r].task] \in Task
    BY <1>0 DEF TypeOK, Reservation
  <2>1. CASE AcceptReservation(r)
    <3>1. /\ UNCHANGED offers
          /\ \A s \in Reservations : reservation'[s].task = reservation[s].task
      BY <1>0, <2>0, <2>1, ResolvedFacts DEF AcceptReservation, agentVars, TypeOK
    <3>2. \A u \in Tasks : task'[u].agent = task[u].agent
      BY <1>0, <2>0, <2>1, InStatusFacts
      DEF AcceptReservation, TypeOK, TaskStatus
    <3> QED
      BY <1>0, <3>1, <3>2, NoNewClaim
  <2>2. CASE RejectReservation(r)
    <3>1. /\ \A b \in Agents : offers'[b] \subseteq offers[b]
          /\ \A s \in Reservations : reservation'[s].task = reservation[s].task
      BY <1>0, <2>0, <2>2, ResolvedFacts DEF RejectReservation, TypeOK
    <3>2. \A u \in Tasks : \/ task'[u].agent = task[u].agent
                            \/ task'[u].status \in {"Absent", "Pending"}
      BY <1>0, <2>0, <2>2, RequeuedFacts DEF RejectReservation, TypeOK
    <3> QED
      BY <1>0, <3>1, <3>2, NoNewClaim
  <2>3. CASE ReservationKeyExpires(r)
    BY <1>1, <2>3 DEF ReservationKeyExpires, taskVars, agentVars
  <2> QED
    BY <1>4, <2>1, <2>2, <2>3 DEF ReservationStep
<1>5. CASE UNCHANGED storeVars
  BY <1>1, <1>5 DEF storeVars
<1> QED
  BY <1>2, <1>3, <1>4, <1>5 DEF StoreNext

\* A script that moves one task, keeps the claims on the others and removes
\* no agent is a move of that task under the refinement mapping.
LEMMA MoveMaps ==
    ASSUME TypeOK, TypeOK', NEW t \in Tasks,
           \A u \in Tasks : u # t => /\ task'[u] = task[u]
                                     /\ HasClaim(u)' <=> HasClaim(u),
           \A a \in Agents : Exists(a)' <=> Exists(a)
    PROVE  /\ stageBar' = [stageBar EXCEPT ![t] = task'[t].status]
           /\ holderBar' = [holderBar EXCEPT ![t] =
                  IF HasClaim(t)' THEN task'[t].agent ELSE NoAgent]
           /\ rosterBar' = rosterBar
           /\ stageBar[t] = task[t].status
           /\ holderBar[t] = IF HasClaim(t) THEN task[t].agent ELSE NoAgent
<1>1. rosterBar' = rosterBar
  BY DEF rosterBar
<1>2. stageBar' = [stageBar EXCEPT ![t] = task'[t].status]
  BY DEF stageBar
<1>3. holderBar' = [holderBar EXCEPT ![t] =
                  IF HasClaim(t)' THEN task'[t].agent ELSE NoAgent]
  BY DEF holderBar
<1> QED
  BY <1>1, <1>2, <1>3 DEF stageBar, holderBar

\* A script that changes no task's status, agent or claim and removes or adds
\* no agent is invisible under it.
LEMMA StutterMaps ==
    ASSUME \A u \in Tasks : /\ task'[u].status = task[u].status
                            /\ task'[u].agent = task[u].agent
                            /\ HasClaim(u)' <=> HasClaim(u),
           \A a \in Agents : Exists(a)' <=> Exists(a)
    PROVE  UNCHANGED <<stageBar, holderBar, rosterBar>>
BY DEF stageBar, holderBar, rosterBar

\* Scripts that write no in-flight set keep every claim, as reservations do
\* not change their task.
LEMMA SameClaim ==
    ASSUME TypeOK, UNCHANGED offers,
           \A s \in Reservations : reservation'[s].task = reservation[s].task
    PROVE  \A u \in Tasks : HasClaim(u)' <=> HasClaim(u)
BY DEF HasClaim, TypeOK

\* delete_agent returns what the agent has in flight, and nothing else.
LEMMA DeleteAgentLeaves ==
    ASSUME Consistent, ClaimNamesAgent, Consistent',
           NEW a \in Agents, DeleteAgent(a)
    PROVE  Lifecycle!Leave(a)
<1> DEFINE returned == {t \in Tasks : holderBar[t] = a}
           requeued == {reservation[r].task : r \in InFlight(a)}
<1>0. TypeOK /\ TypeOK' /\ ExclusiveClaim /\ OffersAreOwnAndLive
  BY DEF Consistent
<1>1. InFlight(a) = offers[a]
  BY <1>0 DEF InFlight, OffersAreOwnAndLive
<1>2. \A t : t \in requeued <=> \E r \in offers[a] : reservation[r].task = t
  BY <1>1
<1>3. \A t \in Tasks : task'[t] = IF t \in requeued THEN Requeued(task[t])
                                  ELSE task[t]
  BY <1>0 DEF DeleteAgent
<1> HIDE DEF requeued
<1>4. ASSUME NEW t \in Tasks
      PROVE  t \in requeued <=> holderBar[t] = a
  <2>1. ASSUME t \in requeued
        PROVE  holderBar[t] = a
    <3>1. PICK r \in offers[a] : reservation[r].task = t
      BY <1>2, <2>1
    <3>2. HasClaim(t) /\ task[t].agent = a
      BY <3>1 DEF HasClaim, ClaimNamesAgent
    <3> QED
      BY <3>2 DEF holderBar
  <2>2. ASSUME holderBar[t] = a
        PROVE  t \in requeued
    <3>1. HasClaim(t) /\ task[t].agent = a
      BY <2>2, RouterConstants DEF holderBar
    <3>2. PICK b \in Agents : \E r \in offers[b] : reservation[r].task = t
      BY <3>1 DEF HasClaim
    <3>3. b = a
      BY <3>1, <3>2 DEF ClaimNamesAgent
    <3> QED
      BY <1>2, <3>2, <3>3
  <2> QED
    BY <2>1, <2>2
<1>5. \A t \in Tasks : t \in returned <=> t \in requeued
  BY <1>4
<1>6. ASSUME NEW t \in Tasks, t \in returned
      PROVE  task'[t].status = "Pending" /\ ~HasClaim(t)'
  <2>1. task'[t].status = "Pending"
    BY <1>0, <1>3, <1>5, <1>6, RequeuedFacts DEF TypeOK
  <2> QED
    BY <2>1, WaitingHasNoClaimNext
<1>7. ASSUME NEW t \in Tasks, t \notin returned
      PROVE  task'[t] = task[t] /\ (HasClaim(t)' <=> HasClaim(t))
  <2>1. t \notin requeued
    BY <1>5, <1>7
  <2>2. \A r \in offers[a] : reservation[r].task # t
    BY <1>2, <2>1
  <2>3. offers' = [offers EXCEPT ![a] = {}]
    BY DEF DeleteAgent
  <2>4. \A r \in Reservations : reservation'[r].task = reservation[r].task
    BY <1>0, ResolvedFacts DEF DeleteAgent, TypeOK
  <2>5. HasClaim(t)' <=> HasClaim(t)
    BY <1>0, <2>2, <2>3, <2>4 DEF HasClaim, TypeOK
  <2> QED
    BY <1>3, <2>1, <2>5
<1> HIDE DEF returned
<1>8. stageBar' = [t \in Tasks |-> IF t \in returned THEN "Pending"
                                  ELSE stageBar[t]]
  BY <1>6, <1>7 DEF stageBar
<1>9. holderBar' = [t \in Tasks |-> IF t \in returned THEN NoAgent
                                   ELSE holderBar[t]]
  BY <1>6, <1>7 DEF holderBar
<1>10. /\ Exists(a) /\ ~Exists(a)'
       /\ \A b \in Agents : b # a => (Exists(b)' <=> Exists(b))
  BY <1>0 DEF DeleteAgent, Exists, TypeOK, AbsentAgent
<1>11. a \in rosterBar /\ rosterBar' = rosterBar \ {a}
  BY <1>10 DEF rosterBar
<1> QED
  BY <1>8, <1>9, <1>11 DEF Lifecycle!Leave, returned

\* complete_task takes the task's own reservation out of the in-flight set
\* of the agent behind its key, or leaves it in flight.
LEMMA CompleteMaps ==
    ASSUME Consistent, Consistent', NEW t \in Tasks, NEW k, CompleteTask(t, k)
    PROVE  Lifecycle!Complete(t) \/ Lifecycle!CompleteForAnother(t)
<1>0. TypeOK /\ TypeOK' /\ HeldTaskIsBacked
  BY DEF Consistent
<1>1. /\ task[t].status \in {"Active", "WrapUp"}
      /\ \A u \in Tasks : u # t => task'[u] = task[u]
      /\ task'[t] = Completed(task[t])
      /\ UNCHANGED reservation
  BY <1>0 DEF CompleteTask, TypeOK
<1>2. task'[t].status = "Completed" /\ task'[t].agent = task[t].agent
  BY <1>0, <1>1, CompletedFacts DEF TypeOK
<1>3. \A b \in Agents : Exists(b)' <=> Exists(b)
  BY <1>0, SetStatusOfKeyFacts DEF CompleteTask, AgentStatus
<1>4. reservation[task[t].res].task = t
  BY <1>0, <1>1 DEF HeldTaskIsBacked, BackedBy, HeldStatus
<1>5. \A b \in Agents : \/ offers'[b] = offers[b]
                         \/ offers'[b] = offers[b] \ {task[t].res}
  BY <1>0 DEF CompleteTask, KeyIsLive, TypeOK
<1>6. \A u \in Tasks : u # t => (HasClaim(u)' <=> HasClaim(u))
  BY <1>1, <1>4, <1>5 DEF HasClaim
<1>7. HasClaim(t)
  BY <1>1, HeldHasClaim DEF HeldStatus
<1>8. CASE HasClaim(t)'
  BY <1>0, <1>1, <1>2, <1>3, <1>6, <1>7, <1>8, MoveMaps
  DEF Lifecycle!CompleteForAnother, Lifecycle!Move
<1>9. CASE ~HasClaim(t)'
  BY <1>0, <1>1, <1>2, <1>3, <1>6, <1>9, MoveMaps
  DEF Lifecycle!Complete, Lifecycle!Move
<1> QED
  BY <1>8, <1>9

\* Every script is one step of the abstract life of a task, or is invisible
\* to it.
LEMMA LifecycleStep ==
    ASSUME Consistent, ClaimNamesAgent, Consistent', [StoreNext]_storeVars
    PROVE  Lifecycle!Next \/ UNCHANGED <<stageBar, holderBar, rosterBar>>
<1>0. TypeOK /\ TypeOK' /\ OfferIsCurrent
  BY DEF Consistent
<1> DEFINE Stutter == UNCHANGED <<stageBar, holderBar, rosterBar>>
<1>1. ASSUME UNCHANGED <<task, offers, reservation>>,
             \A a \in Agents : Exists(a)' <=> Exists(a)
      PROVE  Stutter
  <2>1. \A u \in Tasks : HasClaim(u)' <=> HasClaim(u)
    BY <1>0, <1>1, SameClaim
  <2> QED
    BY <1>1, <2>1, StutterMaps
<1>2. ASSUME NEW a \in Agents, AgentStep(a)
      PROVE  Lifecycle!Next \/ Stutter
  <2>1. ASSUME NEW s \in RequestStatus, NEW Q \in SUBSET Queues,
               NEW req \in CapacityRequests, CreateAgent(a, s, Q, req)
        PROVE  Lifecycle!Next
    <3>1. s # "Absent"
      BY RouterConstants DEF AgentStatus
    <3>2. /\ ~Exists(a) /\ Exists(a)'
          /\ \A b \in Agents : b # a => (Exists(b)' <=> Exists(b))
          /\ UNCHANGED <<task, offers, reservation>>
      BY <1>0, <2>1, <3>1 DEF CreateAgent, Exists, TypeOK, taskVars
    <3>3. UNCHANGED <<stageBar, holderBar>>
      BY <3>2 DEF stageBar, holderBar, HasClaim
    <3>4. a \notin rosterBar /\ rosterBar' = rosterBar \cup {a}
      BY <3>2 DEF rosterBar
    <3>5. Lifecycle!Join(a)
      BY <3>3, <3>4 DEF Lifecycle!Join
    <3> QED
      BY <3>5 DEF Lifecycle!Next
  <2>2. CASE DeleteAgent(a)
    BY <2>2, DeleteAgentLeaves DEF Lifecycle!Next
  <2>3. ASSUME NEW s \in RequestStatus, SetAgentStatus(a, s)
        PROVE  Stutter
    <3>1. s # "Absent"
      BY RouterConstants DEF AgentStatus
    <3> QED
      BY <1>0, <1>1, <2>3, <3>1 DEF SetAgentStatus, Exists, TypeOK, taskVars, Agent
  <2>4. ASSUME NEW Q \in SUBSET Queues, ReplaceAgentQueues(a, Q)
        PROVE  Stutter
    BY <1>0, <1>1, <2>4 DEF ReplaceAgentQueues, Exists, TypeOK, taskVars, Agent
  <2>5. ASSUME UNCHANGED <<agent, task, offers, reservation>>
        PROVE  Stutter
    BY <1>1, <2>5 DEF Exists
  <2> QED
    BY <1>2, <2>1, <2>2, <2>3, <2>4, <2>5
    DEF AgentStep, ReplaceCapacity, ToggleChannelReady, taskVars
<1>3. ASSUME NEW t \in Tasks, TaskStep(t)
      PROVE  Lifecycle!Next \/ Stutter
  <2>0. task[t] \in Task /\ task'[t] \in Task
    BY <1>0 DEF TypeOK
  <2>1. ASSUME NEW q \in Queues, NEW c \in Channels, NEW i \in Times,
               NEW w \in BOOLEAN, EnqueueTask(t, q, c, i, w)
        PROVE  Lifecycle!Enqueue(t)
    <3>1. /\ task[t].status = "Absent" /\ task'[t].status = "Pending"
          /\ \A u \in Tasks : u # t => task'[u] = task[u]
          /\ \A a \in Agents : Exists(a)' <=> Exists(a)
          /\ UNCHANGED <<offers, reservation>>
      BY <1>0, <2>1 DEF EnqueueTask, agentVars, TypeOK, Exists
    <3>2. ~HasClaim(t)' /\ \A u \in Tasks : HasClaim(u)' <=> HasClaim(u)
      BY <1>0, <3>1, SameClaim, WaitingHasNoClaimNext
    <3> QED
      BY <1>0, <3>1, <3>2, MoveMaps DEF Lifecycle!Enqueue, Lifecycle!Move
  <2>2. ASSUME NEW a \in Agents, NEW r \in Reservations, MatchCommit(a, t, r)
        PROVE  Lifecycle!Offer(t, a)
    <3>1. /\ task[t].status = "Pending"
          /\ \A u \in Tasks : u # t => task'[u] = task[u]
          /\ \A b \in Agents : Exists(b)' <=> Exists(b)
          /\ Exists(a)
      BY <1>0, <2>2 DEF MatchCommit, MatchGates, AgentCanTake, TypeOK, Exists
    <3>2. task'[t].status = "Reserved" /\ task'[t].agent = a
      BY <1>0, <2>2, ReservedFacts DEF MatchCommit, TypeOK
    <3>3. a \in rosterBar
      BY <3>1 DEF rosterBar
    <3>4. /\ reservation[r].status = "None"
          /\ \A s \in Reservations : s # r => reservation'[s] = reservation[s]
          /\ reservation'[r].task = t
          /\ offers' = [offers EXCEPT ![a] = @ \cup {r}]
      BY <1>0, <2>2 DEF MatchCommit, TypeOK
    <3>5. \A b \in Agents : r \notin offers[b]
      BY <3>4 DEF Consistent, OffersAreOwnAndLive
    <3>6. \A u \in Tasks : u # t => (HasClaim(u)' <=> HasClaim(u))
      BY <1>0, <3>4, <3>5 DEF HasClaim, TypeOK
    <3>7. HasClaim(t)'
      BY <1>0, <3>4 DEF HasClaim, TypeOK
    <3> QED
      BY <1>0, <3>1, <3>2, <3>3, <3>6, <3>7, MoveMaps
      DEF Lifecycle!Offer, Lifecycle!Move
  <2>3. ASSUME NEW k, EndTask(t, k)
        PROVE  Lifecycle!Next
    <3>1. /\ task[t].status = "Active" /\ UNCHANGED <<offers, reservation>>
          /\ \A u \in Tasks : u # t => task'[u] = task[u]
          /\ task'[t] = InStatus(task[t], "WrapUp")
      BY <1>0, <2>3 DEF EndTask, TypeOK
    <3>2. task'[t].status = "WrapUp" /\ task'[t].agent = task[t].agent
      BY <2>0, <3>1, InStatusFacts DEF TaskStatus
    <3>3. \A b \in Agents : Exists(b)' <=> Exists(b)
      BY <1>0, <2>3, SetStatusOfKeyFacts DEF EndTask, AgentStatus
    <3>4. HasClaim(t) /\ \A u \in Tasks : HasClaim(u)' <=> HasClaim(u)
      BY <1>0, <3>1, SameClaim, HeldHasClaim DEF HeldStatus
    <3>5. Lifecycle!End(t)
      BY <1>0, <3>1, <3>2, <3>3, <3>4, MoveMaps
      DEF Lifecycle!End, Lifecycle!Move
    <3> QED
      BY <3>5 DEF Lifecycle!Next
  <2>4. ASSUME NEW k, CompleteTask(t, k)
        PROVE  Lifecycle!Next
    BY <2>4, CompleteMaps DEF Lifecycle!Next
  <2>5. ASSUME NEW k, WrapUpTimeout(t, k)
        PROVE  Stutter
    <3>1. \A b \in Agents : Exists(b)' <=> Exists(b)
      BY <1>0, <2>5, SetStatusOfKeyFacts DEF WrapUpTimeout, AgentStatus
    <3> QED
      BY <1>1, <2>5, <3>1 DEF WrapUpTimeout, taskVars
  <2>6. ASSUME NEW d \in Dispositions, SetTaskDisposition(t, d)
        PROVE  Stutter
    <3>1. \A u \in Tasks : /\ task'[u].status = task[u].status
                           /\ task'[u].agent = task[u].agent
      BY <1>0, <2>6, TaggedFacts DEF SetTaskDisposition, TypeOK
    <3>2. /\ \A b \in Agents : Exists(b)' <=> Exists(b)
          /\ UNCHANGED <<offers, reservation>>
      BY <2>6 DEF SetTaskDisposition, agentVars, Exists
    <3>3. \A u \in Tasks : HasClaim(u)' <=> HasClaim(u)
      BY <1>0, <3>2, SameClaim
    <3> QED
      BY <3>1, <3>2, <3>3, StutterMaps
  <2>7. CASE StartWrapUpTimer(t) \/ WrapUpKeyExpires(t)
    BY <1>1, <2>7 DEF StartWrapUpTimer, WrapUpKeyExpires, taskVars, agentVars,
       Exists
  <2>8. (\E a \in Agents : Lifecycle!Offer(t, a)) \/ Lifecycle!Enqueue(t) =>
            Lifecycle!Next
    BY DEF Lifecycle!Next
  <2> QED
    BY <1>3, <2>1, <2>2, <2>3, <2>4, <2>5, <2>6, <2>7, <2>8 DEF TaskStep
<1>4. ASSUME NEW r \in Reservations, ReservationStep(r)
      PROVE  Lifecycle!Next \/ Stutter
  <2>0. PICK t \in Tasks : t = reservation[r].task /\ task[t] \in Task
    BY <1>0 DEF TypeOK, Reservation
  <2>1. CASE AcceptReservation(r)
    <3>1. /\ task[t].status = "Reserved"
          /\ \A u \in Tasks : u # t => task'[u] = task[u]
          /\ task'[t] = InStatus(task[t], "Active")
          /\ \A b \in Agents : Exists(b)' <=> Exists(b)
      BY <1>0, <2>0, <2>1
      DEF AcceptReservation, OfferIsCurrent, TypeOK, agentVars, Exists
    <3>a. /\ UNCHANGED offers
          /\ \A s \in Reservations : reservation'[s].task = reservation[s].task
      BY <1>0, <2>1, ResolvedFacts DEF AcceptReservation, agentVars, TypeOK
    <3>b. HasClaim(t) /\ \A u \in Tasks : HasClaim(u)' <=> HasClaim(u)
      BY <1>0, <2>0, <3>1, <3>a, SameClaim, HeldHasClaim DEF HeldStatus
    <3>2. task'[t].status = "Active" /\ task'[t].agent = task[t].agent
      BY <2>0, <3>1, InStatusFacts DEF TaskStatus
    <3>3. Lifecycle!Accept(t)
      BY <1>0, <2>0, <3>1, <3>b, <3>2, MoveMaps
      DEF Lifecycle!Accept, Lifecycle!Move
    <3> QED
      BY <2>0, <3>3 DEF Lifecycle!Next
  <2>2. CASE RejectReservation(r)
    <3>1. /\ task[t].status = "Reserved"
          /\ \A u \in Tasks : u # t => task'[u] = task[u]
          /\ task'[t] = Requeued(task[t])
      BY <1>0, <2>0, <2>2 DEF RejectReservation, OfferIsCurrent, TypeOK
    <3>2. task'[t].status = "Pending"
      BY <2>0, <3>1, RequeuedFacts
    <3>3. \A b \in Agents : Exists(b)' <=> Exists(b)
      <4>1. reservation[r].agent \in Agents /\ agent \in [Agents -> Agent]
        BY <1>0 DEF TypeOK, Reservation
      <4>2. agent' = IF agent[reservation[r].agent].status # "Absent"
                     THEN [agent EXCEPT ![reservation[r].agent].status =
                                            "Not Responding"]
                     ELSE agent
        BY <2>2 DEF RejectReservation, Exists
      <4> QED
        BY <4>1, <4>2 DEF Exists, Agent
    <3>4. /\ \A s \in Reservations : reservation'[s].task = reservation[s].task
          /\ \A b \in Agents : \/ offers'[b] = offers[b]
                                \/ offers'[b] = offers[b] \ {r}
      BY <1>0, <2>2, ResolvedFacts DEF RejectReservation, TypeOK
    <3>5. \A u \in Tasks : u # t => (HasClaim(u)' <=> HasClaim(u))
      BY <1>0, <2>0, <3>4 DEF HasClaim, TypeOK
    <3>6. ~HasClaim(t)'
      BY <2>0, <3>2, WaitingHasNoClaimNext
    <3>7. Lifecycle!Decline(t)
      BY <1>0, <2>0, <3>1, <3>2, <3>3, <3>5, <3>6, MoveMaps
      DEF Lifecycle!Decline, Lifecycle!Move
    <3> QED
      BY <2>0, <3>7 DEF Lifecycle!Next
  <2>3. CASE ReservationKeyExpires(r)
    BY <1>1, <2>3 DEF ReservationKeyExpires, taskVars, agentVars, Exists
  <2> QED
    BY <1>4, <2>1, <2>2, <2>3 DEF ReservationStep
<1>5. CASE UNCHANGED storeVars
  BY <1>1, <1>5 DEF storeVars, Exists
<1> QED
  BY <1>2, <1>3, <1>4, <1>5 DEF StoreNext

\* The empty store is the start of every life.
LEMMA LifecycleInit == StoreInit => Lifecycle!Init /\ ClaimNamesAgent
<1> SUFFICES ASSUME StoreInit PROVE Lifecycle!Init /\ ClaimNamesAgent
  OBVIOUS
<1>1. \A t \in Tasks : task[t].status = "Absent" /\ ~HasClaim(t)
  BY DEF StoreInit, UnknownTask, HasClaim
<1>2. stageBar = [t \in Tasks |-> "Absent"] /\ holderBar = [t \in Tasks |-> NoAgent]
  BY <1>1 DEF stageBar, holderBar
<1>3. rosterBar = {}
  BY DEF StoreInit, rosterBar, Exists, AbsentAgent
<1>4. ClaimNamesAgent
  BY DEF StoreInit, ClaimNamesAgent
<1> QED
  BY <1>2, <1>3, <1>4 DEF Lifecycle!Init

\* The scripts implement the abstract life of a task, whichever agent key
\* complete_task, end_task and wrap_up_timeout are handed: one holder at a
\* time, all of an agent's in-flight work returned when it is deleted, and a
\* completed task back in the queue only when it was completed under the key
\* of another agent and its own is deleted.
THEOREM StoreImplementsLifecycle == StoreSpec => ImplementsLifecycle
<1>1. /\ Consistent /\ ClaimNamesAgent /\ Consistent' /\ [StoreNext]_storeVars
      => /\ ClaimNamesAgent'
         /\ [Lifecycle!Next]_<<stageBar, holderBar, rosterBar>>
  BY ClaimStep, LifecycleStep
<1> QED
  BY <1>1, LifecycleInit, StoreConsistent, PTL
  DEF StoreSpec, ImplementsLifecycle, Lifecycle!Spec, Lifecycle!lifecycleVars
=============================================================================
