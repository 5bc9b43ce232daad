---------------------------- MODULE RouterStore ----------------------------
(***************************************************************************)
(* The live routing state that the task router keeps in Redis for one      *)
(* tenant, and the Lua scripts that change it.  Redis runs a script as one *)
(* indivisible step, so each script is one action.  Every key carries the  *)
(* tenant's prefix: tenants share no state and one is modelled.            *)
(*                                                                         *)
(* complete_task, end_task and wrap_up_timeout are handed the key of the   *)
(* agent hash by Go code that read the task BEFORE the script runs.  The   *)
(* actions take that key as the parameter k; StaleKeys says whether it may *)
(* differ from the task's agent at the time the script runs.               *)
(***************************************************************************)
EXTENDS Integers, FiniteSets

\* "Offline" stands for every registered status routing does not name.
AgentStatus == {"Available", "Not Responding", "WrapUp", "Offline"}

CONSTANTS
    Agents, Tasks, Queues, Channels, Dispositions,
    Reservations,   \* ids nextID can hand out (a bound on the matches made)
    Times,          \* enqueuedAtMicros values, the scores of the pending index
    Maxes,          \* values of max in a capacity request: any int32
    RequestActive,  \* values of active in a create request: any int32
    RequestStatus,  \* statuses clients ask for
    NoAgent,        \* the empty assignedAgentId; as a key, "__none__"
    NoReservation,  \* the empty currentReservationId
    NoDisposition,
    StaleKeys       \* may the key read by Go be out of date?

ASSUME RouterConstants ==
    /\ NoAgent \notin Agents
    /\ NoReservation \notin Reservations
    /\ NoDisposition \notin Dispositions
    /\ Times \subseteq Nat
    /\ Maxes \subseteq Int
    /\ RequestActive \subseteq Int
    /\ RequestStatus \subseteq AgentStatus
    /\ StaleKeys \in BOOLEAN
    /\ {} \notin {Agents, Tasks, Queues, Channels, Times}

VARIABLES
    agent,        \* agent hash: master status and queue memberships
    capacity,     \* agent hash: the cap:<channel> fields
    offers,       \* agentOffers set: the agent's in-flight reservations
    task,         \* task hash
    pending,      \* the pending index
    reservation,  \* reservation hash
    resexp,       \* reservations whose TTL sentinel key exists
    wrapupexp     \* tasks whose wrap-up timer sentinel key exists

agentVars == <<agent, capacity, offers>>
taskVars == <<task, pending>>
storeVars == <<agent, capacity, offers, task, pending, reservation, resexp,
               wrapupexp>>

---------------------------------------------------------------------------
\* Records and their "no such key" values.

Agent == [status: AgentStatus \cup {"Absent"}, queues: SUBSET Queues]
AbsentAgent == [status |-> "Absent", queues |-> {}]
Exists(a) == agent[a].status # "Absent"

\* ready and interruptible are stored but no code path reads them.  A create
\* request may bring an active count of its own, which is stored as it is,
\* below zero too; declared remembers it for the properties, and no action
\* reads it.  The scripts themselves never take a count below zero.
Capacity == {cap \in [exists: BOOLEAN, max: Int, active: Int, declared: Int] :
                cap.active < 0 => cap.declared < 0}
Channel(max, active, declared) ==
    [exists |-> TRUE, max |-> max, active |-> active, declared |-> declared]
NoChannel == [exists |-> FALSE, max |-> 0, active |-> 0, declared |-> 0]
NoCapacity == [c \in Channels |-> NoChannel]

TaskStatus == {"Pending", "Reserved", "Active", "WrapUp", "Completed"}
HeldStatus == {"Reserved", "Active", "WrapUp"}
Task == [status: TaskStatus \cup {"Absent"}, queue: Queues, type: Channels,
         at: Times, timer: BOOLEAN, res: Reservations \cup {NoReservation},
         agent: Agents \cup {NoAgent},
         disposition: Dispositions \cup {NoDisposition}]
\* A task id not enqueued yet; its other fields are not read.
UnknownTask == [status |-> "Absent", queue |-> CHOOSE q \in Queues : TRUE,
                type |-> CHOOSE c \in Channels : TRUE,
                at |-> CHOOSE i \in Times : TRUE, timer |-> FALSE,
                res |-> NoReservation, agent |-> NoAgent,
                disposition |-> NoDisposition]

Reservation == [status: {"None", "Offered", "Accepted", "Rejected"},
                task: Tasks, agent: Agents]
\* A reservation id not handed out yet; its other fields are not read.
UnusedReservation == [status |-> "None", task |-> CHOOSE t \in Tasks : TRUE,
                      agent |-> CHOOSE a \in Agents : TRUE]

TypeOK ==
    /\ agent \in [Agents -> Agent]
    /\ capacity \in [Agents -> [Channels -> Capacity]]
    /\ offers \in [Agents -> SUBSET Reservations]
    /\ task \in [Tasks -> Task]
    /\ pending \in SUBSET Tasks
    /\ reservation \in [Reservations -> Reservation]
    /\ resexp \in SUBSET Reservations
    /\ wrapupexp \in SUBSET Tasks

StoreInit ==
    /\ agent = [a \in Agents |-> AbsentAgent]
    /\ capacity = [a \in Agents |-> NoCapacity]
    /\ offers = [a \in Agents |-> {}]
    /\ task = [t \in Tasks |-> UnknownTask]
    /\ pending = {}
    /\ reservation = [r \in Reservations |-> UnusedReservation]
    /\ resexp = {}
    /\ wrapupexp = {}

---------------------------------------------------------------------------
\* Helpers shared by the scripts.

\* agent_can_take: presence, queue membership, channel, headroom.
AgentCanTake(ag, cap, tk) ==
    /\ ag.status = "Available"
    /\ tk.queue \in ag.queues
    /\ cap[tk.type].exists
    /\ cap[tk.type].active < cap[tk.type].max

\* capacityWithDefaults: a requested max of 0 means the default of 1.  No
\* other value is refused or changed, active included.
WithDefault(max) == IF max = 0 THEN 1 ELSE max

\* A capacity map in a request: any set of channels, each with its fields.
CapacityRequests ==
    UNION {[C -> [max: Maxes, active: RequestActive]] : C \in SUBSET Channels}

\* Variants named Bug... are faults the properties must detect: each is a
\* version of the definition after it with a mistake this code could have.
BugNoFloor(cap, c) ==
    IF cap[c].exists THEN [cap EXCEPT ![c].active = @ - 1] ELSE cap
BugNoRelease(cap, c) == cap

\* Give one slot back: floor at 0, and only if the channel is still there.
Released(cap, c) ==
    IF cap[c].exists /\ cap[c].active > 0
    THEN [cap EXCEPT ![c].active = @ - 1]
    ELSE cap

\* Take one slot.
Claimed(cap, c) == [cap EXCEPT ![c].active = @ + 1]

\* What the scripts write to a task hash.  A task that goes back to the
\* queue keeps its enqueue time and its disposition; a completed one keeps
\* assignedAgentId.
InStatus(tk, status) == [tk EXCEPT !.status = status]
Reserved(tk, r, a) ==
    [tk EXCEPT !.status = "Reserved", !.res = r, !.agent = a]
Requeued(tk) ==
    [tk EXCEPT !.status = "Pending", !.res = NoReservation, !.agent = NoAgent]
Completed(tk) == [tk EXCEPT !.status = "Completed", !.res = NoReservation]

\* What they write to a reservation hash.
Resolved(rec, status) == [rec EXCEPT !.status = status]

---------------------------------------------------------------------------
\* Agents.

CreateAgent(a, status, queues, request) ==
    /\ ~Exists(a)
    /\ agent' = [agent EXCEPT ![a] = [status |-> status, queues |-> queues]]
    /\ capacity' = [capacity EXCEPT ![a] =
           [c \in Channels |->
               IF c \in DOMAIN request
               THEN Channel(WithDefault(request[c].max), request[c].active,
                            request[c].active)
               ELSE NoChannel]]
    /\ UNCHANGED <<offers, taskVars, reservation, resexp, wrapupexp>>

SetAgentStatus(a, status) ==
    /\ Exists(a)
    /\ agent' = [agent EXCEPT ![a].status = status]
    /\ UNCHANGED <<capacity, offers, taskVars, reservation, resexp, wrapupexp>>

ReplaceAgentQueues(a, queues) ==
    /\ Exists(a)
    /\ agent' = [agent EXCEPT ![a].queues = queues]
    /\ UNCHANGED <<capacity, offers, taskVars, reservation, resexp, wrapupexp>>

\* A retained channel keeps its active count, a new one starts at 0, a
\* channel the request omits is dropped.
ReplaceCapacity(a, request) ==
    /\ Exists(a)
    /\ capacity' = [capacity EXCEPT ![a] =
           [c \in Channels |->
               IF c \in DOMAIN request
               THEN Channel(WithDefault(request[c].max),
                            IF capacity[a][c].exists
                            THEN capacity[a][c].active ELSE 0,
                            capacity[a][c].declared)
               ELSE NoChannel]]
    /\ UNCHANGED <<agent, offers, taskVars, reservation, resexp, wrapupexp>>

\* Only the case that changes more than the ready flag is visible here: a
\* channel the agent lacks is created with the default max of 1.
ToggleChannelReady(a, c) ==
    /\ Exists(a)
    /\ ~capacity[a][c].exists
    /\ capacity' = [capacity EXCEPT ![a][c] = Channel(1, 0, 0)]
    /\ UNCHANGED <<agent, offers, taskVars, reservation, resexp, wrapupexp>>

BugOfferedOnly(a) == {r \in offers[a] : reservation[r].status = "Offered"}

\* Every in-flight reservation of the agent is rejected and its task goes
\* back to the pending index.  The wrap-up sentinel of the task is left.
InFlight(a) == {r \in offers[a] :
                   reservation[r].status \in {"Offered", "Accepted"}}
DeleteAgent(a) ==
    LET requeued == {reservation[r].task : r \in InFlight(a)}
    IN  /\ Exists(a)
        /\ agent' = [agent EXCEPT ![a] = AbsentAgent]
        /\ capacity' = [capacity EXCEPT ![a] = NoCapacity]
        /\ offers' = [offers EXCEPT ![a] = {}]
        /\ reservation' = [r \in Reservations |->
               IF r \in InFlight(a)
               THEN Resolved(reservation[r], "Rejected")
               ELSE reservation[r]]
        /\ resexp' = resexp \ InFlight(a)
        /\ task' = [t \in Tasks |-> IF t \in requeued THEN Requeued(task[t])
                                    ELSE task[t]]
        /\ pending' = pending \cup requeued
        /\ UNCHANGED wrapupexp

---------------------------------------------------------------------------
\* Tasks and reservations.

EnqueueTask(t, queue, type, at, timer) ==
    /\ task[t].status = "Absent"
    /\ task' = [task EXCEPT ![t] =
           [status |-> "Pending", queue |-> queue, type |-> type, at |-> at,
            timer |-> timer, res |-> NoReservation, agent |-> NoAgent,
            disposition |-> NoDisposition]]
    /\ pending' = pending \cup {t}
    /\ UNCHANGED <<agentVars, reservation, resexp, wrapupexp>>

BugTrustSnapshot(a, t) == AgentCanTake(agent[a], capacity[a], task[t])

\* Every gate of the match is checked again against the live state.
MatchGates(a, t) ==
    /\ task[t].status = "Pending"
    /\ AgentCanTake(agent[a], capacity[a], task[t])
MatchCommit(a, t, r) ==
    /\ reservation[r].status = "None"
    /\ MatchGates(a, t)
    /\ capacity' = [capacity EXCEPT ![a] = Claimed(@, task[t].type)]
    /\ pending' = pending \ {t}
    /\ task' = [task EXCEPT ![t] = Reserved(@, r, a)]
    /\ reservation' = [reservation EXCEPT ![r] =
           [status |-> "Offered", task |-> t, agent |-> a]]
    /\ offers' = [offers EXCEPT ![a] = @ \cup {r}]
    /\ resexp' = resexp \cup {r}
    /\ UNCHANGED <<agent, wrapupexp>>

BugAcceptTwice(r) ==
    /\ reservation[r].status # "None"
    /\ reservation' = [reservation EXCEPT ![r] = Resolved(@, "Accepted")]
    /\ task' = [task EXCEPT ![reservation[r].task] = InStatus(@, "Active")]
    /\ resexp' = resexp \ {r}
    /\ UNCHANGED <<agentVars, pending, wrapupexp>>

\* The expiry time is not looked at: an offer can be accepted for as long
\* as nothing has rejected it.
AcceptReservation(r) ==
    /\ reservation[r].status = "Offered"
    /\ reservation' = [reservation EXCEPT ![r] = Resolved(@, "Accepted")]
    /\ task' = [task EXCEPT ![reservation[r].task] = InStatus(@, "Active")]
    /\ resexp' = resexp \ {r}
    /\ UNCHANGED <<agentVars, pending, wrapupexp>>

\* A manual reject and an expiry run the same script.
RejectReservation(r) ==
    LET t == reservation[r].task
        a == reservation[r].agent
    IN  /\ reservation[r].status = "Offered"
        /\ reservation' = [reservation EXCEPT ![r] = Resolved(@, "Rejected")]
        /\ capacity' = [capacity EXCEPT ![a] = Released(@, task[t].type)]
        /\ task' = [task EXCEPT ![t] = Requeued(@)]
        /\ pending' = pending \cup {t}
        /\ offers' = [offers EXCEPT ![a] = @ \ {r}]
        /\ resexp' = resexp \ {r}
        /\ agent' = IF Exists(a)
                    THEN [agent EXCEPT ![a].status = "Not Responding"]
                    ELSE agent
        /\ UNCHANGED wrapupexp

\* The agent hash behind key k, when the task has an agent and k exists.
KeyIsLive(t, k) == task[t].agent # NoAgent /\ k \in Agents /\ Exists(k)
SetStatusOfKey(t, k, status) ==
    agent' = IF KeyIsLive(t, k) THEN [agent EXCEPT ![k].status = status]
             ELSE agent

EndTask(t, k) ==
    /\ task[t].status = "Active"
    /\ task' = [task EXCEPT ![t] = InStatus(@, "WrapUp")]
    /\ SetStatusOfKey(t, k, "WrapUp")
    /\ UNCHANGED <<capacity, offers, pending, reservation, resexp, wrapupexp>>

\* Capacity, offers set and status are those of key k, whoever the task's
\* agent is.  The reservation stays Accepted, assignedAgentId stays set.
CompleteTask(t, k) ==
    /\ task[t].status \in {"Active", "WrapUp"}
    /\ task' = [task EXCEPT ![t] = Completed(@)]
    /\ wrapupexp' = wrapupexp \ {t}
    /\ SetStatusOfKey(t, k, "Available")
    /\ capacity' = IF KeyIsLive(t, k)
                   THEN [capacity EXCEPT ![k] = Released(@, task[t].type)]
                   ELSE capacity
    /\ offers' = IF KeyIsLive(t, k)
                 THEN [offers EXCEPT ![k] = @ \ {task[t].res}]
                 ELSE offers
    /\ UNCHANGED <<pending, reservation, resexp>>

\* The agent goes back to Available; the task stays in WrapUp.
WrapUpTimeout(t, k) ==
    /\ task[t].status = "WrapUp"
    /\ SetStatusOfKey(t, k, "Available")
    /\ UNCHANGED <<capacity, offers, taskVars, reservation, resexp, wrapupexp>>

SetTaskDisposition(t, d) ==
    /\ task[t].status = "WrapUp"
    /\ task' = [task EXCEPT ![t] = [@ EXCEPT !.disposition = d]]
    /\ UNCHANGED <<agentVars, pending, reservation, resexp, wrapupexp>>

\* Not a script: a plain SET with a TTL, issued by EndTask's handler.
StartWrapUpTimer(t) ==
    /\ task[t].timer
    /\ wrapupexp' = wrapupexp \cup {t}
    /\ UNCHANGED <<agentVars, taskVars, reservation, resexp>>

---------------------------------------------------------------------------
\* Redis drops a key whose TTL has run out.

ReservationKeyExpires(r) ==
    /\ r \in resexp
    /\ resexp' = resexp \ {r}
    /\ UNCHANGED <<agentVars, taskVars, reservation, wrapupexp>>

WrapUpKeyExpires(t) ==
    /\ t \in wrapupexp
    /\ wrapupexp' = wrapupexp \ {t}
    /\ UNCHANGED <<agentVars, taskVars, reservation, resexp>>

---------------------------------------------------------------------------
\* The store under any sequence of script calls.

Keys(t) == IF StaleKeys THEN Agents \cup {NoAgent} ELSE {task[t].agent}

AgentStep(a) ==
    \/ \E s \in RequestStatus, Q \in SUBSET Queues, cap \in CapacityRequests :
           CreateAgent(a, s, Q, cap)
    \/ \E s \in RequestStatus : SetAgentStatus(a, s)
    \/ \E Q \in SUBSET Queues : ReplaceAgentQueues(a, Q)
    \/ \E cap \in CapacityRequests : ReplaceCapacity(a, cap)
    \/ \E c \in Channels : ToggleChannelReady(a, c)
    \/ DeleteAgent(a)

TaskStep(t) ==
    \/ \E q \in Queues, c \in Channels, i \in Times, w \in BOOLEAN :
           EnqueueTask(t, q, c, i, w)
    \/ \E a \in Agents, r \in Reservations : MatchCommit(a, t, r)
    \/ \E k \in Keys(t) :
           EndTask(t, k) \/ CompleteTask(t, k) \/ WrapUpTimeout(t, k)
    \/ \E d \in Dispositions : SetTaskDisposition(t, d)
    \/ StartWrapUpTimer(t)
    \/ WrapUpKeyExpires(t)

ReservationStep(r) ==
    \/ AcceptReservation(r)
    \/ RejectReservation(r)
    \/ ReservationKeyExpires(r)

StoreNext ==
    \/ \E a \in Agents : AgentStep(a)
    \/ \E t \in Tasks : TaskStep(t)
    \/ \E r \in Reservations : ReservationStep(r)

StoreSpec == StoreInit /\ [][StoreNext]_storeVars
---------------------------------------------------------------------------
(***************************************************************************)
(* What the scripts keep true of the hashes, sets and indexes together,    *)
(* whichever key the Go code passes.                                       *)
(***************************************************************************)

\* The pending index, the only place the matcher looks for work, lists
\* exactly the tasks whose hash says Pending: match_commit, reject, delete
\* and enqueue each write both.
PendingIndexExact == pending = {t \in Tasks : task[t].status = "Pending"}

\* r is a live reservation of task t, filed under the existing agent a.
BackedBy(t, r, a) ==
    /\ a \in Agents /\ Exists(a)
    /\ r \in Reservations /\ r \in offers[a]
    /\ reservation[r].task = t
    /\ reservation[r].agent = a
    /\ reservation[r].status =
           IF task[t].status = "Reserved" THEN "Offered" ELSE "Accepted"

\* A task that is Reserved, Active or WrapUp names a reservation of its own
\* that is live (Offered while Reserved, Accepted after), filed under an
\* agent that still exists: no task is stuck on a deleted agent, however
\* delete_agent, reject, expiry and accept interleave.
HeldTaskIsBacked ==
    \A t \in Tasks : task[t].status \in HeldStatus =>
                        BackedBy(t, task[t].res, task[t].agent)

\* An Offered reservation is the current one of a Reserved task, so accept
\* and reject can never act on a task that has moved on to another offer.
OfferIsCurrent ==
    \A r \in Reservations : reservation[r].status = "Offered" =>
        /\ task[reservation[r].task].status = "Reserved"
        /\ task[reservation[r].task].res = r

\* No double booking: two in-flight reservations, of one agent or of two,
\* are never for the same task.
ExclusiveClaim ==
    \A a, b \in Agents : \A r \in offers[a], s \in offers[b] :
        reservation[r].task = reservation[s].task => r = s

\* The in-flight set of an agent holds only its own unresolved
\* reservations, so delete_agent reports no resolution that did not happen.
OffersAreOwnAndLive ==
    \A a \in Agents : \A r \in offers[a] :
        /\ Exists(a)
        /\ reservation[r].agent = a
        /\ reservation[r].status \in {"Offered", "Accepted"}

\* An accepted reservation still in flight is the current one of a task in
\* progress, or was left behind by a complete_task that was handed the key
\* of another agent.
AcceptedIsCurrentOrDone ==
    \A a \in Agents : \A r \in offers[a] :
        reservation[r].status = "Accepted" =>
            LET t == reservation[r].task
            IN  \/ task[t].status = "Completed"
                \/ task[t].status \in {"Active", "WrapUp"} /\ task[t].res = r

\* Sentinel keys outlive no offer: a TTL that fires for a resolved
\* reservation can only be one that was already on its way.
SentinelMeansOffered ==
    \A r \in resexp : reservation[r].status = "Offered"

\* The inductive invariant of the store.
Consistent ==
    /\ TypeOK
    /\ PendingIndexExact
    /\ HeldTaskIsBacked
    /\ OfferIsCurrent
    /\ ExclusiveClaim
    /\ OffersAreOwnAndLive
    /\ AcceptedIsCurrentOrDone
    /\ SentinelMeansOffered

\* Active never overstates: beyond what the client declared when it created
\* the agent, no slot of a channel is counted without an in-flight
\* reservation to account for it, so resolving the agent's in-flight work
\* always gives back every slot that matching took.
ClaimsOn(a, c) == {r \in offers[a] : task[reservation[r].task].type = c}
Declared(cap) == IF cap.declared > 0 THEN cap.declared ELSE 0
CapacityNotOverstated ==
    \A a \in Agents, c \in Channels :
        capacity[a][c].active <=
            Cardinality(ClaimsOn(a, c)) + Declared(capacity[a][c])

\* A resolution is final: Rejected never changes, an Accepted reservation
\* is only ever rejected by the deletion of its agent, and an Offered one
\* leaves Offered once.
ResolutionIsFinal ==
    [][\A r \in Reservations :
         /\ reservation[r].status = "Rejected" =>
                reservation'[r] = reservation[r]
         /\ reservation[r].status = "Accepted" =>
                \/ reservation'[r] = reservation[r]
                \/ /\ reservation'[r].status = "Rejected"
                   /\ Exists(reservation[r].agent)
                   /\ ~Exists(reservation[r].agent)']_storeVars
=============================================================================
