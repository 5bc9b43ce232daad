----------------------------- MODULE TaskRouter -----------------------------
(***************************************************************************)
(* The task router's handlers, running concurrently over the store: gRPC   *)
(* calls, the subscribers to Redis key expiry, and the matching pass that  *)
(* a handler runs after a mutation.  The only shared state is the store.   *)
(* A step is one round trip to Redis (a script, or a read whose result is  *)
(* used later); between two round trips anything may happen, including the *)
(* death of the process.  Any number of replicas is covered: callers and   *)
(* subscribers are goroutines of whatever replica they run on.             *)
(***************************************************************************)
EXTENDS RouterStore

CONSTANTS
    Callers,      \* goroutines serving gRPC calls
    ExpirySubs,   \* SubscribeExpiry goroutines, one per replica
    WrapUpSubs,   \* SubscribeWrapUpTimeout goroutines, one per replica
    Calls,        \* the calls that clients issue in this instance
    Lossy,        \* can a subscriber be disconnected when a key expires?
    Faulty        \* can a handler die, or its matching pass fail?

AllCalls == {"CreateAgent", "DeleteAgent", "SetAgentStatus",
             "ReplaceAgentQueues", "ReplaceAgentCapacity",
             "ToggleChannelReady", "EnqueueTask", "AcceptReservation",
             "RejectReservation", "EndTask", "CompleteTask",
             "SetTaskDisposition"}

\* The handlers read a task's agent key one round trip before they use it.
ASSUME HandlerConstants ==
    /\ Calls \subseteq AllCalls
    /\ Lossy \in BOOLEAN /\ Faulty \in BOOLEAN
    /\ Reservations \subseteq Nat
    /\ StaleKeys = TRUE

VARIABLES
    call,     \* where each goroutine is in its handler
    expired,  \* expired-reservation notifications queued at a subscriber
    fired     \* wrap-up timer notifications queued at a subscriber

Workers == Callers \cup ExpirySubs \cup WrapUpSubs
vars == <<storeVars, call, expired, fired>>

---------------------------------------------------------------------------
(***************************************************************************)
(* Where a handler can be:                                                 *)
(*   Read    the task was read, the script with that agent key is next     *)
(*   Timer   end_task ran, StartWrapUpTimer is next                        *)
(*   Pass    the mutation is done, EvaluateOnce is next                    *)
(*   List    the pending index was read, the set of agent ids is next      *)
(*   Load    agent hashes are being read, left are still to read           *)
(*   Scan    can holds the <task, agent> pairs still to be tried           *)
(***************************************************************************)
Idle == [at |-> "Idle"]
Read(op, t, k) == [at |-> "Read", op |-> op, task |-> t, key |-> k]
Timer(t) == [at |-> "Timer", task |-> t]
Pass == [at |-> "Pass"]
List(todo) == [at |-> "List", todo |-> todo]
Load(todo, left, can) ==
    [at |-> "Load", todo |-> todo, left |-> left, can |-> can]
Scan(can) == IF can = {} THEN Idle ELSE [at |-> "Scan", can |-> can]

Goto(w, state) == call' = [call EXCEPT ![w] = state]
Local == UNCHANGED <<expired, fired>>

Init ==
    /\ StoreInit
    /\ call = [w \in Workers |-> Idle]
    /\ expired = [s \in ExpirySubs |-> {}]
    /\ fired = [s \in WrapUpSubs |-> {}]

---------------------------------------------------------------------------
\* gRPC handlers.  A call the store refuses changes nothing and is left out.

Serves(w, name) == call[w] = Idle /\ name \in Calls

\* Handlers that are one script, then a matching pass.
CallCreateAgent(w) ==
    /\ Serves(w, "CreateAgent")
    /\ \E a \in Agents, s \in RequestStatus, Q \in SUBSET Queues,
          req \in CapacityRequests : CreateAgent(a, s, Q, req)
    /\ Goto(w, Pass) /\ Local

CallReplaceAgentQueues(w) ==
    /\ Serves(w, "ReplaceAgentQueues")
    /\ \E a \in Agents, Q \in SUBSET Queues : ReplaceAgentQueues(a, Q)
    /\ Goto(w, Pass) /\ Local

CallReplaceAgentCapacity(w) ==
    /\ Serves(w, "ReplaceAgentCapacity")
    /\ \E a \in Agents, req \in CapacityRequests : ReplaceCapacity(a, req)
    /\ Goto(w, Pass) /\ Local

\* Variants named Bug... are faults the properties must detect.
BugEnqueueNoPass(w) ==
    /\ Serves(w, "EnqueueTask")
    /\ \E t \in Tasks, q \in Queues, c \in Channels, i \in Times,
          b \in BOOLEAN : EnqueueTask(t, q, c, i, b)
    /\ UNCHANGED call /\ Local

CallEnqueueTask(w) ==
    /\ Serves(w, "EnqueueTask")
    /\ \E t \in Tasks, q \in Queues, c \in Channels, i \in Times,
          b \in BOOLEAN : EnqueueTask(t, q, c, i, b)
    /\ Goto(w, Pass) /\ Local

CallRejectReservation(w) ==
    /\ Serves(w, "RejectReservation")
    /\ \E r \in Reservations : RejectReservation(r)
    /\ Goto(w, Pass) /\ Local

BugStatusNoPass(w) ==
    /\ Serves(w, "SetAgentStatus")
    /\ \E a \in Agents, s \in RequestStatus : SetAgentStatus(a, s)
    /\ UNCHANGED call /\ Local

\* Only becoming Available is followed by a pass.
CallSetAgentStatus(w) ==
    /\ Serves(w, "SetAgentStatus")
    /\ \E a \in Agents, s \in RequestStatus :
          /\ SetAgentStatus(a, s)
          /\ Goto(w, IF s = "Available" THEN Pass ELSE Idle)
    /\ Local

\* A pass only if some in-flight work was returned to the queue.
CallDeleteAgent(w) ==
    /\ Serves(w, "DeleteAgent")
    /\ \E a \in Agents :
          /\ DeleteAgent(a)
          /\ Goto(w, IF InFlight(a) = {} THEN Idle ELSE Pass)
    /\ Local

\* Handlers that run no pass.
CallToggleChannelReady(w) ==
    /\ Serves(w, "ToggleChannelReady")
    /\ \E a \in Agents, c \in Channels : ToggleChannelReady(a, c)
    /\ UNCHANGED call /\ Local

CallAcceptReservation(w) ==
    /\ Serves(w, "AcceptReservation")
    /\ \E r \in Reservations : AcceptReservation(r)
    /\ UNCHANGED call /\ Local

CallSetTaskDisposition(w) ==
    /\ Serves(w, "SetTaskDisposition")
    /\ \E t \in Tasks, d \in Dispositions : SetTaskDisposition(t, d)
    /\ UNCHANGED call /\ Local

\* CompleteTask and EndTask first read the task, for its agent's key.
CallReadTask(w, op) ==
    /\ Serves(w, op)
    /\ \E t \in Tasks :
          /\ task[t].status # "Absent"
          /\ Goto(w, Read(op, t, task[t].agent))
    /\ UNCHANGED storeVars /\ Local

RunCompleteTask(w) ==
    /\ call[w].at = "Read" /\ call[w].op = "CompleteTask"
    /\ \/ CompleteTask(call[w].task, call[w].key) /\ Goto(w, Pass)
       \/ /\ task[call[w].task].status \notin {"Active", "WrapUp"}
          /\ Goto(w, Idle) /\ UNCHANGED storeVars
    /\ Local

BugNoTimer(w) ==
    /\ call[w].at = "Read" /\ call[w].op = "EndTask"
    /\ \/ EndTask(call[w].task, call[w].key)
       \/ task[call[w].task].status # "Active" /\ UNCHANGED storeVars
    /\ Goto(w, Idle) /\ Local

RunEndTask(w) ==
    LET t == call[w].task
    IN  /\ call[w].at = "Read" /\ call[w].op = "EndTask"
        /\ \/ /\ EndTask(t, call[w].key)
              /\ Goto(w, IF task[t].timer THEN Timer(t) ELSE Idle)
           \/ /\ task[t].status # "Active"
              /\ Goto(w, Idle) /\ UNCHANGED storeVars
        /\ Local

RunStartWrapUpTimer(w) ==
    /\ call[w].at = "Timer"
    /\ StartWrapUpTimer(call[w].task)
    /\ Goto(w, Idle) /\ Local

---------------------------------------------------------------------------
\* EvaluateOnce.

\* PendingTasksFIFO: an empty index ends the pass.
ReadPending(w) ==
    /\ call[w].at = "Pass"
    /\ Goto(w, IF pending = {} THEN Idle ELSE List(pending))
    /\ UNCHANGED storeVars /\ Local

\* ListAgents, the id set: no agents ends the pass.
ReadAgentIds(w) ==
    LET ids == {a \in Agents : Exists(a)}
    IN  /\ call[w].at = "List"
        /\ Goto(w, IF ids = {} THEN Idle ELSE Load(call[w].todo, ids, {}))
        /\ UNCHANGED storeVars /\ Local

\* ListAgents, one hash at a time.  The snapshot matters only through
\* agentCanTake, whose task fields never change after enqueue, so it is
\* kept as the set of pairs that pass it.
ReadAgent(w) ==
    /\ call[w].at = "Load"
    /\ \E a \in call[w].left :
         LET can == call[w].can \cup
                 {<<t, a>> : t \in {u \in call[w].todo :
                      AgentCanTake(agent[a], capacity[a], task[u])}}
             left == call[w].left \ {a}
         IN  Goto(w, IF left = {} THEN Scan(can)
                     ELSE Load(call[w].todo, left, can))
    /\ UNCHANGED storeVars /\ Local

BugAnyOrder(can) == can

\* The tasks of a scan are taken oldest first.  (Equal scores are taken in
\* either order.)
Oldest(can) ==
    {p \in can : \A q \in can : task[p[1]].at <= task[q[1]].at}
\* The next sequential id.
NewReservationID ==
    LET free == {r \in Reservations : reservation[r].status = "None"}
    IN  {r \in free : \A s \in free : r <= s}

\* A committed match claims the task: go on with the next one.
TryMatch(w) ==
    /\ call[w].at = "Scan"
    /\ \E p \in Oldest(call[w].can), r \in NewReservationID :
          /\ MatchCommit(p[2], p[1], r)
          /\ Goto(w, Scan({q \in call[w].can : q[1] # p[1]}))
    /\ Local

BugGiveUp(w) ==
    /\ call[w].at = "Scan"
    /\ \E p \in Oldest(call[w].can) :
          /\ ~MatchGates(p[2], p[1])
          /\ Goto(w, Scan({q \in call[w].can : q[1] # p[1]}))
    /\ UNCHANGED storeVars /\ Local

\* A refused match moves on to the next agent.  (A task that is no longer
\* Pending is skipped by GetTask: the same as refusing all its pairs.)
MatchRefused(w) ==
    /\ call[w].at = "Scan"
    /\ \E p \in Oldest(call[w].can) :
          /\ ~MatchGates(p[2], p[1])
          /\ Goto(w, Scan(call[w].can \ {p}))
    /\ UNCHANGED storeVars /\ Local

\* An error inside the pass is logged and the pass is abandoned.  When the
\* bound on ids is used up the id generator fails too.
PassFails(w) ==
    /\ call[w].at \in {"Pass", "List", "Load", "Scan"}
    /\ Faulty \/ (call[w].at = "Scan" /\ NewReservationID = {})
    /\ Goto(w, Idle)
    /\ UNCHANGED storeVars /\ Local

\* The process dies: whatever the handler had left to do is not done.
Crash(w) ==
    /\ Faulty
    /\ call[w].at \in {"Read", "Timer"}
    /\ Goto(w, Idle)
    /\ UNCHANGED storeVars /\ Local

---------------------------------------------------------------------------
\* Key expiry.  Redis publishes the expired key to the subscribers that are
\* connected at that moment, and keeps nothing for the others.

Receivers(subs) == IF Lossy THEN SUBSET subs ELSE {subs}

ReservationExpires(r) ==
    /\ ReservationKeyExpires(r)
    /\ \E S \in Receivers(ExpirySubs) :
          expired' = [s \in ExpirySubs |->
                        IF s \in S THEN expired[s] \cup {r} ELSE expired[s]]
    /\ UNCHANGED <<call, fired>>

WrapUpTimerFires(t) ==
    /\ WrapUpKeyExpires(t)
    /\ \E S \in Receivers(WrapUpSubs) :
          fired' = [s \in WrapUpSubs |->
                        IF s \in S THEN fired[s] \cup {t} ELSE fired[s]]
    /\ UNCHANGED <<call, expired>>

BugDropNotice(s) ==
    /\ call[s] = Idle
    /\ \E r \in expired[s] : expired' = [expired EXCEPT ![s] = @ \ {r}]
    /\ UNCHANGED <<storeVars, call, fired>>

\* Reject with reason expired and run a pass, or find it resolved already.
HandleExpiredReservation(s) ==
    /\ call[s] = Idle
    /\ \E r \in expired[s] :
          /\ expired' = [expired EXCEPT ![s] = @ \ {r}]
          /\ \/ RejectReservation(r) /\ Goto(s, Pass)
             \/ /\ reservation[r].status # "Offered"
                /\ UNCHANGED <<storeVars, call>>
    /\ UNCHANGED fired

HandleWrapUpTimeout(s) ==
    /\ call[s] = Idle
    /\ \E t \in fired[s] :
          /\ fired' = [fired EXCEPT ![s] = @ \ {t}]
          /\ Goto(s, Read("WrapUpTimeout", t, task[t].agent))
    /\ UNCHANGED <<storeVars, expired>>

\* The agent is made Available; no matching pass follows.
RunWrapUpTimeout(s) ==
    /\ call[s].at = "Read" /\ call[s].op = "WrapUpTimeout"
    /\ \/ WrapUpTimeout(call[s].task, call[s].key)
       \/ task[call[s].task].status # "WrapUp" /\ UNCHANGED storeVars
    /\ Goto(s, Idle) /\ Local

---------------------------------------------------------------------------
StartCall(w) ==
    \/ CallCreateAgent(w) \/ CallDeleteAgent(w) \/ CallSetAgentStatus(w)
    \/ CallReplaceAgentQueues(w) \/ CallReplaceAgentCapacity(w)
    \/ CallToggleChannelReady(w) \/ CallEnqueueTask(w)
    \/ CallAcceptReservation(w) \/ CallRejectReservation(w)
    \/ CallSetTaskDisposition(w)
    \/ CallReadTask(w, "CompleteTask") \/ CallReadTask(w, "EndTask")

\* The steps a goroutine takes by itself once its handler has begun.
Continue(w) ==
    \/ RunCompleteTask(w) \/ RunEndTask(w) \/ RunStartWrapUpTimer(w)
    \/ RunWrapUpTimeout(w)
    \/ ReadPending(w) \/ ReadAgentIds(w) \/ ReadAgent(w)
    \/ TryMatch(w) \/ MatchRefused(w) \/ PassFails(w)

Next ==
    \/ \E w \in Callers : StartCall(w)
    \/ \E w \in Workers : Continue(w) \/ Crash(w)
    \/ \E s \in ExpirySubs : HandleExpiredReservation(s)
    \/ \E s \in WrapUpSubs : HandleWrapUpTimeout(s)
    \/ \E r \in Reservations : ReservationExpires(r)
    \/ \E t \in Tasks : WrapUpTimerFires(t)

Spec == Init /\ [][Next]_vars

(***************************************************************************)
(* Goroutines keep running, subscribers read their queues, and Redis       *)
(* expires keys.  Clients owe nothing: no call is fair.                    *)
(***************************************************************************)
Fairness ==
    /\ \A w \in Workers : WF_vars(Continue(w))
    /\ \A s \in ExpirySubs : WF_vars(HandleExpiredReservation(s))
    /\ \A s \in WrapUpSubs : WF_vars(HandleWrapUpTimeout(s))
    /\ \A r \in Reservations : WF_vars(ReservationExpires(r))
    /\ \A t \in Tasks : WF_vars(WrapUpTimerFires(t))

FairSpec == Spec /\ Fairness

---------------------------------------------------------------------------
(***************************************************************************)
(* Properties.  The store's own invariants are inherited: every step of    *)
(* Spec is a step of StoreSpec with StaleKeys, or leaves the store alone.  *)
(***************************************************************************)

Place ==
    {Idle, Pass}
      \cup {Read(op, t, k) : op \in {"CompleteTask", "EndTask",
              "WrapUpTimeout"}, t \in Tasks, k \in Agents \cup {NoAgent}}
      \cup {Timer(t) : t \in Tasks}
      \cup {List(T) : T \in SUBSET Tasks}
      \cup {Load(T, L, C) : T \in SUBSET Tasks, L \in SUBSET Agents,
              C \in SUBSET (Tasks \X Agents)}
      \cup {Scan(C) : C \in SUBSET (Tasks \X Agents)}

\* The handlers' own state has its type.
HandlersTypeOK ==
    /\ call \in [Workers -> Place]
    /\ expired \in [ExpirySubs -> SUBSET Reservations]
    /\ fired \in [WrapUpSubs -> SUBSET Tasks]

\* The one way, besides ToggleChannelReady, in which a match becomes
\* possible without a pass to follow: wrap_up_timeout makes an agent
\* Available while the task stays in WrapUp.  The agent is one the task was
\* offered to at some time, as the script's key may be out of date.  When
\* the task leaves WrapUp, by completion or by the deletion of its agent, a
\* pass does follow.
OfferedTo(t, a) == \E r \in Reservations : /\ reservation[r].status # "None"
                                           /\ reservation[r].task = t
                                           /\ reservation[r].agent = a
WrapUpMayRelease(a) ==
    \E t \in Tasks : /\ task[t].status = "WrapUp" /\ task[t].timer
                     /\ OfferedTo(t, a)

\* Once every handler has returned, no waiting task is left beside an agent
\* that could take it: whatever order the handlers' round trips took, each
\* new opportunity was seen by some matching pass after it arose.  (There
\* is no periodic scan to pick it up later.)  Agents that a wrap-up timeout
\* may have released are the exception.
Quiet == \A w \in Workers : call[w] = Idle
NoStrandedTask ==
    Quiet /\ NewReservationID # {} =>
        \A a \in Agents, t \in Tasks : MatchGates(a, t) => WrapUpMayRelease(a)

\* Why NoStrandedTask holds: while a match is possible, some pass has it
\* still ahead: it has yet to read the index, or the agent, or holds the
\* pair to try.
Ahead(w, a, t) ==
    \/ call[w].at = "Pass"
    \/ call[w].at = "List" /\ t \in call[w].todo
    \/ /\ call[w].at = "Load" /\ t \in call[w].todo
       /\ a \in call[w].left \/ <<t, a>> \in call[w].can
    \/ call[w].at = "Scan" /\ <<t, a>> \in call[w].can
EveryMatchIsAhead ==
    NewReservationID # {} =>
        \A a \in Agents, t \in Tasks :
            MatchGates(a, t) =>
                WrapUpMayRelease(a) \/ \E w \in Workers : Ahead(w, a, t)

\* A task is offered to an agent over the head of an older one that the
\* same agent could take only while the pass of another goroutine has the
\* older one still ahead: passes overlap, but none skips a task, and the
\* pass that makes the offer never held the older one.  (Agents a wrap-up
\* timeout may have released are the exception again.)
NoQueueJump ==
    [][\A t, u \in Tasks :
         /\ task[t].status = "Pending" /\ task'[t].status = "Reserved"
         /\ task[u].at < task[t].at /\ MatchGates(task'[t].agent, u)
         => \/ WrapUpMayRelease(task'[t].agent)
            \/ \E w \in Workers : /\ call'[w] = call[w]
                                  /\ Ahead(w, task'[t].agent, u)]_vars

\* Completed is terminal.
CompletedIsTerminal ==
    [][\A t \in Tasks : task[t].status = "Completed" =>
                            task'[t].status = "Completed"]_vars

\* No offer stays open for ever: it is accepted, rejected, or its TTL runs
\* out and the expiry is acted on.
OfferResolved ==
    \A r \in Reservations : reservation[r].status = "Offered" ~>
                              reservation[r].status # "Offered"

\* An agent does not stay in the WrapUp status for a task whose wrap-up
\* timer is configured: the task leaves WrapUp or the agent is released,
\* although the timer key is set by a second call after end_task, and the
\* timer's handler uses an agent key read before its script.  (An agent with
\* several tasks can be kept in WrapUp by one that has no timer.)
WrapsUpUntimed(a) ==
    \E t \in Tasks : /\ task[t].status = "WrapUp" /\ ~task[t].timer
                     /\ task[t].agent = a
WrapUpReleased ==
    \A t \in Tasks : task[t].status = "WrapUp" /\ task[t].timer ~>
        \/ task[t].status # "WrapUp"
        \/ agent[task[t].agent].status # "WrapUp"
        \/ WrapsUpUntimed(task[t].agent)

\* A possible match is made, or stops being possible, without the help of a
\* further call (until the bound on reservation ids is reached), unless the
\* agent is one that a wrap-up timeout may have released: that handler runs
\* no pass, and the match waits for the next one.
EligibleIsServed ==
    \A a \in Agents, t \in Tasks :
        MatchGates(a, t) ~> \/ ~MatchGates(a, t)
                            \/ NewReservationID = {}
                            \/ WrapUpMayRelease(a)
=============================================================================
