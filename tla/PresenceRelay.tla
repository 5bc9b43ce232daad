---------------------------- MODULE PresenceRelay ----------------------------
(***************************************************************************)
(* How a task router event reaches an agent's WebSocket: every replica     *)
(* consumes the whole stream, publishes each event on its tenant's Redis   *)
(* channel, and writes what it receives there to the connection it holds   *)
(* for the agent, if any.                                                  *)
(***************************************************************************)
EXTENDS PresenceRegistry, Sequences

CONSTANTS
    Kinds,      \* the forwarded event types
    MaxEvents,  \* bound on the stream
    Faults,     \* what can go wrong in this instance
    MaxFaults   \* bound on how often

ASSUME RelayConstants ==
    /\ MaxEvents \in Nat /\ MaxFaults \in Nat
    /\ Faults \subseteq {"restart",    \* a process is stopped, or dies
                         "ack"}        \* an ack to JetStream is lost

VARIABLES
    stream,        \* TASK_ROUTER_EVENTS, as far as it is forwarded
    acked,         \* what each replica's ephemeral consumers have acked
    callback,      \* the callback of each replica and subject filter
    seen,          \* Consumer.seenTenants
    asked, live,   \* SUBSCRIBEs on their way to Redis, and in effect
    inbox,         \* messages received by a replica's subscription
    delivering,    \* the goroutine of a subscription
    got,           \* how often an event was written to a connection (history)
    sent,          \* how often a replica wrote an event (history)
    copies,        \* how often an event was published to Redis (history)
    published,     \* what each replica, since its start, has itself
                   \* published to Redis (history)
    due,           \* what was published when a connection could expect it
                   \* and is not yet written to it (history)
    faults         \* how many there have been

relayVars == <<stream, acked, callback, seen, asked, live, inbox, delivering,
               got, sent, copies, published, due, faults>>
vars == <<registryVars, relayVars>>

---------------------------------------------------------------------------
Idle == [at |-> "Idle"]
Publishing(e) == [at |-> "Publishing", ev |-> e]
Acking(e) == [at |-> "Acking", ev |-> e]
Writing(e, c) == [at |-> "Writing", ev |-> e, to |-> c]

Fault(f) == f \in Faults /\ faults < MaxFaults /\ faults' = faults + 1

Event == [slot: Slots, kind: Kinds]
Events == 1..MaxEvents
Stored == 1..Len(stream)
TenantOf(e) == stream[e].slot[1]

TypeOK ==
    /\ RegistryTypeOK
    /\ stream \in Seq(Event)
    /\ acked \in [Replicas -> SUBSET Events]
    /\ callback \in [Replicas -> [Kinds -> {Idle} \cup
           {Publishing(e) : e \in Events} \cup {Acking(e) : e \in Events}]]
    /\ seen \in [Replicas -> SUBSET Tenants]
    /\ asked \in [Replicas -> [Tenants -> Nat]]
    /\ live \in [Replicas -> [Tenants -> Nat]]
    /\ inbox \in [Replicas -> [Tenants -> Seq(Events)]]
    /\ delivering \in [Replicas -> [Tenants -> {Idle} \cup
           {Writing(e, c) : e \in Events, c \in Conns}]]
    /\ got \in [Conns -> [Events -> Nat]]
    /\ sent \in [Replicas -> [Events -> Nat]]
    /\ copies \in [Events -> Nat]
    /\ published \in [Replicas -> SUBSET Events]
    /\ due \in [Conns -> SUBSET Events]
    /\ faults \in Nat

Init ==
    /\ RegistryInit
    /\ stream = <<>>
    /\ acked = [r \in Replicas |-> {}]
    /\ callback = [r \in Replicas |-> [k \in Kinds |-> Idle]]
    /\ seen = [r \in Replicas |-> {}]
    /\ asked = [r \in Replicas |-> [t \in Tenants |-> 0]]
    /\ live = [r \in Replicas |-> [t \in Tenants |-> 0]]
    /\ inbox = [r \in Replicas |-> [t \in Tenants |-> <<>>]]
    /\ delivering = [r \in Replicas |-> [t \in Tenants |-> Idle]]
    /\ got = [c \in Conns |-> [e \in Events |-> 0]]
    /\ sent = [r \in Replicas |-> [e \in Events |-> 0]]
    /\ copies = [e \in Events |-> 0]
    /\ published = [r \in Replicas |-> {}]
    /\ due = [c \in Conns |-> {}]
    /\ faults = 0

---------------------------------------------------------------------------
\* The consumer of the stream.

\* The task router publishes an event about an agent.
PublishEvent(s, k) ==
    /\ Len(stream) < MaxEvents
    /\ stream' = Append(stream, [slot |-> s, kind |-> k])
    /\ UNCHANGED <<registryVars, acked, callback, seen, asked, live, inbox,
                   delivering, got, sent, copies, published, due, faults>>

BugAlwaysSubscribe(r, t) ==
    /\ seen' = [seen EXCEPT ![r] = @ \cup {t}]
    /\ asked' = [asked EXCEPT ![r][t] = @ + 1]

\* One subscription per tenant and replica, under the mutex.  SUBSCRIBE is
\* sent and not waited for.
EnsureSubscribed(r, t) ==
    /\ seen' = [seen EXCEPT ![r] = @ \cup {t}]
    /\ asked' = IF t \in seen[r] THEN asked
                ELSE [asked EXCEPT ![r][t] = @ + 1]

\* JetStream delivers what this consumer has not acked; a consumer that is
\* new starts at the beginning of the stream.  One callback at a time per
\* filter.  The order is left open: a nak'd message comes when it comes.
Handle(r, k, e) ==
    /\ phase[r] = "up" /\ callback[r][k] = Idle
    /\ e \in Stored \ acked[r] /\ stream[e].kind = k
    /\ EnsureSubscribed(r, TenantOf(e))
    /\ callback' = [callback EXCEPT ![r][k] = Publishing(e)]
    /\ UNCHANGED <<registryVars, stream, acked, live, inbox, delivering, got,
                   sent, copies, published, due, faults>>

\* Redis processes a SUBSCRIBE.
SubscribeTakesEffect(r, t) ==
    /\ asked[r][t] > 0
    /\ asked' = [asked EXCEPT ![r][t] = @ - 1]
    /\ live' = [live EXCEPT ![r][t] = @ + 1]
    /\ UNCHANGED <<registryVars, stream, acked, callback, seen, inbox,
                   delivering, got, sent, copies, published, due, faults>>

\* A connection in its slot, behind a subscription in effect, may expect
\* what is published on its tenant's channel about its agent.
Expects(c, e) ==
    /\ conn[c].open /\ conn[c].slot = stream[e].slot
    /\ Entry(c) = c /\ live[conn[c].on][TenantOf(e)] > 0

\* Redis gives a message to every subscription in effect, once for each.
Spread(e) ==
    /\ due' = [c \in Conns |-> IF Expects(c, e) THEN due[c] \cup {e}
                               ELSE due[c]]
    /\ copies' = [copies EXCEPT ![e] = @ + 1]
    /\ inbox' = [r \in Replicas |-> [t \in Tenants |->
           IF t = TenantOf(e)
           THEN inbox[r][t] \o [i \in 1..live[r][t] |-> e]
           ELSE inbox[r][t]]]

BugAckOnError(r, k) ==
    /\ callback[r][k].at = "Publishing"
    /\ acked' = [acked EXCEPT ![r] = @ \cup {callback[r][k].ev}]
    /\ callback' = [callback EXCEPT ![r][k] = Idle]
    /\ UNCHANGED <<registryVars, stream, seen, asked, live, inbox, delivering,
                   got, sent, copies, published, due, faults>>

\* Publish returns an error (always so once the context is cancelled): nak.
PublishFails(r, k) ==
    /\ callback[r][k].at = "Publishing"
    /\ callback' = [callback EXCEPT ![r][k] = Idle]
    /\ UNCHANGED <<registryVars, stream, acked, seen, asked, live, inbox,
                   delivering, got, sent, copies, published, due, faults>>

\* Publish succeeds.
Publish(r, k) ==
    /\ phase[r] = "up" /\ callback[r][k].at = "Publishing"
    /\ Spread(callback[r][k].ev)
    /\ published' = [published EXCEPT ![r] = @ \cup {callback[r][k].ev}]
    /\ callback' = [callback EXCEPT ![r][k] = Acking(@.ev)]
    /\ UNCHANGED <<registryVars, stream, acked, seen, asked, live, delivering,
                   got, sent, faults>>

\* The ack arrives, or is lost.  (A PUBLISH whose answer is lost, and which
\* is nak'd, has the same effect as a lost ack.)
Ack(r, k) ==
    /\ callback[r][k].at = "Acking"
    /\ callback' = [callback EXCEPT ![r][k] = Idle]
    /\ \/ /\ acked' = [acked EXCEPT ![r] = @ \cup {callback[r][k].ev}]
          /\ UNCHANGED faults
       \/ /\ Fault("ack")
          /\ UNCHANGED acked
    /\ UNCHANGED <<registryVars, stream, seen, asked, live, inbox, delivering,
                   got, sent, copies, published, due>>

---------------------------------------------------------------------------
\* The subscription's goroutine.

Lookup(r, s) == reg[r][s]

BugDropWhenBusy(r, t) ==
    /\ inbox[r][t] # <<>>
    /\ LET e == Head(inbox[r][t])
           c == Lookup(r, stream[e].slot)
       IN  delivering' = IF c = NoConn \/ delivering[r][t] # Idle
                         THEN delivering
                         ELSE [delivering EXCEPT ![r][t] = Writing(e, c)]
    /\ inbox' = [inbox EXCEPT ![r][t] = Tail(@)]
    /\ UNCHANGED <<registryVars, stream, acked, callback, seen, asked, live,
                   got, sent, copies, published, due, faults>>

\* deliverIfLocal: look the agent up; without a connection, discard.
DeliverIfLocal(r, t) ==
    /\ delivering[r][t] = Idle /\ inbox[r][t] # <<>>
    /\ LET e == Head(inbox[r][t])
           c == Lookup(r, stream[e].slot)
       IN  delivering' = IF c = NoConn THEN delivering
                         ELSE [delivering EXCEPT ![r][t] = Writing(e, c)]
    /\ inbox' = [inbox EXCEPT ![r][t] = Tail(@)]
    /\ UNCHANGED <<registryVars, stream, acked, callback, seen, asked, live,
                   got, sent, copies, published, due, faults>>

\* Send, to the connection found, whatever has happened to it since: on a
\* closed socket it fails, and the event is dropped.
Send(r, t) ==
    /\ delivering[r][t].at = "Writing"
    /\ LET w == delivering[r][t]
       IN  IF conn[w.to].open
           THEN /\ got' = [got EXCEPT ![w.to][w.ev] = @ + 1]
                /\ sent' = [sent EXCEPT ![r][w.ev] = @ + 1]
                /\ due' = [due EXCEPT ![w.to] = @ \ {w.ev}]
           ELSE UNCHANGED <<got, sent, due>>
    /\ delivering' = [delivering EXCEPT ![r][t] = Idle]
    /\ UNCHANGED <<registryVars, stream, acked, callback, seen, asked, live,
                   inbox, copies, published, faults>>

\* The context is done: the goroutine returns and closes its subscription.
\* (Go's select may still take messages before it notices.)
Unsubscribe(r, t) ==
    /\ phase[r] = "draining" /\ delivering[r][t] = Idle
    /\ asked[r][t] + live[r][t] > 0
    /\ asked' = [asked EXCEPT ![r][t] = 0]
    /\ live' = [live EXCEPT ![r][t] = 0]
    /\ inbox' = [inbox EXCEPT ![r][t] = <<>>]
    /\ UNCHANGED <<registryVars, stream, acked, callback, seen, delivering,
                   got, sent, copies, published, due, faults>>

---------------------------------------------------------------------------
\* Connections and processes, with what they mean for the relay.

Connect(c, r, s) == Accept(c, r, s) /\ UNCHANGED relayVars
Handler(c) == Serve(c) /\ UNCHANGED relayVars
Lose(c) == Disconnect(c) /\ UNCHANGED relayVars

Signal(r) ==
    /\ Fault("restart")
    /\ BeginShutdown(r)
    /\ UNCHANGED <<stream, acked, callback, seen, asked, live, inbox,
                   delivering, got, sent, copies, published, due>>
Close(r, c) == CloseNext(r, c) /\ UNCHANGED relayVars

\* The subscriptions end with the process, and the ephemeral consumers are
\* of no use to the next one.
Forget(r) ==
    /\ acked' = [acked EXCEPT ![r] = {}]
    /\ published' = [published EXCEPT ![r] = {}]
    /\ callback' = [callback EXCEPT ![r] = [k \in Kinds |-> Idle]]
    /\ seen' = [seen EXCEPT ![r] = {}]
    /\ asked' = [asked EXCEPT ![r] = [t \in Tenants |-> 0]]
    /\ live' = [live EXCEPT ![r] = [t \in Tenants |-> 0]]
    /\ inbox' = [inbox EXCEPT ![r] = [t \in Tenants |-> <<>>]]
    /\ delivering' = [delivering EXCEPT ![r] = [t \in Tenants |-> Idle]]
    /\ UNCHANGED <<stream, got, sent, copies, due>>
Stop(r) == Exit(r) /\ Forget(r) /\ UNCHANGED faults
Fail(r) ==
    /\ Fault("restart")
    /\ Crash(r) /\ Forget(r)
Restart(r) == Start(r) /\ UNCHANGED relayVars

---------------------------------------------------------------------------
Relay(r, k) == Publish(r, k) \/ PublishFails(r, k) \/ Ack(r, k)

Next ==
    \/ \E s \in Slots, k \in Kinds : PublishEvent(s, k)
    \/ \E r \in Replicas, k \in Kinds, e \in Stored : Handle(r, k, e)
    \/ \E r \in Replicas, k \in Kinds : Relay(r, k)
    \/ \E r \in Replicas, t \in Tenants :
          \/ SubscribeTakesEffect(r, t) \/ Unsubscribe(r, t)
          \/ DeliverIfLocal(r, t) \/ Send(r, t)
    \/ \E c \in Conns, r \in Replicas, s \in Slots : Connect(c, r, s)
    \/ \E c \in Conns : Handler(c) \/ Lose(c)
    \/ \E r \in Replicas : Signal(r) \/ Stop(r) \/ Fail(r) \/ Restart(r)
    \/ \E r \in Replicas, c \in Conns : Close(r, c)

Spec == Init /\ [][Next]_vars

---------------------------------------------------------------------------
(***************************************************************************)
(* Properties.                                                             *)
(***************************************************************************)

\* seenTenants: a replica writes each copy of an event at most once, to one
\* connection, however often the event is delivered to its callbacks and
\* connections replace each other meanwhile.
CopyWrittenOnce ==
    \A r \in Replicas, e \in Events : sent[r][e] <= copies[e]

\* An event published while a connection was in its slot, behind a live
\* subscription, is written to it or is on its way to it, unless the
\* connection has closed or lost the slot or its replica is stopping: the
\* lookup, the write and other connections' handlers never lose it.
DueIsDelivered ==
    \A c \in Conns : \A e \in due[c] :
        LET r == conn[c].on
            t == TenantOf(e)
        IN  phase[r] = "up" /\ conn[c].open /\ Entry(c) = c =>
               \/ \E i \in 1..Len(inbox[r][t]) : inbox[r][t][i] = e
               \/ delivering[r][t] = Writing(e, c)

\* A replica acks an event only after it has itself published it, in the
\* same life of its process: a failing publish, a crash or a shutdown in
\* between leaves it to be handled again, whatever the other replicas did
\* with their copy of it.
AckedIsPublished ==
    \A r \in Replicas : acked[r] \subseteq published[r]

\* A client that reconnects receives new events only: what one connection
\* of an agent was sent is not sent to a later one.
NothingReplayed ==
    \A c, d \in Conns, e \in Stored :
        /\ conn[c].slot = conn[d].slot
        /\ 0 < conn[c].ord /\ conn[c].ord < conn[d].ord
        => got[c][e] = 0 \/ got[d][e] = 0
=============================================================================
