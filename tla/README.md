# TLA+ models and proofs for ProjectPoutine

ProjectPoutine is a multi-tenant contact-centre platform in Go: a task router
that matches waiting work to agents, and services around it that publish,
consume and react to its events. This directory holds TLA+ models of it,
TLC configurations that check them on small instances, and TLAPS proofs of the
main safety results for every instance. `PROJECT.json` maps each definition to
the source lines it stands for and lists runs, mutants, hazards, findings and
theorems.

## Inventory

| Part | State | Operations | Interacts with | Hard because |
|---|---|---|---|---|
| Task router store (`task-router/internal/redisdomain`, 15 Lua scripts) | agent, task and reservation hashes, pending index, in-flight sets, TTL sentinel keys, all in Redis | one Lua script per mutation, atomic in Redis | called by every handler | a script must keep six keys consistent; three scripts get an agent key that Go read earlier |
| Matching engine (`matcher.go`) | none between passes | `EvaluateOnce`: read the index, read the agents, try `match_commit` | run in-process after most mutations; no periodic scan | overlapping passes on stale snapshots; an opportunity nobody saw is never looked for again |
| gRPC handlers (`grpcapi`) | the request in progress | one per call: script, event, pass | store, publisher, matcher | read-then-script windows, failures between the steps |
| Expiry and wrap-up timers (`expiry.go`, `cmd/main.go`) | notifications in the connection | expire an offer; release an agent from wrap-up | Redis keyspace pub/sub | lost and duplicated notifications, races with accept, reject and delete |
| Event publisher and event bus (`events`, `pkg/eventbus`) | JetStream stream | publish; durable and ephemeral consumers | all services | published after the state change, at least once, redelivery |
| Job queue (`pkg/pgqueue`) | `background_jobs` rows | Enqueue, ClaimJobs, MarkDone, MarkFailed, poller | worker pool | several pollers, goroutines that outlive their claim, crashes |
| Wrap-up sync (`background-worker-pool`) | none of its own | consume `task.completed`, POST to the tenant's target, retry | event bus, job queue, target | duplicates, late answers, attempts at their limit |
| Configuration registries (`task-router/internal/pgconfig`) | queues, statuses, attributes, dispositions and their associations in Postgres | CRUD; validation before a script | handlers, `pkg/pgtenant` | DELETE-then-INSERT under READ COMMITTED; a name is validated in Postgres and written to Redis later |
| Tenant context (`pkg/pgtenant`, `pkg/tenantctx`) | a setting of a pooled connection | `WithTenant`, interceptors | every service with tables | connections are shared by tenants; statements do not name the tenant |
| Agent presence | registry of WebSocket connections, subscriptions per tenant | connect, disconnect, relay, fan out, shut down | event bus, Redis pub/sub | reconnect races, one copy of each event per replica |
| API gateway | open proxied connections, ticket key | token check, ticket, WebSocket pumps, shutdown | presence, router, identity | two loops and a shutdown per connection; two lists of exempt routes in two forms |
| Tenant identity | tenants, users, signing key | CRUD, login, tokens | all | two replicas generate the first key together |
| Historical reporting | event table | consume and insert; migrate | event bus | at-least-once inserts, poison events, concurrent migrations |
| Digital channels gateway | one token source per tenant | webhook to `EnqueueTask` | identity, router | a cached token shared by concurrent webhooks, a mutex held across an RPC |
| Start-up of all services (`cmd/main.go`, `migrate.go`, `runtime_role.go`, `keypair.go`, `pkg/jwtauth`) | roles, schema, grants, the key, the distributed key | create the role, migrate, grant, reconnect, load or generate the key, serve | one Postgres, the operator | no common lock; an error ends the process, and a restart must get further |
| Voice gateway, workflow IVR | none | start, health check | | skeletons |
| `pkg/config`, `pkg/health`, `pkg/genproto` | none | parse the environment; answer; generated code | | |

What makes each modelled part correct: no task is claimed twice or stuck on an
agent or reservation that is gone; the pending index is exact; capacity is
always given back; each offer is decided once and, given notifications, in the
end; no waiting task is left beside an agent that could take it; a published
completion gets a job row; a row has one worker at a time, a bounded number of
attempts and one final status; the registry of WebSockets always names the
newest connection of an agent, and an event published to it is neither dropped
nor written twice; every service comes to serve, on a complete schema, as a role
that row-level security binds, with the one signing key; an acknowledged event
is in the history; a call sees the rows of its own tenant; a token is good when
it is used, and every handler ends.

## Modules

| Module | Models |
|---|---|
| `RouterStore` | The store for one tenant. One action per Lua script, plus the plain SET of the wrap-up timer and the two TTLs. |
| `TaskLifecycle` | What the router promises about a task, abstractly: stages, holder, roster, and the one case in which a completed task keeps its holder. |
| `RouterRefinement` | `RouterStore` implements `TaskLifecycle` under a refinement mapping, whatever keys the scripts get. |
| `TaskRouter` | Extends `RouterStore` with goroutines: gRPC calls, subscribers, and matching passes, one step per Redis round trip. |
| `WrapupSync` | From `complete_task` over the stream, the durable consumer, the job table, pollers and handler goroutines to the tenant's target. |
| `PresenceRegistry` | The WebSocket handlers of every replica of agent presence, the registry they share, shutdown, crash and restart. |
| `PresenceRelay` | Extends `PresenceRegistry` with the way of an event: stream, callbacks, Redis channel, lookup, write. |
| `Startup` | Seven services coming up against one Postgres: roles, migrations, grants, the signing key, its distribution, crashes and restarts. |
| `HistoryConsumer` | Extends `Startup` with the events: published by a task router that serves, delivered to and recorded by historical reporting. |
| `Registries` | What tenant identity and the task router ask of Postgres: each store function as its transaction, each RPC as its transactions. |
| `TenantData` | Extends `Registries`: handlers, the pool of connections, row-level security, and transactions under READ COMMITTED. |
| `Tokens` | Time, clocks that differ, signed tokens, requests. |
| `ServiceTokens` | Extends `Tokens`: webhooks, the cached service token and its mutex. |
| `Gateway` | Extends `Tokens`: session tokens, exempt routes, tickets, proxied WebSockets, shutdown and restart of the gateway and of presence. |
| `Access` | Composes `ServiceTokens` and `Gateway` on one clock. |
| `RouterStore_proofs`, `RouterCapacity_proofs`, `TaskRouter_proofs`, `WrapupSync_proofs`, `Presence_proofs`, `Startup_proofs`, `TenantData_proofs`, `Access_proofs` | Theorems, and the inductive invariants they need. |
| `MCRouterStore`, `MCTaskRouter`, `MCWrapupSync`, `MCPresence`, `MCStartup`, `MCRegistry`, `MCAccess` | Symmetry sets, deployments, workloads and mixes for TLC. |

Definitions named `Bug...` are versions of the definition that follows them with
a mistake this code could have; substituting one must make TLC report the
property named with it in `PROJECT.json`. No specification uses them.

### How state and actions correspond to the code

*RouterStore.* `agent`, `capacity` and `offers` are the agent hash, its
`cap:<channel>` fields and the agent's in-flight set; `task`, `pending` and
`reservation` the task hashes, the sorted set and the reservation hashes;
`resexp` and `wrapupexp` the sentinel keys whose TTL drives expiry. A script's
early returns are the guard of its action (a refused call changes nothing and
is no step). Times are only compared, so the score of a task is a number from
`Times`. Attributes, `ready` and `interruptible` are stored by the code and read
by nothing, so they are left out; a toggle is visible only where it creates a
channel. `CreateAgent` stores the `active` of the request as it is
(`convert.go:75`); `declared` remembers it for `CapacityNotOverstated`, and no
action reads it. Every status routing does not name is `"Offline"`. `complete_task`,
`end_task` and `wrap_up_timeout` receive the agent key as a parameter: with
`StaleKeys` any key, without it the key of the task's agent at that moment.
`reject_reservation` and `accept_reservation` take keys from the reservation,
whose task and agent never change, so there the distinction does not arise.

*TaskRouter.* `call[w]` says where goroutine `w` is. A handler is split exactly
where it goes back to Redis: read the task, run the script, start the timer,
read the pending index, read the agent ids, read each agent, try each match.
The snapshot of a pass is kept as the set of pairs that passed `agentCanTake`,
because the task fields it reads never change after enqueue. `Lossy` lets any
subset of the subscribers miss a notification; `Faulty` lets a handler die
between two steps and a pass fail at any point. The handlers of a wrap-up timeout
(`task-router/cmd/main.go:354-376`) and of a channel toggle run no pass, in the
model as in the code.

*WrapupSync.* `event` follows one `task.completed` message, `consumer` the
callback of each replica, `job` the table, `runner` the handler goroutines with
the attempt count their claim returned. `ClaimJobs` and its commit are one step:
a rolled-back claim changes nothing, and rows locked by another poller are
skipped, so any non-empty set of at most `BatchSize` due rows may be claimed.
`MarkDone` and `MarkFailed` update by id without looking at the status, as the
code does. `target` is the tenant's row of `wrapup_targets`: none, a URL no request
can be built for, or one that can be called. `posted` is a history variable: the
POSTs the target took. `Faults` selects what can fail. Malformed events and unknown job types, which no code in
the repository produces, are left out.

*PresenceRegistry.* `conn[c]` says where the `ServeHTTP` of connection `c` is and
whether its socket is open; `reg` is `Registry.conns`, `tracked` is
`Server.conn`, both per replica; `closing` is what `Shutdown` still has in its
copy. A step is one use of a mutex, so the registration, the tracking and the
two halves of the deferred function interleave with those of other connections.
Authentication is the choice of the tenant and agent of a connection. `ord`
numbers registrations; only the properties read it.

*PresenceRelay.* `callback` has one entry per replica and subject filter, since
JetStream runs the callbacks of a consumer one after the other. `acked` belongs
to the consumers of the running process and is empty again after a restart,
because they are ephemeral and nothing sets where they begin. `asked` and `live`
are the SUBSCRIBEs on their way and in effect, `inbox` the messages of a
subscription, `delivering` its goroutine between `Lookup` and `Send`. `due`, `got`,
`sent`, `copies` and `published` (per replica) are history. Redis and JetStream are modelled from their use. Left
out: malformed payloads (logged and acked), the limit of go-redis's receive
buffer, callbacks that begin after the shutdown signal (their publish fails).
Which of the unacked events a callback gets next is left open.

*Startup.* `at[p]` is what process `p` does next in its `main`; the mains are data
(`TenantIdentityMain`, ...), since they take the same steps in different orders,
and the order is what can be wrong. A transaction is one step at its commit;
what it read before it writes is a step of its own (`RoleCheck`/`RoleCommit`,
`FilesCheck`/`Apply`, `GrantBegin`/`GrantCommit`), so two replicas can both read
first. `lock` is the advisory lock of a service; the task router takes none.
`Exit` is `os.Exit(1)` after an error. `banner` is the keys logged at start,
`configMap` what the operator has copied. A bootstrap tenant is assumed to be
configured. The statements of the migration files are their tables.

*HistoryConsumer.* `handling[p]` is the consume callback, `rows` counts the rows
per tenant, domain and type, because every delivery inserts under a new id.
`Subject` and `ParseSubject` work on the tokens of a subject.

*Registries and TenantData.* `call[h]` is a handler with the transaction and the
statement it is at, its connection, what it has written (`ins`, `del`) and read
(`got`); `session` is `app.current_tenant` per connection. Row-level security is
`Allowed`. A statement that must write what another open transaction has
written waits; a DELETE takes the rows it saw. `live` and `alone` are history.
Statements outside `WithTenant` (the registry of tenants, login) use the same
connections and no policy. A call goes on after a transaction only if that found
what it should: `EnqueueTask` looks for its queue in one transaction and for its
attributes in the next, `CreateAgent` for the attributes only, and its queues and
status are written `unchecked`. The write to Redis that follows is one step,
`WriteRedis`, which like a Begin or a statement may fail; what it does there is
`RouterStore`'s business.

*Tokens, ServiceTokens, Gateway.* `req[r]` is a request and where its handler is.
A token is its key, its claims and its expiry; a verifier whose clock is off by
up to `Skew` may accept or refuse near the expiry. `source[t]` is the
`TokenSource` of a tenant, there from the start: `tokenSourceFor` looks it up or
creates it empty under the client's own mutex, so nobody can tell one that does not
exist yet from an empty one. Of a proxied WebSocket, `legs` are the open
connections and `loops` the goroutines that copy. The ticket key has the number
of the gateway's start. Passwords are right or wrong; hashing is left out.

## Runs

| Run | Instance | Shows |
|---|---|---|
| `store` | 2 agents, 2 tasks, 2 reservations, max 2, requests with active -1 or 1, any key | type, backed tasks, exclusive claims, capacity never overstated, final resolutions; the scripts implement `TaskLifecycle` |
| `two_agents` | 2 callers, 1 wrap-up subscriber, 2 agents, 2 tasks of 2 ages | `EveryMatchIsAhead`: while a match is possible some running pass has it ahead; hence `NoStrandedTask`; and `NoQueueJump`: an older task is overtaken only while another pass has it ahead |
| `faults` | all calls, 2 callers, both subscribers, crashes, lost notices | the store keeps its whole inductive invariant |
| `liveness` | 1 agent, 2 tasks, 1 caller, both subscribers, fairness | offers are resolved, timed wrap-ups release the agent, possible matches are made |
| `wrapup` | 1 event, 2 replicas, 2 rows, 3 attempts, any target, all faults, fairness | one worker per row, acked events are in the table, posts bounded, rows settle once; every published completion gets a row, and every row settles unless its worker died or could not write |
| `presence` | 2 replicas, 1 agent, 2 connections, 1 event, 1 restart or lost ack | the registry is exact, a copy is written at most once per replica, what was due is not dropped, a replica acks only what it has published |
| `startup` | six deployments of 3 processes, 2 keys, at most 1 fault each, 2 events, fairness | one signing key; migrations in order; nobody serves half provisioned; everybody comes to serve; acknowledged events are recorded, and every well-formed event is, behind a poison event too |
| `registry` | 2 handlers, 2 connections, 4 workloads of 2 or 3 calls, at most 1 fault, fairness | own rows only; one winner per key; what is written to Redis was registered; a replacement replaces; every call ends |
| `access` | 3 requests in six mixes, 2 known tenants and one that is not, session 4 ticks, ticket 1, refresh 2 before expiry, skew 1, at most 6 ticks and 1 fault, fairness | a cached token is refused only if the call was slow; tasks go to the tenant of the path; a WebSocket is opened within session and ticket lifetime of a login; gateway and services agree on who needs a token; both legs end; every request is answered |

The type invariants of the other modules (`HandlersTypeOK`, and `TypeOK` of
`WrapupSync`, `PresenceRelay`, `Startup`, `TenantData`, `Access`), the parts of
`Consistent`, `KeyNeverChanges` and `TenantIsolation` hold in the same runs when
they are added to the configuration.

Some properties have an exception, and the exception is the code's. A wrap-up
timeout makes an agent Available and runs no pass (`task-router/cmd/main.go:354-376`),
although `TASK_ROUTER_SPECIFICATION.md:356` has the matching engine react to "Every
event on all three channels": a task that waits for that agent waits for the next call. So
`NoStrandedTask`, `EveryMatchIsAhead`, `NoQueueJump` and `EligibleIsServed` leave out
the agents such a timeout may have released (`WrapUpMayRelease`: a timed task is
still in wrap-up that was at some time offered to the agent); once the task leaves
wrap-up a pass does run. `WrapUpReleased` leaves out an agent with another task in
wrap-up that has no timer, and `RowSettlesOrOrphaned` rows whose worker is gone.

Runs that are expected to be violated, each a disagreement between the code and
a statement in the repository:

| Run | The code | The statement |
|---|---|---|
| `stale_complete` | `CompleteTask` reads the task's agent, then runs the script. When the task changes hands in between, the new agent is left with an accepted reservation of a completed task; deleting that agent puts the task back in the queue | `TASK_ROUTER_SPECIFICATION.md:271`: Completed is terminal |
| `attempt_limit` | `retryOrFail` compares with `<`, so a row is given up when attempt `maxAttempts` fails | `wrapupsync/handler.go:24-27`: retried while the attempts are "at or under this value", failed "once it exceeds it" |
| `replay` | an ephemeral consumer is created without a start position, so a restarted replica relays the whole stream again, to the agents connected now | `agent-presence/README.md:206`: "Nothing is replayed on reconnect" |

The models also show, with small changes of the constants, and without a run of
their own: toggling a channel the agent lacks creates capacity and no pass runs
(`ToggleChannelReady` among the `Calls` of `two_agents`; `NoStrandedTask` fails),
where `grpcapi/agent.go:265` says it "can never create a new matching
opportunity"; a wrap-up timeout makes an agent Available and no pass follows (drop
`WrapUpMayRelease` from `NoStrandedTask`; `two_agents`, where a second task can wait
for the agent, refutes it); `CreateAgent` stores the `active` of the request, and a
slot declared that way stays taken until the channel is dropped; a missed notification leaves an offer
open (`Lossy = TRUE` in `liveness`; `OfferResolved` fails), where
`TASK_ROUTER_SPECIFICATION.md:246` describes a periodic sweep; a publish that
fails after `complete_task` leaves the task without a wrap-up job, since nothing
publishes it again (`PublishedGetsJob` speaks of published events only); a worker
that dies, or whose final UPDATE fails, leaves its row `processing` for ever (the
exception in `RowSettlesOrOrphaned`), where `pkg/pgqueue/poller.go:30` says the
handler eventually moves the job to a terminal status; a wrap-up timer of a task
that `delete_agent` returned stays, and completing one task makes an agent
Available that is in wrap-up for another. Of the relay: each of N
replicas publishes its own copy of an event, so a connection is written N copies;
an agent connected to two replicas is written to by both, where
`agent-presence/README.md:245` says exactly one replica writes; the first event of a
tenant can overtake the SUBSCRIBE it caused, and is then delivered to nobody; a
connection accepted after `Shutdown` has copied its set gets no close frame.

Of start-up: `runtime_role.go` describes its check and CREATE ROLE as atomic, but
the services lock different keys, so the later of two fails and is restarted;
the task router migrates without a lock, and a replica that loses a file to a
sibling exits and finds it recorded at its next start. A redelivered event is
recorded again, since nothing identifies it. Of the registries:
`AssociateQueueDispositions` "fully replaces", yet two that overlap can leave the
union, or one fails on a key or a deadlock (drop `alone` from
`ReplacedUnlessConcurrent`); a disposition removed between the check and the
INSERT leaves an association to nothing; `CreateUser` checks the tenant and
inserts in two transactions without a foreign key, which is safe only because
nothing removes tenants. Of access: a token whose answer took longer than its
lifetime is handed out unchecked (hence "only if slow"); a gateway that restarts
makes a ticket key that presence learns only when it was distributed and
presence was restarted; connections the gateway accepts after `Shutdown` has
copied its set are cut at exit; `wsproxy` dials the upstream before it upgrades
the client, where its package comment has it the other way round; `GetUser` is
not exempt, where a comment in `identity.go:101` says it is; the digital channels
gateway dials tenant identity once per tenant, where `taskrouterclient.go:33`
says the connection is shared.

### Bounds

`Reservations`, `JobIds` and `Tasks` bound the ids handed out. A second
reservation is what a re-offer of a rejected or returned task needs, and a
second agent or caller is what a race needs; a second task, of another age, is what
an order and a wrap-up timeout beside a waiting task need. A request brings a
negative or a positive `active`; none at all is the case in between. A second row is a duplicate or a second event. When reservation ids run
out the id generator fails like a Redis error, and the properties about possible
matches speak only of states with an id left. `MaxAttempts = 3` has a first, a
middle and a last attempt. Two connections are a reconnect, to the same replica
or to the other; one event is enough because the properties of the relay speak
of one event at a time, and a lost ack or a restart delivers it twice. One fault
at a time keeps that instance small. Three processes
are two rivals and whoever they wait for, so each deployment pairs the services
that share a lock, a role, a file, a key or a stream; one fault is a crash at
every point of a start. Three calls on the registries are two that overlap and
one that sees the result. A tenant that is not known is what an issued token needs
to be refused for, and two known ones are what two cached tokens need. In `access`, six ticks are a session and a ticket, each
used at its end, and the refresh margin is longer than the skew, as it is in the
code (`jwtauth/client.go`). Symmetry is used over agents, tasks, reservations, callers, replicas
and connections, and never in a run with a liveness property.
Deadlock is not checked: with bounded ids the system legitimately comes to rest.

### Fairness

In `TaskRouter`, weak fairness for each goroutine that has begun, for
subscribers reading their queue, and for Redis expiring keys; none for calls,
which clients owe nobody. In `WrapupSync`, weak fairness for publishing once the
handler is there, for delivery of an un-acked message (JetStream redelivers
without limit: no `MaxDeliver` is set), for the callback, the poller's ticker,
the passage of `run_after` and the goroutines; strong fairness for the INSERT,
which is retried on every redelivery and is assumed to succeed some time. In
`HistoryConsumer`, weak fairness for each process, which the orchestrator restarts
when it is down, and for the operator's copy of the key; strong fairness for the
delivery of each event, because JetStream redelivers in turn and an event that is
refused again and again does not keep the others from their turn. In `TenantData`
and `Access`, weak fairness for the work of each handler: goroutines run, Postgres
looks for deadlocks, calls return. None for faults, for time, or for clients.

## Proofs

All proofs are for arbitrary sets and bounds. Constants are only assumed to be
what the named assumptions of the modules say (`RouterConstants`,
`HandlerConstants`, `WrapupConstants`, `PresenceConstants`, `RelayConstants`,
`StartupConstants`, `HistoryConstants`, `TenantDataConstants`, `TokensConstants`,
`ServiceTokensConstants`, `GatewayConstants`, `RoutesAssumption`,
`NoTokenAssumption`); TLC evaluates them in every run. Each inductive invariant
was checked by TLC on the instance of its run before it was proved. A theorem that
needs more than these names it as a hypothesis, and the hypothesis is a gap the
code really has.

*RouterStore_proofs.* None of the invariants is inductive alone. `Consistent`
joins them: that an offer is the current one of its task (`OfferIsCurrent`) is
what makes accept and reject act on the right task; that a held task is backed
by a reservation filed under its agent (`HeldTaskIsBacked`) is what makes
`delete_agent` return everything; and both need that in-flight reservations are
exclusive per task and live. The strengthening that TLC's invariants lack is
`AcceptedIsCurrentOrDone`: an accepted reservation in flight belongs to a task
in progress, or to a completed one when `complete_task` was handed another
agent's key. With it, the invariant holds for **any** key, so the damage of a
stale key is confined to what `stale_complete` shows. `StoreConsistent` is proved
script by script; the named invariants and `ResolutionsFinal` follow.
`StoreImplementsLifecycle`: with any keys, each script is a step of `TaskLifecycle`
or a stutter. A task is mapped to its holder while one of its reservations is in
flight (`HasClaim`), so that the damage of a stale key is an action of the abstract
specification, `CompleteForAnother`: the task is completed and stays with its holder,
and comes back only if that agent leaves. This is the finding of `stale_complete`
seen from the other side: nothing else brings a completed task back. What the proof
adds to `Consistent` is that a reservation in flight names the agent of its task's
hash (`ClaimNamesAgent`).

*RouterCapacity_proofs.* `CapacitySound`: whatever `active` requests carry, every
slot counted beyond what the client declared has an in-flight reservation behind it.
The argument is on the cardinality of the claims of an agent on a channel, with the
finiteness of the in-flight sets as part of the invariant.

*TaskRouter_proofs.* `HandlersRunTheStore`: with goroutines, every step is a script
of the store, with a key that may be stale, or leaves the store alone. So what was
proved of the store holds of the router, under crashes between two steps and lost
notifications: `RouterConsistent`, `RouterResolutionsFinal`,
`RouterCapacitySound` and `RouterImplementsLifecycle`, all without a hypothesis. The
invariant of the goroutines (`HandlersInv`) adds what a goroutine has read, that only
subscribers run timeouts, that the agent of a task was offered it
(`HoldersWereOffered`), and that a timeout in progress is of a timed task and has the
key of an agent the task was offered to (`TimersAreSet`, `TimeoutKeys`). `MatchesAhead` is its own inductive invariant: a step that makes a
pair matchable belongs to a call whose pass is still to come, and a pass that has
gone by a pair has made the match or found it impossible, which only another such
step changes. A wrap-up timeout is such a step without a pass, which is why the
property has its exception, and why the timeout's key must be of an agent the task
was offered to. Its two hypotheses are the other ways this fails in the code: a
process that dies before its pass (`Faulty`), and `ToggleChannelReady`, which is not
followed by one. `NothingStranded` follows, and so does `OldestFirst` (no queue jump
while passes overlap): the pass that makes the offer tried the oldest pair it had, so
an older task that the agent could take is one it never had, and then another pass
has it ahead. Any callers and subscribers are allowed in both.

*WrapupSync_proofs.* `PipelineSound`: the invariant `Sound` adds to the checked
properties what a goroutine may still do (before its POST the target has not
seen this attempt; a retry leaves an attempt to spare) and that a waiting row has
an attempt to spare. `RowsExclusive`, `NothingAckedIsLost`, `PostsBounded` and
`SettledOnce` follow, for any number of replicas and under every fault.

*Presence_proofs.* `RegistrySound`: the entry of an agent is the newest connection
that is still served. That registrations are numbered without ties, and that a
connection is numbered exactly from its registration on (`Numbered`), is what
makes the newest one unique, so that a handler that finds itself in the slot may
empty it. `AcksSound`: the invariant follows the event through the callback; a
callback about to ack belongs to a replica that has published (`AckingIsPublished`). `DueAlwaysDelivered`: what
is due to a connection is in the queue of its replica's subscription or in the hand
of the goroutine. The lookup finds the right connection because the registry is
exact; a connection that was registered never gets its entry, its socket or its
process back (`Settles`), for which the proof needs that a process that is down
serves nothing (`DownIsEmpty`). `CopiesWrittenOnce`: copies are counted in the queue,
in the hand and as written, together at most the number of publishes (`Accounted`),
because a tenant is subscribed to once (`OneSubscription`, which is `seenTenants`)
and a channel carries its tenant's events only.

*Startup_proofs.* `ProvisionedAlways`, for any processes, any deployment of the
seven services on them and any number of faults. What a process may rely on
depends on how far it has come, so the invariant (`Reliance`) says for each
service which steps come after the role, the files, the grants and the verifier,
and `MainIsOrdered` shows that no main skips one; this is where the seven mains
are looked at. The rest of the argument does not depend on the service: what
processes rely on is never taken back (`Monotone`), so a step of one process keeps
what the others rely on (`OthersKept`), and it remains to show for each step what
it gives its own process. `OneSigningKeyAlways`, `MigrationsInOrderAlways` and
`ServingIsProvisionedAlways` follow; `KeyNeverChangesEver` is a fact about each
step. `AckedIsRecordedAlways` has an invariant of its own (`Ledger`): an event
whose callback has inserted it has a row, and `ParsedRow` shows that
`parseSubject` gives back the tenant, the domain and the whole type that
`Subject` was made of, for a type of any number of tokens.

*TenantData_proofs.* Calls are assumed to be `WellFormed`: outside `WithTenant` they
touch the registry of tenants only, what they validate they have read, and they add
associations after deleting those of the queue. `CallsAreWellFormed` proves this of
every RPC in `Registries`, with any arguments. The invariant `DataInv` says which
connection a handler has and that no other has it (`Connections`), that between
`SetTenant` and the end of the transaction the setting is the handler's tenant
(`SessionSet`), from which row-level security gives `OwnRowsAlways`; that keys of
open and committed rows are apart (`Winner`), for `OneRegistrationWins`; that what a
handler found was there when it looked (`Registered`), for `AppliedRegistered`; and
what an undisturbed replacement has deleted and inserted (`Alone`, `Replaces`), for
`AssociationsReplaced`. `TenantsIsolated` is about each commit.

*Access_proofs.* `AccessInv` says of each request what its token is and since when,
by the step its handler is at (`Sound`), of the token sources that a cached token is
a service token of that tenant (`SourcesSound`), of the mutex that its holder is in
the section it protects (`MutexSound`), and of the clients' sessions and tickets how
old they can be (`WalletsSound`). `SlowCallsOnly` needs the refresh margin to be
longer than the difference of the clocks, which `ServiceTokensConstants` says and
`jwtauth/client.go` has. `SocketsWithinLifetime` has the difference of the clocks
twice, once for the session and once for the ticket: an earlier bound with one was
refuted by the proof, and the run's `Skew = 1` could not tell the two apart.
`ExemptListsAgree` is about routes, not states: the gateway's exemption by method
and path and the services' by RPC name coincide on all routes that are served
(`Served`), and `LayersAlwaysAgree` follows for every request.

Only model-checked, because fairness and ENABLED are outside the prover's reach:
all liveness (`OfferResolved`, `WrapUpReleased`, `EligibleIsServed`,
`PublishedGetsJob`, `RowSettlesOrOrphaned`, `AllServe`, `EveryEventRecorded`,
`EveryCallReplies`, `BothLegsEnd`, `EveryRequestReplies`). Every invariant and every
safety property over steps that a passing run checks is also proved, under the
hypotheses named above.

## Not modelled

Generated protocol code (`pkg/genproto`, by far the largest part of the source:
marshalling, stubs, REST routes; the routes are taken from it as data), parsing of
the environment and the health endpoint, password hashing, read-only RPCs, and
logging. They keep no state that a property could speak of.

## Plan

1. Done: the store, the handlers and passes, the wrap-up pipeline, agent presence,
   start-up, historical reporting, the registries and tenant context, tokens and the
   two gateways; proofs of every safety property the passing runs check.
2. Next: the type invariant of `PresenceRelay` as a theorem; the safety facts that the
   liveness properties rest on, such as that a waiting offer always has its sentinel
   or a notification on its way.
