------------------------------ MODULE Startup ------------------------------
(***************************************************************************)
(* How the services that own tables come up against one Postgres: each     *)
(* replica creates the shared runtime role, applies its service's          *)
(* migration files, grants the role its privileges, reconnects as that     *)
(* role, and only then serves.  Tenant identity also agrees on the signing *)
(* key; the operator copies the public half to the other services, which   *)
(* refuse to start without it.  Any error ends the process, which is       *)
(* started again.                                                          *)
(*                                                                         *)
(* A transaction is one step at its commit; what it read earlier is a      *)
(* step of its own, so that two replicas can both read before either       *)
(* writes.  Postgres makes the second writer wait for the first to commit  *)
(* and then fails it.                                                      *)
(***************************************************************************)
EXTENDS Naturals, FiniteSets

CONSTANTS
    Procs,        \* processes: replicas of the services
    Deployments,  \* which service each process may run
    Keys,         \* key pairs that can be generated
    NoKey,
    NoProc,
    MaxFaults     \* bound, for each deployment: crashes, stops, failing calls

---------------------------------------------------------------------------
(***************************************************************************)
(* The programs.                                                           *)
(***************************************************************************)

\* Migrate: is it guarded by an advisory lock, and how many files has it?
TenantIdentityMigrate == [locked |-> TRUE, files |-> 3]
HistoricalMigrate == [locked |-> TRUE, files |-> 1]
WorkerPoolMigrate == [locked |-> TRUE, files |-> 2]
TaskRouterMigrate == [locked |-> FALSE, files |-> 4]
NoMigrate == [locked |-> FALSE, files |-> 0]

\* ensureRuntimeRole: the role a service creates.
TenantIdentityRole == [name |-> "ccaas_app", bypassesRLS |-> FALSE]
HistoricalRole == [name |-> "ccaas_app", bypassesRLS |-> FALSE]
WorkerPoolRole == [name |-> "ccaas_app", bypassesRLS |-> FALSE]
TaskRouterRole == [name |-> "ccaas_app", bypassesRLS |-> FALSE]

\* Variants named Bug... are faults the properties must detect: each is a
\* version of a definition after it with a mistake this code could have.
BugTaskRouterGrants == 1 .. 3
BugTaskRouterMain ==
    [start |-> "role", role |-> "track", track |-> "grant", grant |-> "files",
     files |-> "connect", connect |-> "seed",
     seed |-> "stream", stream |-> "verifier", verifier |-> "serving"]

\* grantRuntimeRolePrivileges: the files whose tables the GRANT names.
TenantIdentityGrants == 1 .. 3
HistoricalGrants == {1}
WorkerPoolGrants == 1 .. 2
TaskRouterGrants == 1 .. 4

\* main: the step after each step.  Migrate is role, files, grant.
TenantIdentityMain ==
    [start |-> "role", role |-> "files", files |-> "grant",
     grant |-> "connect", connect |-> "key", key |-> "serving"]
HistoricalMain ==
    [start |-> "verifier", verifier |-> "role", role |-> "files",
     files |-> "grant", grant |-> "connect", connect |-> "stream",
     stream |-> "serving"]
WorkerPoolMain ==
    [start |-> "verifier", verifier |-> "role", role |-> "files",
     files |-> "grant", grant |-> "connect", connect |-> "stream",
     stream |-> "serving"]
TaskRouterMain ==
    [start |-> "role", role |-> "track", track |-> "files",
     files |-> "grant", grant |-> "connect", connect |-> "seed",
     seed |-> "stream", stream |-> "verifier", verifier |-> "serving"]
AgentPresenceMain ==
    [start |-> "verifier", verifier |-> "subscribe",
     subscribe |-> "serving"]
VoiceGatewayMain == [start |-> "verifier", verifier |-> "serving"]
WorkflowMain == [start |-> "verifier", verifier |-> "serving"]

Program ==
    [TenantIdentity |->
        [main |-> TenantIdentityMain, migrate |-> TenantIdentityMigrate,
         role |-> TenantIdentityRole, grants |-> TenantIdentityGrants],
     Historical |->
        [main |-> HistoricalMain, migrate |-> HistoricalMigrate,
         role |-> HistoricalRole, grants |-> HistoricalGrants],
     WorkerPool |->
        [main |-> WorkerPoolMain, migrate |-> WorkerPoolMigrate,
         role |-> WorkerPoolRole, grants |-> WorkerPoolGrants],
     TaskRouter |->
        [main |-> TaskRouterMain, migrate |-> TaskRouterMigrate,
         role |-> TaskRouterRole, grants |-> TaskRouterGrants],
     AgentPresence |-> [main |-> AgentPresenceMain, migrate |-> NoMigrate],
     VoiceGateway |-> [main |-> VoiceGatewayMain, migrate |-> NoMigrate],
     Workflow |-> [main |-> WorkflowMain, migrate |-> NoMigrate]]
Services == DOMAIN Program

ASSUME StartupConstants ==
    /\ Deployments \subseteq [Procs -> Services]
    /\ NoKey \notin Keys
    /\ NoProc \notin Procs
    /\ MaxFaults \in [Deployments -> Nat]

VARIABLES
    service,    \* the service each process runs
    at,         \* what each process does next
    file,       \* the migration file it is at
    saw,        \* what it read before it writes
    key,        \* the signing key tenant identity holds, generated or loaded
    verifier,   \* the public key a process verifies tokens with
    roles,      \* pg_roles
    lock,       \* the holder of each service's advisory lock
    tracked,    \* services whose schema_migrations table exists
    tables,     \* the files of each service whose tables exist
    recorded,   \* the rows of schema_migrations
    granted,    \* the files whose tables the role may use
    seeded,     \* has the bootstrap tenant its default statuses?
    persisted,  \* tenant_identity_signing_key
    banner,     \* keys that a replica has logged at start-up
    configMap,  \* the key the operator has distributed
    stream,     \* does TASK_ROUTER_EVENTS exist?
    faults      \* faults so far

procVars == <<at, file, saw, key, verifier>>
schema == <<roles, tracked, tables, recorded, granted>>
trust == <<persisted, banner, configMap>>
startupVars == <<service, procVars, schema, seeded, lock, trust, stream, faults>>

Prog(p) == Program[service[p]]
Locked(p) == Prog(p).migrate.locked
Files(s) == 1 .. Program[s].migrate.files
Siblings(p) == {q \in Procs \ {p} : service[q] = service[p]}
RoleExists(p) == \E r \in roles : r.name = Prog(p).role.name

Labels ==
    {"down", "verifier", "role", "roleSeen", "track", "trackSeen", "files",
     "apply", "grant", "granting", "raced", "connect", "key", "insert",
     "reload", "seed", "stream", "subscribe", "serving"}

TypeOK ==
    /\ service \in Deployments
    /\ at \in [Procs -> Labels]
    /\ file \in [Procs -> 1 .. 5]
    /\ saw \in [Procs -> BOOLEAN]
    /\ key \in [Procs -> Keys \cup {NoKey}]
    /\ verifier \in [Procs -> Keys \cup {NoKey}]
    /\ roles \subseteq [name : {"ccaas_app"}, bypassesRLS : BOOLEAN]
    /\ lock \in [Services -> Procs \cup {NoProc}]
    /\ tracked \subseteq Services
    /\ \A f \in {tables, recorded, granted} :
          f \in [Services -> SUBSET (1 .. 4)]
    /\ persisted \in Keys \cup {NoKey}
    /\ banner \subseteq Keys
    /\ configMap \in Keys \cup {NoKey}
    /\ seeded \in BOOLEAN /\ stream \in BOOLEAN
    /\ faults \in 0 .. MaxFaults[service]

StartupInit ==
    /\ service \in Deployments
    /\ at = [p \in Procs |-> "down"]
    /\ file = [p \in Procs |-> 1]
    /\ saw = [p \in Procs |-> FALSE]
    /\ key = [p \in Procs |-> NoKey]
    /\ verifier = [p \in Procs |-> NoKey]
    /\ roles = {}
    /\ lock = [s \in Services |-> NoProc]
    /\ tracked = {}
    /\ tables = [s \in Services |-> {}]
    /\ recorded = [s \in Services |-> {}]
    /\ granted = [s \in Services |-> {}]
    /\ persisted = NoKey
    /\ banner = {}
    /\ configMap = NoKey
    /\ seeded = FALSE /\ stream = FALSE
    /\ faults = 0

---------------------------------------------------------------------------
(***************************************************************************)
(* Steps.                                                                  *)
(***************************************************************************)
Goto(p, label) == at' = [at EXCEPT ![p] = label]
Done(p, step) == Goto(p, Prog(p).main[step])

\* pg_advisory_xact_lock waits for the lock; the end of the transaction,
\* or of the connection, gives it back.
Acquire(p) ==
    /\ Locked(p) => lock[service[p]] = NoProc
    /\ lock' = IF Locked(p) THEN [lock EXCEPT ![service[p]] = p] ELSE lock
Release(p) ==
    lock' = [s \in Services |-> IF lock[s] = p THEN NoProc ELSE lock[s]]

\* os.Exit, always after an error: nothing of the process is left, and
\* Postgres rolls its transaction back.
Exit(p) ==
    /\ Goto(p, "down")
    /\ file' = [file EXCEPT ![p] = 1]
    /\ saw' = [saw EXCEPT ![p] = FALSE]
    /\ key' = [key EXCEPT ![p] = NoKey]
    /\ verifier' = [verifier EXCEPT ![p] = NoKey]
    /\ Release(p)
    /\ UNCHANGED <<schema, seeded, trust, stream>>

\* The orchestrator starts a process that is not running.
Start(p) ==
    /\ at[p] = "down"
    /\ Done(p, "start")
    /\ UNCHANGED <<file, saw, key, verifier, schema, seeded, lock, trust,
                   stream>>

\* LoadVerifierFromFile: no key has been distributed yet, or there is one.
LoadVerifier(p) ==
    /\ at[p] = "verifier"
    /\ IF configMap = NoKey
       THEN Exit(p)
       ELSE /\ verifier' = [verifier EXCEPT ![p] = configMap]
            /\ Done(p, "verifier")
            /\ UNCHANGED <<file, saw, key, schema, seeded, lock, trust, stream>>

\* The DO block reads pg_roles, within the locked transaction if there is
\* one, ...
RoleCheck(p) ==
    /\ at[p] = "role"
    /\ Acquire(p)
    /\ saw' = [saw EXCEPT ![p] = RoleExists(p)]
    /\ Goto(p, "roleSeen")
    /\ UNCHANGED <<file, key, verifier, schema, seeded, trust, stream>>

\* ... and creates the role it did not see.  Roles belong to the cluster
\* and the services lock different keys: another service may have been
\* first, and its row makes this one fail.  A locked service creates its
\* schema_migrations in the same transaction.
RoleCommit(p) ==
    /\ at[p] = "roleSeen"
    /\ IF ~saw[p] /\ RoleExists(p)
       THEN Exit(p)
       ELSE /\ roles' = IF saw[p] THEN roles ELSE roles \cup {Prog(p).role}
            /\ tracked' = IF Locked(p) THEN tracked \cup {service[p]} ELSE tracked
            /\ Release(p)
            /\ Done(p, "role")
            /\ UNCHANGED <<file, saw, key, verifier, tables, recorded, granted,
                           seeded, trust, stream>>

\* The task router's CREATE TABLE IF NOT EXISTS, without a lock: two
\* replicas can both find the table missing.
TrackCheck(p) ==
    /\ at[p] = "track"
    /\ saw' = [saw EXCEPT ![p] = service[p] \in tracked]
    /\ Goto(p, "trackSeen")
    /\ UNCHANGED <<file, key, verifier, schema, seeded, lock, trust, stream>>
TrackCommit(p) ==
    /\ at[p] = "trackSeen"
    /\ IF ~saw[p] /\ service[p] \in tracked
       THEN Exit(p)
       ELSE /\ tracked' = tracked \cup {service[p]}
            /\ Done(p, "track")
            /\ UNCHANGED <<file, saw, key, verifier, roles, tables, recorded,
                           granted, seeded, lock, trust, stream>>

\* Is the next file recorded?  Nothing is locked between this and Apply.
FilesCheck(p) ==
    /\ at[p] = "files"
    /\ \/ /\ file[p] \notin Files(service[p])
          /\ Done(p, "files")
          /\ UNCHANGED file
       \/ /\ file[p] \in recorded[service[p]]
          /\ file' = [file EXCEPT ![p] = @ + 1]
          /\ UNCHANGED at
       \/ /\ file[p] \in Files(service[p]) \ recorded[service[p]]
          /\ Goto(p, "apply")
          /\ UNCHANGED file
    /\ UNCHANGED <<saw, key, verifier, schema, seeded, lock, trust, stream>>

BugApply(p) ==
    LET s == service[p] IN
    /\ at[p] = "apply"
    /\ tables' = [tables EXCEPT ![s] = @ \cup {file[p]}]
    /\ file' = [file EXCEPT ![p] = @ + 1]
    /\ Goto(p, "files")
    /\ UNCHANGED <<saw, key, verifier, roles, tracked, granted, recorded, seeded,
                   lock, trust, stream>>

\* One transaction creates the file's tables and records it; a sibling that
\* was first makes both statements fail.
Apply(p) ==
    LET s == service[p] IN
    /\ at[p] = "apply"
    /\ IF file[p] \in tables[s] \cup recorded[s]
       THEN Exit(p)
       ELSE /\ tables' = [tables EXCEPT ![s] = @ \cup {file[p]}]
            /\ recorded' = [recorded EXCEPT ![s] = @ \cup {file[p]}]
            /\ file' = [file EXCEPT ![p] = @ + 1]
            /\ Goto(p, "files")
            /\ UNCHANGED <<saw, key, verifier, roles, tracked, granted, seeded,
                           lock, trust, stream>>

\* GRANT reads the tables' ACLs and commits new ones.  Two that overlap
\* fail the later with "tuple concurrently updated".
GrantBegin(p) ==
    /\ at[p] = "grant"
    /\ Acquire(p)
    /\ Goto(p, "granting")
    /\ UNCHANGED <<file, saw, key, verifier, schema, seeded, trust, stream>>
GrantCommit(p) ==
    LET s == service[p] IN
    /\ at[p] = "granting"
    /\ IF ~RoleExists(p) \/ s \notin tracked \/ ~(Prog(p).grants \subseteq tables[s])
       THEN Exit(p)
       ELSE /\ granted' = [granted EXCEPT ![s] = @ \cup Prog(p).grants]
            /\ at' = [q \in Procs |->
                         CASE q = p -> Prog(p).main.grant
                           [] q \in Siblings(p) /\ at[q] = "granting" -> "raced"
                           [] OTHER -> at[q]]
            /\ Release(p)
            /\ UNCHANGED <<file, saw, key, verifier, roles, tracked, tables,
                           recorded, seeded, trust, stream>>
GrantRaced(p) == at[p] = "raced" /\ Exit(p)

\* The pool that serves logs in as the runtime role.
Connect(p) ==
    /\ at[p] = "connect"
    /\ IF RoleExists(p)
       THEN /\ Done(p, "connect")
            /\ UNCHANGED <<file, saw, key, verifier, schema, seeded, lock, trust,
                           stream>>
       ELSE Exit(p)

\* LoadOrGenerate: read the persisted key; if there is none generate one,
\* insert it unless a row has appeared, and load what the table holds.
\* main logs the public half of what it got and verifies with it.
UseKey(p) ==
    /\ key' = [key EXCEPT ![p] = persisted]
    /\ verifier' = [verifier EXCEPT ![p] = persisted]
    /\ banner' = banner \cup {persisted}
    /\ Done(p, "key")
    /\ UNCHANGED <<file, saw, schema, seeded, lock, persisted, configMap, stream>>
KeyLoad(p) ==
    /\ at[p] = "key"
    /\ IF granted[service[p]] = {}
       THEN Exit(p)
       ELSE \/ persisted # NoKey /\ UseKey(p)
            \/ /\ persisted = NoKey
               /\ \E k \in Keys \ {key[q] : q \in Procs} :
                     key' = [key EXCEPT ![p] = k]
               /\ Goto(p, "insert")
               /\ UNCHANGED <<file, saw, verifier, schema, seeded, lock, trust,
                              stream>>

KeyInsert(p) ==
    /\ at[p] = "insert"
    /\ persisted' = IF persisted = NoKey THEN key[p] ELSE persisted
    /\ Goto(p, "reload")
    /\ UNCHANGED <<file, saw, key, verifier, schema, seeded, lock, banner,
                   configMap, stream>>
BugKeyReload(p) ==
    /\ at[p] = "reload"
    /\ verifier' = [verifier EXCEPT ![p] = key[p]]
    /\ banner' = banner \cup {key[p]}
    /\ Done(p, "key")
    /\ UNCHANGED <<file, saw, key, schema, seeded, lock, persisted, configMap,
                   stream>>

KeyReload(p) ==
    at[p] = "reload" /\ IF persisted = NoKey THEN Exit(p) ELSE UseKey(p)

\* EnsureDefaultStatuses for the bootstrap tenant: inserts that do nothing
\* where the row exists.
Seed(p) ==
    /\ at[p] = "seed"
    /\ IF granted[service[p]] = {}
       THEN Exit(p)
       ELSE /\ seeded' = TRUE
            /\ Done(p, "seed")
            /\ UNCHANGED <<file, saw, key, verifier, schema, lock, trust, stream>>

\* EnsureStream creates or updates; a service that only reads events needs
\* the stream to be there.
EnsureStream(p) ==
    /\ at[p] = "stream"
    /\ stream' = TRUE
    /\ Done(p, "stream")
    /\ UNCHANGED <<file, saw, key, verifier, schema, seeded, lock, trust>>
SubscribeEphemeral(p) ==
    /\ at[p] = "subscribe"
    /\ IF stream
       THEN /\ Done(p, "subscribe")
            /\ UNCHANGED <<file, saw, key, verifier, schema, seeded, lock, trust,
                           stream>>
       ELSE Exit(p)

\* The operator copies a key from a replica's log to the other services.
Distribute ==
    /\ configMap = NoKey
    /\ configMap' \in banner
    /\ UNCHANGED <<service, procVars, schema, seeded, lock, persisted, banner,
                   stream, faults>>

\* The process dies, is told to stop, or a call to Postgres, Redis or NATS
\* fails.
Crash(p) ==
    /\ at[p] # "down" /\ faults < MaxFaults[service]
    /\ faults' = faults + 1
    /\ Exit(p)
    /\ UNCHANGED service

Step(p) ==
    /\ \/ Start(p) \/ LoadVerifier(p)
       \/ RoleCheck(p) \/ RoleCommit(p) \/ TrackCheck(p) \/ TrackCommit(p)
       \/ FilesCheck(p) \/ Apply(p)
       \/ GrantBegin(p) \/ GrantCommit(p) \/ GrantRaced(p)
       \/ Connect(p) \/ KeyLoad(p) \/ KeyInsert(p) \/ KeyReload(p)
       \/ Seed(p) \/ EnsureStream(p) \/ SubscribeEphemeral(p)
    /\ UNCHANGED <<service, faults>>

StartupNext == Distribute \/ \E p \in Procs : Step(p) \/ Crash(p)
StartupSpec == StartupInit /\ [][StartupNext]_startupVars

---------------------------------------------------------------------------
(***************************************************************************)
(* Properties.                                                             *)
(***************************************************************************)

\* Every replica that has started to sign, every key that was logged, the
\* key the operator distributed and every verifier in use are the one
\* persisted key, whichever replicas raced to generate it (LoadOrGenerate).
OneSigningKey ==
    /\ banner \cup {configMap} \subseteq {persisted, NoKey}
    /\ \A p \in Procs :
          /\ verifier[p] \in {persisted, NoKey}
          /\ at[p] = "serving" => verifier[p] = persisted /\ persisted # NoKey
          /\ at[p] = "serving" /\ service[p] = "TenantIdentity" =>
                key[p] = persisted

\* A persisted key is never replaced, so tokens signed before a restart
\* remain verifiable after it.
KeyNeverChanges == [][persisted # NoKey => persisted' = persisted]_persisted

\* Whatever replicas race and wherever one dies, the files recorded are the
\* files applied, and they are the first ones, in order (Migrate).
MigrationsInOrder ==
    \A s \in Services :
        /\ recorded[s] = tables[s]
        /\ \A f \in tables[s] : 1 .. f \subseteq tables[s]

\* A process that serves runs as a role that cannot bypass row-level
\* security, on a complete schema it has every privilege on.
ServingIsProvisioned ==
    \A p \in Procs :
        at[p] = "serving" =>
            /\ \A r \in roles : ~r.bypassesRLS
            /\ Files(service[p]) # {} => RoleExists(p)
            /\ Files(service[p]) \subseteq recorded[service[p]] \cap granted[service[p]]

\* However the starts are ordered, and after the faults stop, every process
\* comes to serve and stays up: the loser of each race finds the winner's
\* work when it is started again.
AllServe == <>[](\A p \in Procs : at[p] = "serving")
=============================================================================
