--------------------------- MODULE Startup_proofs ---------------------------
(***************************************************************************)
(* Theorems about start-up, for any processes, any deployment of the seven *)
(* services on them, any number of faults, and beside the consumer of      *)
(* historical reporting.                                                   *)
(*                                                                         *)
(* What a process may rely on depends on how far its main has come.  The   *)
(* inductive invariant says, for each service, which steps come after the  *)
(* role, the migrations, the grants and the verifier; MainIsOrdered is     *)
(* where the mains themselves are looked at.                               *)
(***************************************************************************)
EXTENDS HistoryConsumer, SequenceTheorems, TLAPS

---------------------------------------------------------------------------
(***************************************************************************)
(* The mains.                                                              *)
(***************************************************************************)

\* The step of main that a label belongs to.
Stage(l) ==
    IF l = "roleSeen" THEN "role"
    ELSE IF l = "trackSeen" THEN "track"
    ELSE IF l = "apply" THEN "files"
    ELSE IF l \in {"granting", "raced"} THEN "grant"
    ELSE IF l \in {"insert", "reload"} THEN "key"
    ELSE l

\* The steps of all mains, and those of one service.
Stages ==
    {"verifier", "role", "track", "files", "grant", "connect", "key", "seed",
     "stream", "subscribe", "serving"}
Path(s) == (DOMAIN Program[s].main \ {"start"}) \cup {"serving"}

\* The steps that come after the role, the files, the grants, the verifier.
Late(s) == IF s = "TaskRouter" THEN {"verifier"} ELSE {}
AfterGrant(s) ==
    {"connect", "key", "seed", "stream", "subscribe", "serving"} \cup Late(s)
AfterFiles(s) == {"grant"} \cup AfterGrant(s)
AfterRole(s) == {"track", "files"} \cup AfterFiles(s)
AfterVerifier(s) ==
    IF s \in {"TenantIdentity", "TaskRouter"} THEN {"serving"}
    ELSE Stages \ {"verifier"}

\* From l to n, main skips nothing that n relies on.
OrderedStep(s, l, n) ==
    /\ n \in AfterVerifier(s) => l \in AfterVerifier(s) \cup {"verifier", "key"}
    /\ n \in AfterRole(s) => l \in AfterRole(s) \cup {"role"} \/ Files(s) = {}
    /\ n \in AfterFiles(s) => l \in AfterFiles(s) \cup {"files"} \/ Files(s) = {}
    /\ n \in AfterGrant(s) => l \in AfterGrant(s) \cup {"grant"} \/ Files(s) = {}
    /\ s = "TenantIdentity" /\ n = "serving" => l = "key"

AppRole == [name |-> "ccaas_app", bypassesRLS |-> FALSE]
Ordered(s) ==
    /\ "start" \in DOMAIN Program[s].main
    /\ \A l \in DOMAIN Program[s].main :
          /\ Program[s].main[l] \in Path(s)
          /\ OrderedStep(s, l, Program[s].main[l])
    /\ Path(s) \subseteq Stages
    /\ Program[s].migrate.files \in 0 .. 4
    /\ Files(s) # {} => Program[s].role = AppRole /\ Program[s].grants = Files(s)
    /\ "role" \in Path(s) \/ "grant" \in Path(s) => Files(s) # {}

LEMMA ServicesAre ==
    Services = {"TenantIdentity", "Historical", "WorkerPool", "TaskRouter",
                "AgentPresence", "VoiceGateway", "Workflow"}
BY DEF Services, Program

LEMMA TenantIdentityOrdered == Ordered("TenantIdentity")
<1>1. Program["TenantIdentity"].main = TenantIdentityMain /\ Program["TenantIdentity"].migrate = TenantIdentityMigrate
       /\ Program["TenantIdentity"].role = TenantIdentityRole /\ Program["TenantIdentity"].grants = TenantIdentityGrants
  BY DEF Program
<1>2. DOMAIN TenantIdentityMain =
       {"start", "role", "files", "grant", "connect", "key"}
  BY DEF TenantIdentityMain
<1>3. TenantIdentityMain["start"] = "role" /\
       TenantIdentityMain["role"] = "files" /\
       TenantIdentityMain["files"] = "grant" /\
       TenantIdentityMain["grant"] = "connect" /\
       TenantIdentityMain["connect"] = "key" /\
       TenantIdentityMain["key"] = "serving"
  BY DEF TenantIdentityMain
<1>4. Path("TenantIdentity") =
       {"role", "files", "grant", "connect", "key", "serving"}
  BY <1>1, <1>2 DEF Path
<1>5. Program["TenantIdentity"].migrate.files = 3 /\ Files("TenantIdentity") = 1 .. 3
  BY <1>1 DEF TenantIdentityMigrate, Files
<1>6. \A l \in DOMAIN TenantIdentityMain : TenantIdentityMain[l] \in Path("TenantIdentity")
  BY <1>2, <1>3, <1>4
<1>7. \A l \in DOMAIN TenantIdentityMain : OrderedStep("TenantIdentity", l, TenantIdentityMain[l])
  BY <1>2, <1>3, <1>5 DEF OrderedStep, AfterVerifier, AfterRole, AfterFiles, AfterGrant,
     Late, Stages
<1>8. Path("TenantIdentity") \subseteq Stages
  BY <1>4 DEF Stages
<1>9. TenantIdentityRole = AppRole /\ TenantIdentityGrants = Files("TenantIdentity") /\ Files("TenantIdentity") # {}
  BY <1>5 DEF TenantIdentityRole, TenantIdentityGrants, AppRole
<1>10. QED
  BY <1>1, <1>2, <1>5, <1>6, <1>7, <1>8, <1>9 DEF Ordered

LEMMA HistoricalOrdered == Ordered("Historical")
<1>1. Program["Historical"].main = HistoricalMain /\ Program["Historical"].migrate = HistoricalMigrate
       /\ Program["Historical"].role = HistoricalRole /\ Program["Historical"].grants = HistoricalGrants
  BY DEF Program
<1>2. DOMAIN HistoricalMain =
       {"start", "verifier", "role", "files", "grant", "connect", "stream"}
  BY DEF HistoricalMain
<1>3. HistoricalMain["start"] = "verifier" /\
       HistoricalMain["verifier"] = "role" /\
       HistoricalMain["role"] = "files" /\
       HistoricalMain["files"] = "grant" /\
       HistoricalMain["grant"] = "connect" /\
       HistoricalMain["connect"] = "stream" /\
       HistoricalMain["stream"] = "serving"
  BY DEF HistoricalMain
<1>4. Path("Historical") =
       {"verifier", "role", "files", "grant", "connect", "stream", "serving"}
  BY <1>1, <1>2 DEF Path
<1>5. Program["Historical"].migrate.files = 1 /\ Files("Historical") = 1 .. 1
  BY <1>1 DEF HistoricalMigrate, Files
<1>6. \A l \in DOMAIN HistoricalMain : HistoricalMain[l] \in Path("Historical")
  BY <1>2, <1>3, <1>4
<1>7. \A l \in DOMAIN HistoricalMain : OrderedStep("Historical", l, HistoricalMain[l])
  BY <1>2, <1>3, <1>5 DEF OrderedStep, AfterVerifier, AfterRole, AfterFiles, AfterGrant,
     Late, Stages
<1>8. Path("Historical") \subseteq Stages
  BY <1>4 DEF Stages
<1>9. HistoricalRole = AppRole /\ HistoricalGrants = Files("Historical") /\ Files("Historical") # {}
  BY <1>5 DEF HistoricalRole, HistoricalGrants, AppRole
<1>10. QED
  BY <1>1, <1>2, <1>5, <1>6, <1>7, <1>8, <1>9 DEF Ordered

LEMMA WorkerPoolOrdered == Ordered("WorkerPool")
<1>1. Program["WorkerPool"].main = WorkerPoolMain /\ Program["WorkerPool"].migrate = WorkerPoolMigrate
       /\ Program["WorkerPool"].role = WorkerPoolRole /\ Program["WorkerPool"].grants = WorkerPoolGrants
  BY DEF Program
<1>2. DOMAIN WorkerPoolMain =
       {"start", "verifier", "role", "files", "grant", "connect", "stream"}
  BY DEF WorkerPoolMain
<1>3. WorkerPoolMain["start"] = "verifier" /\
       WorkerPoolMain["verifier"] = "role" /\
       WorkerPoolMain["role"] = "files" /\
       WorkerPoolMain["files"] = "grant" /\
       WorkerPoolMain["grant"] = "connect" /\
       WorkerPoolMain["connect"] = "stream" /\
       WorkerPoolMain["stream"] = "serving"
  BY DEF WorkerPoolMain
<1>4. Path("WorkerPool") =
       {"verifier", "role", "files", "grant", "connect", "stream", "serving"}
  BY <1>1, <1>2 DEF Path
<1>5. Program["WorkerPool"].migrate.files = 2 /\ Files("WorkerPool") = 1 .. 2
  BY <1>1 DEF WorkerPoolMigrate, Files
<1>6. \A l \in DOMAIN WorkerPoolMain : WorkerPoolMain[l] \in Path("WorkerPool")
  BY <1>2, <1>3, <1>4
<1>7. \A l \in DOMAIN WorkerPoolMain : OrderedStep("WorkerPool", l, WorkerPoolMain[l])
  BY <1>2, <1>3, <1>5 DEF OrderedStep, AfterVerifier, AfterRole, AfterFiles, AfterGrant,
     Late, Stages
<1>8. Path("WorkerPool") \subseteq Stages
  BY <1>4 DEF Stages
<1>9. WorkerPoolRole = AppRole /\ WorkerPoolGrants = Files("WorkerPool") /\ Files("WorkerPool") # {}
  BY <1>5 DEF WorkerPoolRole, WorkerPoolGrants, AppRole
<1>10. QED
  BY <1>1, <1>2, <1>5, <1>6, <1>7, <1>8, <1>9 DEF Ordered

LEMMA TaskRouterOrdered == Ordered("TaskRouter")
<1>1. Program["TaskRouter"].main = TaskRouterMain /\ Program["TaskRouter"].migrate = TaskRouterMigrate
       /\ Program["TaskRouter"].role = TaskRouterRole /\ Program["TaskRouter"].grants = TaskRouterGrants
  BY DEF Program
<1>2. DOMAIN TaskRouterMain =
       {"start", "role", "track", "files", "grant", "connect", "seed",
        "stream", "verifier"}
  BY DEF TaskRouterMain
<1>3. TaskRouterMain["start"] = "role" /\
       TaskRouterMain["role"] = "track" /\
       TaskRouterMain["track"] = "files" /\
       TaskRouterMain["files"] = "grant" /\
       TaskRouterMain["grant"] = "connect" /\
       TaskRouterMain["connect"] = "seed" /\
       TaskRouterMain["seed"] = "stream" /\
       TaskRouterMain["stream"] = "verifier" /\
       TaskRouterMain["verifier"] = "serving"
  BY DEF TaskRouterMain
<1>4. Path("TaskRouter") =
       {"role", "track", "files", "grant", "connect", "seed", "stream",
        "verifier", "serving"}
  BY <1>1, <1>2 DEF Path
<1>5. Program["TaskRouter"].migrate.files = 4 /\ Files("TaskRouter") = 1 .. 4
  BY <1>1 DEF TaskRouterMigrate, Files
<1>6. \A l \in DOMAIN TaskRouterMain : TaskRouterMain[l] \in Path("TaskRouter")
  BY <1>2, <1>3, <1>4
<1>7. \A l \in DOMAIN TaskRouterMain : OrderedStep("TaskRouter", l, TaskRouterMain[l])
  BY <1>2, <1>3, <1>5 DEF OrderedStep, AfterVerifier, AfterRole, AfterFiles, AfterGrant,
     Late, Stages
<1>8. Path("TaskRouter") \subseteq Stages
  BY <1>4 DEF Stages
<1>9. TaskRouterRole = AppRole /\ TaskRouterGrants = Files("TaskRouter") /\ Files("TaskRouter") # {}
  BY <1>5 DEF TaskRouterRole, TaskRouterGrants, AppRole
<1>10. QED
  BY <1>1, <1>2, <1>5, <1>6, <1>7, <1>8, <1>9 DEF Ordered

LEMMA AgentPresenceOrdered == Ordered("AgentPresence")
<1>1. Program["AgentPresence"].main = AgentPresenceMain /\ Program["AgentPresence"].migrate = NoMigrate
  BY DEF Program
<1>2. DOMAIN AgentPresenceMain =
       {"start", "verifier", "subscribe"}
  BY DEF AgentPresenceMain
<1>3. AgentPresenceMain["start"] = "verifier" /\
       AgentPresenceMain["verifier"] = "subscribe" /\
       AgentPresenceMain["subscribe"] = "serving"
  BY DEF AgentPresenceMain
<1>4. Path("AgentPresence") =
       {"verifier", "subscribe", "serving"}
  BY <1>1, <1>2 DEF Path
<1>5. Program["AgentPresence"].migrate.files = 0 /\ Files("AgentPresence") = 1 .. 0
  BY <1>1 DEF NoMigrate, Files
<1>6. \A l \in DOMAIN AgentPresenceMain : AgentPresenceMain[l] \in Path("AgentPresence")
  BY <1>2, <1>3, <1>4
<1>7. \A l \in DOMAIN AgentPresenceMain : OrderedStep("AgentPresence", l, AgentPresenceMain[l])
  BY <1>2, <1>3, <1>5 DEF OrderedStep, AfterVerifier, AfterRole, AfterFiles, AfterGrant,
     Late, Stages
<1>8. Path("AgentPresence") \subseteq Stages
  BY <1>4 DEF Stages
<1>9. Files("AgentPresence") = {} /\ ~("role" \in Path("AgentPresence") \/ "grant" \in Path("AgentPresence"))
  BY <1>4, <1>5
<1>10. QED
  BY <1>1, <1>2, <1>5, <1>6, <1>7, <1>8, <1>9 DEF Ordered

LEMMA VoiceGatewayOrdered == Ordered("VoiceGateway")
<1>1. Program["VoiceGateway"].main = VoiceGatewayMain /\ Program["VoiceGateway"].migrate = NoMigrate
  BY DEF Program
<1>2. DOMAIN VoiceGatewayMain =
       {"start", "verifier"}
  BY DEF VoiceGatewayMain
<1>3. VoiceGatewayMain["start"] = "verifier" /\
       VoiceGatewayMain["verifier"] = "serving"
  BY DEF VoiceGatewayMain
<1>4. Path("VoiceGateway") =
       {"verifier", "serving"}
  BY <1>1, <1>2 DEF Path
<1>5. Program["VoiceGateway"].migrate.files = 0 /\ Files("VoiceGateway") = 1 .. 0
  BY <1>1 DEF NoMigrate, Files
<1>6. \A l \in DOMAIN VoiceGatewayMain : VoiceGatewayMain[l] \in Path("VoiceGateway")
  BY <1>2, <1>3, <1>4
<1>7. \A l \in DOMAIN VoiceGatewayMain : OrderedStep("VoiceGateway", l, VoiceGatewayMain[l])
  BY <1>2, <1>3, <1>5 DEF OrderedStep, AfterVerifier, AfterRole, AfterFiles, AfterGrant,
     Late, Stages
<1>8. Path("VoiceGateway") \subseteq Stages
  BY <1>4 DEF Stages
<1>9. Files("VoiceGateway") = {} /\ ~("role" \in Path("VoiceGateway") \/ "grant" \in Path("VoiceGateway"))
  BY <1>4, <1>5
<1>10. QED
  BY <1>1, <1>2, <1>5, <1>6, <1>7, <1>8, <1>9 DEF Ordered

LEMMA WorkflowOrdered == Ordered("Workflow")
<1>1. Program["Workflow"].main = WorkflowMain /\ Program["Workflow"].migrate = NoMigrate
  BY DEF Program
<1>2. DOMAIN WorkflowMain =
       {"start", "verifier"}
  BY DEF WorkflowMain
<1>3. WorkflowMain["start"] = "verifier" /\
       WorkflowMain["verifier"] = "serving"
  BY DEF WorkflowMain
<1>4. Path("Workflow") =
       {"verifier", "serving"}
  BY <1>1, <1>2 DEF Path
<1>5. Program["Workflow"].migrate.files = 0 /\ Files("Workflow") = 1 .. 0
  BY <1>1 DEF NoMigrate, Files
<1>6. \A l \in DOMAIN WorkflowMain : WorkflowMain[l] \in Path("Workflow")
  BY <1>2, <1>3, <1>4
<1>7. \A l \in DOMAIN WorkflowMain : OrderedStep("Workflow", l, WorkflowMain[l])
  BY <1>2, <1>3, <1>5 DEF OrderedStep, AfterVerifier, AfterRole, AfterFiles, AfterGrant,
     Late, Stages
<1>8. Path("Workflow") \subseteq Stages
  BY <1>4 DEF Stages
<1>9. Files("Workflow") = {} /\ ~("role" \in Path("Workflow") \/ "grant" \in Path("Workflow"))
  BY <1>4, <1>5
<1>10. QED
  BY <1>1, <1>2, <1>5, <1>6, <1>7, <1>8, <1>9 DEF Ordered

\* What the proofs use of the mains.
LEMMA MainIsOrdered == \A s \in Services : Ordered(s)
BY ServicesAre, TenantIdentityOrdered, HistoricalOrdered, WorkerPoolOrdered,
   TaskRouterOrdered, AgentPresenceOrdered, VoiceGatewayOrdered,
   WorkflowOrdered

---------------------------------------------------------------------------
(***************************************************************************)
(* The invariant.                                                          *)
(***************************************************************************)

\* What process p may rely on where it is.
Reliance(p) ==
    LET s == service[p]  l == Stage(at[p]) IN
    /\ at[p] # "down" => l \in Path(s)
    /\ verifier[p] \in {persisted, NoKey}
    /\ l \in AfterVerifier(s) => verifier[p] = persisted /\ persisted # NoKey
    /\ l = "serving" /\ s = "TenantIdentity" => key[p] = persisted
    /\ at[p] = "roleSeen" /\ saw[p] => AppRole \in roles
    /\ l \in AfterRole(s) /\ Files(s) # {} => AppRole \in roles
    /\ at[p] = "apply" => file[p] \in Files(s)
    /\ 1 .. (file[p] - 1) \subseteq recorded[s]
    /\ l \in AfterFiles(s) => Files(s) \subseteq recorded[s]
    /\ l \in AfterGrant(s) => Files(s) \subseteq granted[s]

\* What the processes share.
Shared ==
    /\ banner \cup {configMap} \subseteq {persisted, NoKey}
    /\ NoKey \notin banner
    /\ roles \subseteq {AppRole}
    /\ MigrationsInOrder

Provisioned == TypeOK /\ Shared /\ \A p \in Procs : Reliance(p)

\* What no step takes back.
Monotone ==
    /\ service' = service
    /\ persisted # NoKey => persisted' = persisted
    /\ roles \subseteq roles'
    /\ \A s \in Services :
          recorded[s] \subseteq recorded'[s] /\ granted[s] \subseteq granted'[s]

\* A step of p leaves q where it is; only GRANT can make it lose a race.
Aside(q) ==
    /\ at'[q] = at[q] \/ (at[q] = "granting" /\ at'[q] = "raced")
    /\ file'[q] = file[q] /\ saw'[q] = saw[q]
    /\ key'[q] = key[q] /\ verifier'[q] = verifier[q]

LEMMA StageFacts ==
    /\ Stage("down") = "down"
    /\ Stage("roleSeen") = "role" /\ Stage("trackSeen") = "track"
    /\ Stage("apply") = "files"
    /\ Stage("granting") = "grant" /\ Stage("raced") = "grant"
    /\ Stage("insert") = "key" /\ Stage("reload") = "key"
    /\ \A l \in Stages : Stage(l) = l
BY DEF Stage, Stages

LEMMA DownReliesOnNothing ==
    \A s : "down" \notin AfterVerifier(s) \cup AfterRole(s) \cup AfterFiles(s)
                         \cup AfterGrant(s) \cup Stages
BY DEF AfterVerifier, AfterRole, AfterFiles, AfterGrant, Late, Stages

\* The others may rely on what they relied on.
LEMMA OthersKept ==
    ASSUME Provisioned, Monotone, NEW q \in Procs, Aside(q)
    PROVE  Reliance(q)'
<1> DEFINE s == service[q]
           l == Stage(at[q])
<1>1. s \in Services /\ service'[q] = s
  BY StartupConstants DEF Provisioned, TypeOK, Monotone
<1>2. Reliance(q)
  BY DEF Provisioned
<1>3. Stage(at'[q]) = l
  BY StageFacts DEF Aside
<1>4. at'[q] \in {"down", "roleSeen", "apply"} => at'[q] = at[q]
  BY DEF Aside
<1>5. at'[q] # "down" => l \in Path(s)
  BY <1>2, <1>4 DEF Reliance, Aside
<1>6. /\ verifier'[q] \in {persisted', NoKey}
      /\ l \in AfterVerifier(s) => verifier'[q] = persisted' /\ persisted' # NoKey
      /\ l = "serving" /\ s = "TenantIdentity" => key'[q] = persisted'
  <2>1. CASE persisted = NoKey
    <3>1. l \notin AfterVerifier(s)
      BY <1>2, <2>1 DEF Reliance
    <3>2. l # "serving"
      BY <3>1 DEF AfterVerifier, Stages
    <3>3. QED
      BY <1>2, <2>1, <3>1, <3>2 DEF Reliance, Aside
  <2>2. CASE persisted # NoKey
    BY <1>2, <2>2 DEF Reliance, Aside, Monotone
  <2>3. QED
    BY <2>1, <2>2
<1>7. /\ at'[q] = "roleSeen" /\ saw'[q] => AppRole \in roles'
      /\ l \in AfterRole(s) /\ Files(s) # {} => AppRole \in roles'
      /\ at'[q] = "apply" => file'[q] \in Files(s)
  BY <1>2, <1>4 DEF Reliance, Aside, Monotone
<1>8. /\ 1 .. (file'[q] - 1) \subseteq recorded'[s]
      /\ l \in AfterFiles(s) => Files(s) \subseteq recorded'[s]
      /\ l \in AfterGrant(s) => Files(s) \subseteq granted'[s]
  BY <1>1, <1>2 DEF Reliance, Aside, Monotone
<1>9. QED
  BY <1>1, <1>3, <1>5, <1>6, <1>7, <1>8 DEF Reliance

\* A step of p, all told.
LEMMA StepKeeps ==
    ASSUME Provisioned, NEW p \in Procs, TypeOK', Shared', Monotone,
           \A q \in Procs \ {p} : Aside(q), Reliance(p)'
    PROVE  Provisioned'
BY OthersKept DEF Provisioned

\* Unchanged shared state.
LEMMA SharedKept ==
    ASSUME Shared, UNCHANGED <<roles, tables, recorded, trust>>
    PROVE  Shared'
BY DEF Shared, MigrationsInOrder, trust

---------------------------------------------------------------------------
(***************************************************************************)
(* Going down and going on.                                                *)
(***************************************************************************)

LEMMA ExitKeeps ==
    ASSUME Provisioned, NEW p \in Procs, Exit(p), service' = service,
           faults' \in 0 .. MaxFaults[service]
    PROVE  Provisioned'
<1> USE DEF Exit, Goto, Release, schema, trust
<1>1. TypeOK /\ Shared /\ service[p] \in Services
  BY StartupConstants DEF Provisioned, TypeOK
<1>2. TypeOK'
  <2>1. at' \in [Procs -> Labels] /\ file' \in [Procs -> 1 .. 5]
    BY <1>1 DEF TypeOK, Labels
  <2>2. saw' \in [Procs -> BOOLEAN]
    BY <1>1 DEF TypeOK
  <2>3. key' \in [Procs -> Keys \cup {NoKey}] /\ verifier' \in [Procs -> Keys \cup {NoKey}]
    BY <1>1 DEF TypeOK
  <2>4. lock' \in [Services -> Procs \cup {NoProc}]
    BY <1>1 DEF TypeOK
  <2>5. QED
    BY <1>1, <2>1, <2>2, <2>3, <2>4 DEF TypeOK
<1>3. Shared'
  BY <1>1, SharedKept
<1>4. Monotone
  BY <1>1 DEF Monotone
<1>5. \A q \in Procs \ {p} : Aside(q)
  BY <1>1 DEF Aside, TypeOK
<1>6. Reliance(p)'
  <2>1. at'[p] = "down" /\ file'[p] = 1 /\ verifier'[p] = NoKey
    BY <1>1 DEF TypeOK
  <2>2. 1 .. (file'[p] - 1) = {}
    BY <2>1
  <2>3. QED
    BY <2>1, <2>2, StageFacts, DownReliesOnNothing DEF Reliance, Stages
<1>7. QED
  BY <1>2, <1>3, <1>4, <1>5, <1>6, StepKeeps

\* Going on to the next step of main.
LEMMA NextFacts ==
    ASSUME TypeOK, NEW p \in Procs, NEW l \in DOMAIN Prog(p).main,
           at'[p] = Prog(p).main[l]
    PROVE  /\ service[p] \in Services
           /\ at'[p] \in Path(service[p]) \cap Stages
           /\ at'[p] \in Labels /\ Stage(at'[p]) = at'[p]
           /\ at'[p] \notin {"down", "roleSeen", "apply"}
           /\ OrderedStep(service[p], l, at'[p])
<1> DEFINE s == service[p]
<1>1. s \in Services
  BY StartupConstants DEF TypeOK
<1>2. Ordered(s)
  BY <1>1, MainIsOrdered
<1>3. at'[p] = Program[s].main[l]
  BY DEF Prog
<1>4. at'[p] \in Path(s) \cap Stages /\ OrderedStep(s, l, at'[p])
  BY <1>2, <1>3 DEF Ordered, Prog
<1>5. at'[p] \in Labels /\ at'[p] \notin {"down", "roleSeen", "apply"}
  BY <1>4 DEF Stages, Labels
<1>6. Stage(at'[p]) = at'[p]
  BY <1>4, StageFacts
<1>7. QED
  BY <1>1, <1>4, <1>5, <1>6

LEMMA DoneFacts ==
    ASSUME TypeOK, NEW p \in Procs, NEW l \in DOMAIN Prog(p).main, Done(p, l)
    PROVE  /\ at'[p] = Prog(p).main[l]
           /\ \A q \in Procs \ {p} : at'[q] = at[q]
           /\ at' \in [Procs -> Labels]
<1>1. at'[p] = Prog(p).main[l]
  BY DEF Done, Goto, TypeOK
<1>2. at'[p] \in Labels
  BY <1>1, NextFacts
<1>3. QED
  BY <1>1, <1>2 DEF Done, Goto, TypeOK

LEMMA GotoFacts ==
    ASSUME TypeOK, NEW p \in Procs, NEW l \in Labels, Goto(p, l)
    PROVE  /\ at'[p] = l
           /\ \A q \in Procs \ {p} : at'[q] = at[q]
           /\ at' \in [Procs -> Labels]
BY DEF Goto, TypeOK

\* A process is at a step of its own main.
LEMMA OnPath ==
    ASSUME Provisioned, NEW p \in Procs, at[p] # "down", at[p] # "serving"
    PROVE  /\ service[p] \in Services /\ Ordered(service[p])
           /\ Stage(at[p]) \in Path(service[p])
           /\ Stage(at[p]) # "serving" => Stage(at[p]) \in DOMAIN Prog(p).main
BY StartupConstants, MainIsOrdered DEF Provisioned, Reliance, Path, Prog, TypeOK

\* The next step may rely on what the last one did and all before it.
LEMMA GoneOn ==
    ASSUME Provisioned, NEW p \in Procs, Monotone,
           NEW l \in DOMAIN Prog(p).main, at'[p] = Prog(p).main[l],
           l = "start" \/ (at[p] # "down" /\ l = Stage(at[p])),
           file'[p] = file[p],
           l \in {"verifier", "key"} => verifier'[p] = persisted' /\ persisted' # NoKey,
           l \notin {"verifier", "key"} => verifier'[p] = verifier[p],
           l = "key" => key'[p] = persisted',
           l = "role" => AppRole \in roles',
           l = "files" => Files(service[p]) \subseteq recorded'[service[p]],
           l = "grant" => Files(service[p]) \subseteq granted'[service[p]]
    PROVE  Reliance(p)'
<1> DEFINE s == service[p]
           n == at'[p]
<1>1. /\ s \in Services /\ service'[p] = s
      /\ n \in Path(s) /\ Stage(n) = n
      /\ n \notin {"down", "roleSeen", "apply"}
      /\ OrderedStep(s, l, n)
  BY NextFacts DEF Provisioned, Monotone
<1>2. Reliance(p)
  BY DEF Provisioned
<1>3. "start" \notin AfterVerifier(s) \cup AfterRole(s) \cup AfterFiles(s) \cup AfterGrant(s)
  BY DEF AfterVerifier, AfterRole, AfterFiles, AfterGrant, Late, Stages
<1>4. verifier[p] \in {persisted, NoKey}
  BY <1>2 DEF Reliance
<1>5. verifier'[p] \in {persisted', NoKey}
  BY <1>4 DEF Monotone
<1>6. n \in AfterVerifier(s) => verifier'[p] = persisted' /\ persisted' # NoKey
  <2>1. CASE l \in {"verifier", "key"}
    BY <2>1
  <2>2. CASE l \notin {"verifier", "key"}
    <3>1. SUFFICES ASSUME n \in AfterVerifier(s)
                   PROVE  verifier'[p] = persisted' /\ persisted' # NoKey
      OBVIOUS
    <3>2. l \in AfterVerifier(s)
      BY <1>1, <2>2, <3>1 DEF OrderedStep
    <3>3. verifier[p] = persisted /\ persisted # NoKey
      BY <1>2, <1>3, <3>2 DEF Reliance
    <3>4. QED
      BY <2>2, <3>3 DEF Monotone
  <2>3. QED
    BY <2>1, <2>2
<1>7. n = "serving" /\ s = "TenantIdentity" => key'[p] = persisted'
  BY <1>1 DEF OrderedStep
<1>8. n \in AfterRole(s) /\ Files(s) # {} => AppRole \in roles'
  BY <1>1, <1>2, <1>3 DEF OrderedStep, Reliance, Monotone
<1>9. n \in AfterFiles(s) => Files(s) \subseteq recorded'[s]
  BY <1>1, <1>2, <1>3 DEF OrderedStep, Reliance, Monotone
<1>10. n \in AfterGrant(s) => Files(s) \subseteq granted'[s]
  BY <1>1, <1>2, <1>3 DEF OrderedStep, Reliance, Monotone
<1>11. 1 .. (file'[p] - 1) \subseteq recorded'[s]
  BY <1>1, <1>2 DEF Reliance, Monotone
<1>12. QED
  BY <1>1, <1>5, <1>6, <1>7, <1>8, <1>9, <1>10, <1>11 DEF Reliance

\* Within a step of main.
LEMMA StayedIn ==
    ASSUME Provisioned, NEW p \in Procs, Monotone,
           at[p] # "down", at[p] # "serving", at'[p] # "down",
           Stage(at'[p]) = Stage(at[p]), Stage(at[p]) # "serving",
           verifier'[p] = verifier[p],
           at'[p] = "roleSeen" /\ saw'[p] => AppRole \in roles',
           at'[p] = "apply" => file'[p] \in Files(service[p]),
           1 .. (file'[p] - 1) \subseteq recorded'[service[p]]
    PROVE  Reliance(p)'
<1> DEFINE s == service[p]
           l == Stage(at[p])
<1>1. s \in Services /\ service'[p] = s
  BY OnPath DEF Monotone
<1>2. Reliance(p)
  BY DEF Provisioned
<1>3. l \in Path(s)
  BY <1>2 DEF Reliance
<1>4. verifier'[p] \in {persisted', NoKey}
  BY <1>2 DEF Reliance, Monotone
<1>5. l \in AfterVerifier(s) => verifier'[p] = persisted' /\ persisted' # NoKey
  BY <1>2 DEF Reliance, Monotone
<1>6. l \in AfterRole(s) /\ Files(s) # {} => AppRole \in roles'
  BY <1>2 DEF Reliance, Monotone
<1>7. /\ l \in AfterFiles(s) => Files(s) \subseteq recorded'[s]
      /\ l \in AfterGrant(s) => Files(s) \subseteq granted'[s]
  BY <1>1, <1>2 DEF Reliance, Monotone
<1>8. QED
  BY <1>1, <1>3, <1>4, <1>5, <1>6, <1>7 DEF Reliance

---------------------------------------------------------------------------
(***************************************************************************)
(* One lemma for each step.                                                *)
(***************************************************************************)

LEMMA StartKeeps ==
    ASSUME Provisioned, NEW p \in Procs, Start(p), UNCHANGED <<service, faults>>
    PROVE  Provisioned'
<1> USE DEF Start, schema, trust
<1>1. TypeOK /\ Shared /\ service[p] \in Services
  BY StartupConstants DEF Provisioned, TypeOK
<1>2. "start" \in DOMAIN Prog(p).main
  BY <1>1, MainIsOrdered DEF Ordered, Prog
<1>3. /\ at'[p] = Prog(p).main["start"] /\ at' \in [Procs -> Labels]
      /\ \A q \in Procs \ {p} : at'[q] = at[q]
  BY <1>1, <1>2, DoneFacts
<1>4. TypeOK'
  BY <1>1, <1>3 DEF TypeOK
<1>5. Shared' /\ Monotone
  BY <1>1, SharedKept DEF Monotone
<1>6. \A q \in Procs \ {p} : Aside(q)
  BY <1>3 DEF Aside
<1>7. Reliance(p)'
  BY <1>2, <1>3, <1>5, GoneOn
<1>8. QED
  BY <1>4, <1>5, <1>6, <1>7, StepKeeps

LEMMA LoadVerifierKeeps ==
    ASSUME Provisioned, NEW p \in Procs, LoadVerifier(p), UNCHANGED <<service, faults>>
    PROVE  Provisioned'
<1> USE DEF LoadVerifier, schema, trust
<1>1. TypeOK /\ Shared /\ service[p] \in Services
  BY StartupConstants DEF Provisioned, TypeOK
<1>a. CASE configMap = NoKey
  BY <1>1, <1>a, ExitKeeps DEF TypeOK
<1>b. CASE configMap # NoKey
  <2>1. Stage(at[p]) = "verifier" /\ "verifier" \in DOMAIN Prog(p).main
    BY OnPath, StageFacts DEF Stages
  <2>2. Done(p, "verifier") /\ verifier' = [verifier EXCEPT ![p] = configMap]
    BY <1>b
  <2>3. /\ at'[p] = Prog(p).main["verifier"] /\ at' \in [Procs -> Labels]
        /\ \A q \in Procs \ {p} : at'[q] = at[q]
    BY <1>1, <2>1, <2>2, DoneFacts
  <2>4. configMap = persisted
    BY <1>1, <1>b DEF Shared
  <2>5. TypeOK'
    BY <1>1, <1>b, <2>2, <2>3 DEF TypeOK
  <2>6. Shared' /\ Monotone
    BY <1>1, <1>b, SharedKept DEF Monotone
  <2>7. \A q \in Procs \ {p} : Aside(q)
    BY <1>1, <1>b, <2>2, <2>3 DEF Aside, TypeOK
  <2>8. verifier'[p] = persisted' /\ persisted' # NoKey
    BY <1>1, <1>b, <2>2, <2>4 DEF TypeOK
  <2>9. Reliance(p)'
    BY <1>b, <2>1, <2>3, <2>6, <2>8, GoneOn
  <2>10. QED
    BY <2>5, <2>6, <2>7, <2>9, StepKeeps
<1>2. QED
  BY <1>a, <1>b

\* Taking and giving back a lock keeps its type.
LEMMA LockTypes ==
    ASSUME TypeOK, NEW p \in Procs, Acquire(p) \/ Release(p)
    PROVE  lock' \in [Services -> Procs \cup {NoProc}]
BY DEF Acquire, Release, TypeOK

LEMMA AppRoleType == AppRole \in [name : {"ccaas_app"}, bypassesRLS : BOOLEAN]
BY DEF AppRole

LEMMA RoleKnown ==
    ASSUME Provisioned, NEW p \in Procs, at[p] \in {"role", "roleSeen"}
    PROVE  /\ Stage(at[p]) = "role" /\ "role" \in DOMAIN Prog(p).main
           /\ Prog(p).role = AppRole
           /\ RoleExists(p) <=> AppRole \in roles
<1>1. Stage(at[p]) = "role"
  BY StageFacts DEF Stages
<1>2. /\ Ordered(service[p]) /\ "role" \in Path(service[p])
      /\ "role" \in DOMAIN Prog(p).main
  BY <1>1, OnPath
<1>3. Prog(p).role = AppRole
  BY <1>2 DEF Ordered, Prog
<1>4. roles \subseteq {AppRole}
  BY DEF Provisioned, Shared
<1>5. QED
  BY <1>1, <1>2, <1>3, <1>4 DEF RoleExists

LEMMA RoleCheckKeeps ==
    ASSUME Provisioned, NEW p \in Procs, RoleCheck(p), UNCHANGED <<service, faults>>
    PROVE  Provisioned'
<1> USE DEF RoleCheck, schema, trust
<1>1. TypeOK /\ Shared /\ service[p] \in Services
  BY StartupConstants DEF Provisioned, TypeOK
<1>2. Stage(at[p]) = "role" /\ (RoleExists(p) <=> AppRole \in roles)
  BY RoleKnown
<1>3. /\ at'[p] = "roleSeen" /\ at' \in [Procs -> Labels]
      /\ \A q \in Procs \ {p} : at'[q] = at[q]
  BY <1>1, GotoFacts DEF Labels
<1>4. saw' \in [Procs -> BOOLEAN] /\ saw'[p] = RoleExists(p)
  BY <1>1 DEF TypeOK, RoleExists
<1>5. TypeOK'
  BY <1>1, <1>3, <1>4, LockTypes DEF TypeOK
<1>6. Shared' /\ Monotone
  BY <1>1, SharedKept DEF Monotone
<1>7. \A q \in Procs \ {p} : Aside(q)
  BY <1>1, <1>3 DEF Aside, TypeOK
<1>8. 1 .. (file[p] - 1) \subseteq recorded[service[p]]
  BY DEF Provisioned, Reliance
<1>9. Reliance(p)'
  BY <1>2, <1>3, <1>4, <1>6, <1>8, StageFacts, StayedIn
<1>10. QED
  BY <1>5, <1>6, <1>7, <1>9, StepKeeps

LEMMA RoleCommitKeeps ==
    ASSUME Provisioned, NEW p \in Procs, RoleCommit(p), UNCHANGED <<service, faults>>
    PROVE  Provisioned'
<1> USE DEF RoleCommit, schema, trust
<1>1. TypeOK /\ Shared /\ service[p] \in Services
  BY StartupConstants DEF Provisioned, TypeOK
<1>2. /\ Stage(at[p]) = "role" /\ "role" \in DOMAIN Prog(p).main
      /\ Prog(p).role = AppRole
  BY RoleKnown
<1>a. CASE ~saw[p] /\ RoleExists(p)
  BY <1>1, <1>a, ExitKeeps DEF TypeOK
<1>b. CASE ~(~saw[p] /\ RoleExists(p))
  <2>1. /\ roles' = IF saw[p] THEN roles ELSE roles \cup {AppRole}
        /\ Release(p) /\ Done(p, "role")
        /\ tracked' \in {tracked, tracked \cup {service[p]}}
        /\ UNCHANGED <<file, saw, key, verifier, tables, recorded, granted,
                       seeded, trust, stream>>
    BY <1>b, <1>2
  <2>2. AppRole \in roles' /\ roles' \subseteq {AppRole} /\ roles \subseteq roles'
    BY <1>1, <2>1 DEF Provisioned, Reliance, Shared
  <2>3. /\ at'[p] = Prog(p).main["role"] /\ at' \in [Procs -> Labels]
        /\ \A q \in Procs \ {p} : at'[q] = at[q]
    BY <1>1, <1>2, <2>1, DoneFacts
  <2>4. lock' \in [Services -> Procs \cup {NoProc}]
    BY <1>1, <2>1, LockTypes
  <2>5. roles' \subseteq [name : {"ccaas_app"}, bypassesRLS : BOOLEAN]
    BY <2>2, AppRoleType
  <2>6. TypeOK'
    BY <1>1, <2>1, <2>3, <2>4, <2>5 DEF TypeOK
  <2>7. Shared'
    BY <1>1, <2>1, <2>2 DEF Shared, MigrationsInOrder
  <2>8. Monotone
    BY <2>1, <2>2 DEF Monotone
  <2>9. \A q \in Procs \ {p} : Aside(q)
    BY <2>1, <2>3 DEF Aside
  <2>10. Reliance(p)'
    BY <1>2, <2>1, <2>2, <2>3, <2>8, GoneOn
  <2>11. QED
    BY <2>6, <2>7, <2>8, <2>9, <2>10, StepKeeps
<1>3. QED
  BY <1>a, <1>b

LEMMA TrackCheckKeeps ==
    ASSUME Provisioned, NEW p \in Procs, TrackCheck(p), UNCHANGED <<service, faults>>
    PROVE  Provisioned'
<1> USE DEF TrackCheck, schema, trust
<1>1. TypeOK /\ Shared
  BY DEF Provisioned
<1>2. Stage(at[p]) = "track"
  BY StageFacts DEF Stages
<1>3. /\ at'[p] = "trackSeen" /\ at' \in [Procs -> Labels]
      /\ \A q \in Procs \ {p} : at'[q] = at[q]
  BY <1>1, GotoFacts DEF Labels
<1>4. saw' \in [Procs -> BOOLEAN]
  BY <1>1 DEF TypeOK
<1>5. TypeOK'
  BY <1>1, <1>3, <1>4 DEF TypeOK
<1>6. Shared' /\ Monotone
  BY <1>1, SharedKept DEF Monotone
<1>7. \A q \in Procs \ {p} : Aside(q)
  BY <1>1, <1>3 DEF Aside, TypeOK
<1>8. 1 .. (file[p] - 1) \subseteq recorded[service[p]]
  BY DEF Provisioned, Reliance
<1>9. Reliance(p)'
  BY <1>2, <1>3, <1>6, <1>8, StageFacts, StayedIn
<1>10. QED
  BY <1>5, <1>6, <1>7, <1>9, StepKeeps

LEMMA TrackCommitKeeps ==
    ASSUME Provisioned, NEW p \in Procs, TrackCommit(p), UNCHANGED <<service, faults>>
    PROVE  Provisioned'
<1> USE DEF TrackCommit, schema, trust
<1>1. TypeOK /\ Shared /\ service[p] \in Services
  BY StartupConstants DEF Provisioned, TypeOK
<1>2. Stage(at[p]) = "track" /\ "track" \in DOMAIN Prog(p).main
  BY OnPath, StageFacts
<1>a. CASE ~saw[p] /\ service[p] \in tracked
  BY <1>1, <1>a, ExitKeeps DEF TypeOK
<1>b. CASE ~(~saw[p] /\ service[p] \in tracked)
  <2>1. /\ tracked' = tracked \cup {service[p]} /\ Done(p, "track")
        /\ UNCHANGED <<file, saw, key, verifier, roles, tables, recorded,
                       granted, seeded, lock, trust, stream>>
    BY <1>b
  <2>2. /\ at'[p] = Prog(p).main["track"] /\ at' \in [Procs -> Labels]
        /\ \A q \in Procs \ {p} : at'[q] = at[q]
    BY <1>1, <1>2, <2>1, DoneFacts
  <2>3. TypeOK'
    BY <1>1, <2>1, <2>2 DEF TypeOK
  <2>4. Shared' /\ Monotone
    BY <1>1, <2>1, SharedKept DEF Monotone
  <2>5. \A q \in Procs \ {p} : Aside(q)
    BY <2>1, <2>2 DEF Aside
  <2>6. Reliance(p)'
    BY <1>2, <2>1, <2>2, <2>4, GoneOn
  <2>7. QED
    BY <2>3, <2>4, <2>5, <2>6, StepKeeps
<1>3. QED
  BY <1>a, <1>b

LEMMA FilesCheckKeeps ==
    ASSUME Provisioned, NEW p \in Procs, FilesCheck(p), UNCHANGED <<service, faults>>
    PROVE  Provisioned'
<1> USE DEF FilesCheck, schema, trust
<1> DEFINE s == service[p]
<1>1. TypeOK /\ Shared
  BY DEF Provisioned
<1>2. /\ s \in Services /\ Ordered(s)
      /\ Stage(at[p]) = "files" /\ "files" \in DOMAIN Prog(p).main
  BY OnPath, StageFacts DEF Stages
<1>3. /\ UNCHANGED <<saw, key, verifier, schema, seeded, lock, trust, stream>>
      /\ file[p] \in 1 .. 5 /\ 1 .. (file[p] - 1) \subseteq recorded[s]
  BY <1>1 DEF Provisioned, Reliance, TypeOK
<1>4. Shared' /\ Monotone
  BY <1>1, <1>3, SharedKept DEF Monotone
<1>a. CASE file[p] \notin Files(s) /\ Done(p, "files") /\ UNCHANGED file
  <2>1. /\ at'[p] = Prog(p).main["files"] /\ at' \in [Procs -> Labels]
        /\ \A q \in Procs \ {p} : at'[q] = at[q]
    BY <1>a, <1>1, <1>2, DoneFacts
  <2>2. TypeOK'
    BY <1>a, <1>1, <1>3, <2>1 DEF TypeOK
  <2>3. \A q \in Procs \ {p} : Aside(q)
    BY <1>a, <1>3, <2>1 DEF Aside
  <2>4. Files(s) \subseteq 1 .. (file[p] - 1)
    <3>1. PICK n \in 0 .. 4 : Files(s) = 1 .. n
      BY <1>2 DEF Ordered, Files
    <3>2. n < file[p]
      BY <1>a, <1>3, <3>1
    <3>3. QED
      BY <1>3, <3>1, <3>2
  <2>5. Files(s) \subseteq recorded'[s]
    BY <1>3, <2>4
  <2>6. Reliance(p)'
    BY <1>a, <1>2, <1>3, <1>4, <2>1, <2>5, GoneOn
  <2>7. QED
    BY <1>4, <2>2, <2>3, <2>6, StepKeeps
<1>b. CASE /\ file[p] \in recorded[s] /\ file' = [file EXCEPT ![p] = @ + 1]
           /\ UNCHANGED at
  <2>1. /\ file'[p] = file[p] + 1 /\ \A q \in Procs \ {p} : file'[q] = file[q]
    BY <1>b, <1>1 DEF TypeOK
  <2>2. file[p] \in 1 .. 4
    BY <1>b, <1>1, <1>2 DEF TypeOK
  <2>3. file' \in [Procs -> 1 .. 5]
    BY <1>b, <1>1, <2>2 DEF TypeOK
  <2>4. TypeOK'
    BY <1>b, <1>1, <1>3, <2>3 DEF TypeOK
  <2>5. \A q \in Procs \ {p} : Aside(q)
    BY <1>b, <1>3, <2>1 DEF Aside
  <2>6. 1 .. (file'[p] - 1) \subseteq recorded'[s]
    BY <1>b, <1>3, <2>1, <2>2
  <2>7. at[p] = "files" /\ at'[p] = "files"
    BY <1>b
  <2>8. Reliance(p)'
    BY <1>2, <1>3, <1>4, <2>6, <2>7, StayedIn
  <2>9. QED
    BY <1>4, <2>4, <2>5, <2>8, StepKeeps
<1>c. CASE file[p] \in Files(s) \ recorded[s] /\ Goto(p, "apply") /\ UNCHANGED file
  <2>1. /\ at'[p] = "apply" /\ at' \in [Procs -> Labels]
        /\ \A q \in Procs \ {p} : at'[q] = at[q]
    BY <1>c, <1>1, GotoFacts DEF Labels
  <2>2. TypeOK'
    BY <1>c, <1>1, <1>3, <2>1 DEF TypeOK
  <2>3. \A q \in Procs \ {p} : Aside(q)
    BY <1>c, <1>3, <2>1 DEF Aside
  <2>4. Reliance(p)'
    BY <1>c, <1>2, <1>3, <1>4, <2>1, StageFacts, StayedIn
  <2>5. QED
    BY <1>4, <2>2, <2>3, <2>4, StepKeeps
<1>5. QED
  BY <1>a, <1>b, <1>c

LEMMA ApplyKeeps ==
    ASSUME Provisioned, NEW p \in Procs, Apply(p), UNCHANGED <<service, faults>>
    PROVE  Provisioned'
<1> USE DEF Apply, schema, trust
<1> DEFINE s == service[p]
           f == file[p]
<1>1. TypeOK /\ Shared /\ Reliance(p)
  BY DEF Provisioned
<1>2. /\ s \in Services /\ Ordered(s) /\ Stage(at[p]) = "files"
  BY OnPath, StageFacts
<1>a. CASE f \in tables[s] \cup recorded[s]
  BY <1>1, <1>a, ExitKeeps DEF TypeOK
<1>b. CASE f \notin tables[s] \cup recorded[s]
  <2>1. /\ tables' = [tables EXCEPT ![s] = @ \cup {f}]
        /\ recorded' = [recorded EXCEPT ![s] = @ \cup {f}]
        /\ file' = [file EXCEPT ![p] = @ + 1] /\ Goto(p, "files")
        /\ UNCHANGED <<saw, key, verifier, roles, tracked, granted, seeded,
                       lock, trust, stream>>
    BY <1>b
  <2>2. f \in 1 .. 4 /\ 1 .. (f - 1) \subseteq recorded[s]
    BY <1>1, <1>2 DEF Reliance, Ordered, Files
  <2>3. /\ at'[p] = "files" /\ at' \in [Procs -> Labels]
        /\ \A q \in Procs \ {p} : at'[q] = at[q]
    BY <1>1, <2>1, GotoFacts DEF Labels
  <2>4. /\ file' \in [Procs -> 1 .. 5] /\ file'[p] = f + 1
        /\ \A q \in Procs \ {p} : file'[q] = file[q]
    BY <1>1, <2>1, <2>2 DEF TypeOK
  <2>5. /\ tables' \in [Services -> SUBSET (1 .. 4)]
        /\ recorded' \in [Services -> SUBSET (1 .. 4)]
        /\ recorded'[s] = recorded[s] \cup {f} /\ tables'[s] = tables[s] \cup {f}
        /\ \A u \in Services \ {s} : recorded'[u] = recorded[u] /\ tables'[u] = tables[u]
    BY <1>1, <1>2, <2>1, <2>2 DEF TypeOK
  <2>6. TypeOK'
    BY <1>1, <2>1, <2>3, <2>4, <2>5 DEF TypeOK
  <2>7. 1 .. f \subseteq recorded'[s]
    BY <2>2, <2>5
  <2>8. MigrationsInOrder'
    <3>1. MigrationsInOrder /\ recorded'[s] = tables'[s]
      BY <1>1, <1>2, <2>5 DEF Shared, MigrationsInOrder
    <3>2. SUFFICES ASSUME NEW u \in Services
                   PROVE  /\ recorded'[u] = tables'[u]
                          /\ \A g \in tables'[u] : 1 .. g \subseteq tables'[u]
      BY DEF MigrationsInOrder
    <3>3. CASE u # s
      BY <2>5, <3>1, <3>3 DEF MigrationsInOrder
    <3>4. CASE u = s
      <4>1. SUFFICES ASSUME NEW g \in tables'[s] PROVE 1 .. g \subseteq tables'[s]
        BY <3>1, <3>4
      <4>2. CASE g = f
        BY <2>7, <3>1, <4>2
      <4>3. CASE g \in tables[s]
        <5>1. 1 .. g \subseteq tables[s]
          BY <1>2, <3>1, <4>3 DEF MigrationsInOrder
        <5>2. QED
          BY <2>5, <5>1
      <4>4. QED
        BY <2>5, <4>1, <4>2, <4>3
    <3>5. QED
      BY <3>3, <3>4
  <2>9. Shared'
    BY <1>1, <2>1, <2>8 DEF Shared
  <2>10. Monotone
    BY <2>1, <2>5 DEF Monotone
  <2>11. \A q \in Procs \ {p} : Aside(q)
    BY <2>1, <2>3, <2>4 DEF Aside
  <2>12. 1 .. (file'[p] - 1) \subseteq recorded'[s]
    BY <2>2, <2>4, <2>7
  <2>13. Reliance(p)'
    BY <1>2, <2>1, <2>3, <2>10, <2>12, StageFacts, StayedIn DEF Stages
  <2>14. QED
    BY <2>6, <2>9, <2>10, <2>11, <2>13, StepKeeps
<1>3. QED
  BY <1>a, <1>b


\* The grant step: the role and the files are there, and the GRANT names
\* all of them.
LEMMA GrantKnown ==
    ASSUME Provisioned, NEW p \in Procs, at[p] \in {"grant", "granting", "raced"}
    PROVE  /\ service[p] \in Services
           /\ Stage(at[p]) = "grant" /\ "grant" \in DOMAIN Prog(p).main
           /\ Prog(p).grants = Files(service[p])
           /\ Files(service[p]) \subseteq 1 .. 4
<1>1. Stage(at[p]) = "grant"
  BY StageFacts DEF Stages
<1>2. /\ service[p] \in Services /\ Ordered(service[p])
      /\ "grant" \in Path(service[p]) /\ "grant" \in DOMAIN Prog(p).main
  BY <1>1, OnPath
<1>3. Prog(p).grants = Files(service[p])
  BY <1>2 DEF Ordered, Prog
<1>4. Files(service[p]) \subseteq 1 .. 4
  BY <1>2 DEF Ordered, Files
<1>5. QED
  BY <1>1, <1>2, <1>3, <1>4

LEMMA GrantBeginKeeps ==
    ASSUME Provisioned, NEW p \in Procs, GrantBegin(p), UNCHANGED <<service, faults>>
    PROVE  Provisioned'
<1> USE DEF GrantBegin, schema, trust
<1>1. TypeOK /\ Shared
  BY DEF Provisioned
<1>2. /\ at'[p] = "granting" /\ at' \in [Procs -> Labels]
      /\ \A q \in Procs \ {p} : at'[q] = at[q]
  BY <1>1, GotoFacts DEF Labels
<1>3. TypeOK'
  BY <1>1, <1>2, LockTypes DEF TypeOK
<1>4. Shared' /\ Monotone
  BY <1>1, SharedKept DEF Monotone
<1>5. \A q \in Procs \ {p} : Aside(q)
  BY <1>2 DEF Aside
<1>6. 1 .. (file[p] - 1) \subseteq recorded[service[p]]
  BY DEF Provisioned, Reliance
<1>7. Reliance(p)'
  BY <1>2, <1>4, <1>6, GrantKnown, StageFacts, StayedIn
<1>8. QED
  BY <1>3, <1>4, <1>5, <1>7, StepKeeps

LEMMA GrantCommitKeeps ==
    ASSUME Provisioned, NEW p \in Procs, GrantCommit(p), UNCHANGED <<service, faults>>
    PROVE  Provisioned'
<1> USE DEF GrantCommit, schema, trust
<1> DEFINE s == service[p]
           missing == ~RoleExists(p) \/ s \notin tracked \/ ~(Prog(p).grants \subseteq tables[s])
<1>1. TypeOK /\ Shared
  BY DEF Provisioned
<1>2. /\ s \in Services /\ Stage(at[p]) = "grant" /\ "grant" \in DOMAIN Prog(p).main
      /\ Prog(p).grants = Files(s) /\ Files(s) \subseteq 1 .. 4
  BY GrantKnown
<1>a. CASE missing
  BY <1>1, <1>a, ExitKeeps DEF TypeOK
<1>b. CASE ~missing
  <2>1. /\ granted' = [granted EXCEPT ![s] = @ \cup Files(s)]
        /\ at' = [q \in Procs |->
                     CASE q = p -> Prog(p).main.grant
                       [] q \in Siblings(p) /\ at[q] = "granting" -> "raced"
                       [] OTHER -> at[q]]
        /\ Release(p)
        /\ UNCHANGED <<file, saw, key, verifier, roles, tracked, tables,
                       recorded, seeded, trust, stream>>
    BY <1>b, <1>2
  <2>2. at'[p] = Prog(p).main["grant"] /\ at'[p] \in Labels
    <3>0. p \notin Siblings(p)
      BY DEF Siblings
    <3>1. at'[p] = Prog(p).main["grant"]
      BY <2>1, <3>0
    <3>2. QED
      BY <1>1, <1>2, <3>1, NextFacts
  <2>3. \A q \in Procs \ {p} :
            at'[q] = at[q] \/ (at[q] = "granting" /\ at'[q] = "raced")
    <3>1. TAKE q \in Procs \ {p}
    <3>2. p \notin Siblings(p) /\ q # p
      BY DEF Siblings
    <3>3. CASE q \in Siblings(p) /\ at[q] = "granting"
      BY <2>1, <3>2, <3>3
    <3>4. CASE ~(q \in Siblings(p) /\ at[q] = "granting")
      BY <2>1, <3>2, <3>4
    <3>5. QED
      BY <3>3, <3>4
  <2>4. at' \in [Procs -> Labels]
    <3>1. \A q \in Procs : at'[q] \in Labels
      BY <1>1, <2>2, <2>3 DEF TypeOK, Labels
    <3>2. at' = [q \in Procs |-> at'[q]]
      BY <2>1
    <3>3. QED
      BY <3>1, <3>2
  <2>5. /\ granted' \in [Services -> SUBSET (1 .. 4)] /\ Files(s) \subseteq granted'[s]
        /\ \A u \in Services : granted[u] \subseteq granted'[u]
    BY <1>1, <1>2, <2>1 DEF TypeOK
  <2>6. TypeOK'
    BY <1>1, <2>1, <2>4, <2>5, LockTypes DEF TypeOK
  <2>7. Shared' /\ Monotone
    BY <1>1, <2>1, <2>5, SharedKept DEF Monotone
  <2>8. \A q \in Procs \ {p} : Aside(q)
    BY <2>1, <2>3 DEF Aside
  <2>9. Reliance(p)'
    BY <1>2, <2>1, <2>2, <2>5, <2>7, GoneOn
  <2>10. QED
    BY <2>6, <2>7, <2>8, <2>9, StepKeeps
<1>3. QED
  BY <1>a, <1>b

LEMMA GrantRacedKeeps ==
    ASSUME Provisioned, NEW p \in Procs, GrantRaced(p), UNCHANGED <<service, faults>>
    PROVE  Provisioned'
BY ExitKeeps DEF GrantRaced, Provisioned, TypeOK

\* The steps after the grants that only go on.
LEMMA GoingOnKeeps ==
    ASSUME Provisioned, NEW p \in Procs,
           NEW l \in {"connect", "seed", "stream", "subscribe"}, at[p] = l, Done(p, l),
           UNCHANGED <<service, faults, file, saw, key, verifier, schema, lock, trust>>,
           seeded' \in BOOLEAN, stream' \in BOOLEAN
    PROVE  Provisioned'
<1> USE DEF schema, trust
<1>1. TypeOK /\ Shared
  BY DEF Provisioned
<1>2. Stage(at[p]) = l /\ l \in DOMAIN Prog(p).main
  BY OnPath, StageFacts DEF Stages
<1>3. /\ at'[p] = Prog(p).main[l] /\ at' \in [Procs -> Labels]
      /\ \A q \in Procs \ {p} : at'[q] = at[q]
  BY <1>1, <1>2, DoneFacts
<1>4. TypeOK'
  BY <1>1, <1>3 DEF TypeOK
<1>5. Shared' /\ Monotone
  BY <1>1, SharedKept DEF Monotone
<1>6. \A q \in Procs \ {p} : Aside(q)
  BY <1>3 DEF Aside
<1>7. Reliance(p)'
  BY <1>2, <1>3, <1>5, GoneOn
<1>8. QED
  BY <1>4, <1>5, <1>6, <1>7, StepKeeps

LEMMA LaterStepsKeep ==
    ASSUME Provisioned, NEW p \in Procs, UNCHANGED <<service, faults>>,
           Connect(p) \/ Seed(p) \/ EnsureStream(p) \/ SubscribeEphemeral(p)
    PROVE  Provisioned'
<1>1. TypeOK /\ faults' \in 0 .. MaxFaults[service]
  BY DEF Provisioned, TypeOK
<1>2. seeded \in BOOLEAN /\ stream \in BOOLEAN
  BY <1>1 DEF TypeOK
<1>3. CASE Exit(p)
  BY <1>1, <1>3, ExitKeeps
<1>4. CASE ~Exit(p)
  <2>1. ASSUME Connect(p) PROVE Provisioned'
    BY <1>2, <1>4, <2>1, GoingOnKeeps DEF Connect
  <2>2. ASSUME Seed(p) PROVE Provisioned'
    BY <1>2, <1>4, <2>2, GoingOnKeeps DEF Seed
  <2>3. ASSUME EnsureStream(p) PROVE Provisioned'
    BY <1>2, <1>4, <2>3, GoingOnKeeps DEF EnsureStream
  <2>4. ASSUME SubscribeEphemeral(p) PROVE Provisioned'
    BY <1>2, <1>4, <2>4, GoingOnKeeps DEF SubscribeEphemeral
  <2>5. QED
    BY <2>1, <2>2, <2>3, <2>4
<1>5. QED
  BY <1>3, <1>4

LEMMA UseKeyKeeps ==
    ASSUME Provisioned, NEW p \in Procs, at[p] \in {"key", "reload"},
           persisted # NoKey, UseKey(p), UNCHANGED <<service, faults>>
    PROVE  Provisioned'
<1> USE DEF UseKey, schema
<1>1. TypeOK /\ Shared
  BY DEF Provisioned
<1>2. Stage(at[p]) = "key" /\ "key" \in DOMAIN Prog(p).main
  BY OnPath, StageFacts DEF Stages
<1>3. /\ at'[p] = Prog(p).main["key"] /\ at' \in [Procs -> Labels]
      /\ \A q \in Procs \ {p} : at'[q] = at[q]
  BY <1>1, <1>2, DoneFacts
<1>4. /\ key' \in [Procs -> Keys \cup {NoKey}] /\ key'[p] = persisted
      /\ verifier' \in [Procs -> Keys \cup {NoKey}] /\ verifier'[p] = persisted
      /\ \A q \in Procs \ {p} : key'[q] = key[q] /\ verifier'[q] = verifier[q]
  BY <1>1 DEF TypeOK
<1>5. TypeOK'
  BY <1>1, <1>3, <1>4 DEF TypeOK
<1>6. Shared'
  BY <1>1 DEF Shared, MigrationsInOrder
<1>7. Monotone
  BY DEF Monotone
<1>8. \A q \in Procs \ {p} : Aside(q)
  BY <1>3, <1>4 DEF Aside
<1>9. Reliance(p)'
  BY <1>2, <1>3, <1>4, <1>7, GoneOn
<1>10. QED
  BY <1>5, <1>6, <1>7, <1>8, <1>9, StepKeeps

\* Within LoadOrGenerate.
LEMMA KeyStepKeeps ==
    ASSUME Provisioned, NEW p \in Procs, at[p] \in {"key", "insert"},
           NEW l \in {"insert", "reload"}, Goto(p, l),
           key' \in [Procs -> Keys \cup {NoKey}],
           \A q \in Procs \ {p} : key'[q] = key[q],
           persisted' \in Keys \cup {NoKey}, persisted # NoKey => persisted' = persisted,
           UNCHANGED <<service, faults, file, saw, verifier, schema, seeded, lock,
                       banner, configMap, stream>>
    PROVE  Provisioned'
<1> USE DEF schema
<1>1. TypeOK /\ Shared
  BY DEF Provisioned
<1>2. /\ at'[p] = l /\ at' \in [Procs -> Labels]
      /\ \A q \in Procs \ {p} : at'[q] = at[q]
  BY <1>1, GotoFacts DEF Labels
<1>3. TypeOK'
  BY <1>1, <1>2 DEF TypeOK
<1>4. banner \cup {configMap} \subseteq {persisted', NoKey}
  BY <1>1 DEF Shared
<1>5. Shared'
  BY <1>1, <1>4 DEF Shared, MigrationsInOrder
<1>6. Monotone
  BY DEF Monotone
<1>7. \A q \in Procs \ {p} : Aside(q)
  BY <1>2 DEF Aside
<1>8. 1 .. (file[p] - 1) \subseteq recorded[service[p]]
  BY DEF Provisioned, Reliance
<1>9. Reliance(p)'
  <2>1. verifier'[p] \in {persisted', NoKey}
    BY DEF Provisioned, Reliance
  <2>2. Stage(at[p]) = "key" /\ Stage(at'[p]) = "key"
    BY <1>2, StageFacts DEF Stages
  <2>3. QED
    BY <1>2, <1>6, <1>8, <2>1, <2>2, StayedIn
<1>10. QED
  BY <1>3, <1>5, <1>6, <1>7, <1>9, StepKeeps

LEMMA KeyLoadKeeps ==
    ASSUME Provisioned, NEW p \in Procs, KeyLoad(p), UNCHANGED <<service, faults>>
    PROVE  Provisioned'
<1> USE DEF KeyLoad
<1>1. TypeOK
  BY DEF Provisioned
<1>a. CASE granted[service[p]] = {}
  BY <1>1, <1>a, ExitKeeps DEF TypeOK
<1>b. CASE granted[service[p]] # {} /\ persisted # NoKey
  BY <1>b, UseKeyKeeps
<1>c. CASE granted[service[p]] # {} /\ persisted = NoKey
  <2>1. /\ Goto(p, "insert")
        /\ UNCHANGED <<file, saw, verifier, schema, seeded, lock, trust, stream>>
    BY <1>c
  <2>2. PICK k \in Keys : key' = [key EXCEPT ![p] = k]
    BY <1>c
  <2>3. /\ key' \in [Procs -> Keys \cup {NoKey}]
        /\ \A q \in Procs \ {p} : key'[q] = key[q]
    BY <1>1, <2>2 DEF TypeOK
  <2>4. persisted' = persisted /\ banner' = banner /\ configMap' = configMap
    BY <2>1 DEF trust
  <2>5. QED
    BY <1>1, <1>c, <2>1, <2>3, <2>4, KeyStepKeeps
<1>2. QED
  BY <1>a, <1>b, <1>c

LEMMA KeyInsertKeeps ==
    ASSUME Provisioned, NEW p \in Procs, KeyInsert(p), UNCHANGED <<service, faults>>
    PROVE  Provisioned'
<1>1. /\ key' \in [Procs -> Keys \cup {NoKey}]
      /\ \A q \in Procs \ {p} : key'[q] = key[q]
      /\ persisted' \in Keys \cup {NoKey}
      /\ persisted # NoKey => persisted' = persisted
  BY DEF KeyInsert, Provisioned, TypeOK
<1>2. QED
  BY <1>1, KeyStepKeeps DEF KeyInsert

LEMMA KeyReloadKeeps ==
    ASSUME Provisioned, NEW p \in Procs, KeyReload(p), UNCHANGED <<service, faults>>
    PROVE  Provisioned'
<1>a. CASE persisted = NoKey
  BY <1>a, ExitKeeps DEF KeyReload, Provisioned, TypeOK
<1>b. CASE persisted # NoKey
  BY <1>b, UseKeyKeeps DEF KeyReload
<1>1. QED
  BY <1>a, <1>b

LEMMA DistributeKeeps ==
    ASSUME Provisioned, Distribute
    PROVE  Provisioned'
<1> USE DEF Distribute, schema, procVars
<1>1. TypeOK /\ Shared
  BY DEF Provisioned
<1>2. TypeOK'
  BY <1>1 DEF TypeOK
<1>3. Shared' /\ Monotone
  BY <1>1 DEF Shared, MigrationsInOrder, Monotone
<1>4. \A q \in Procs : Aside(q)
  BY DEF Aside
<1>5. QED
  BY <1>2, <1>3, <1>4, OthersKept DEF Provisioned

LEMMA CrashKeeps ==
    ASSUME Provisioned, NEW p \in Procs, Crash(p)
    PROVE  Provisioned'
<1>1. service \in Deployments /\ faults \in 0 .. MaxFaults[service]
  BY DEF Provisioned, TypeOK
<1>2. MaxFaults[service] \in Nat
  BY <1>1, StartupConstants
<1>3. faults' \in 0 .. MaxFaults[service]
  BY <1>1, <1>2 DEF Crash
<1>4. QED
  BY <1>3, ExitKeeps DEF Crash

\* Every step of a process that starts.
LEMMA ProcessStepKeeps ==
    ASSUME Provisioned, NEW p \in Procs, Step(p)
    PROVE  Provisioned'
BY StartKeeps, LoadVerifierKeeps, RoleCheckKeeps, RoleCommitKeeps, TrackCheckKeeps,
   TrackCommitKeeps, FilesCheckKeeps, ApplyKeeps, GrantBeginKeeps, GrantCommitKeeps,
   GrantRacedKeeps, LaterStepsKeep, KeyLoadKeeps, KeyInsertKeeps, KeyReloadKeeps DEF Step

---------------------------------------------------------------------------
(***************************************************************************)
(* Together with the consumer of historical reporting.                     *)
(***************************************************************************)

\* The consumer changes nothing of start-up but the count of the faults.
LEMMA ConsumerKeeps ==
    ASSUME Provisioned, faults' \in 0 .. MaxFaults[service],
           UNCHANGED <<service, procVars, schema, seeded, lock, trust, stream>>
    PROVE  Provisioned'
<1> USE DEF procVars, schema, trust
<1>1. TypeOK /\ Shared
  BY DEF Provisioned
<1>2. TypeOK'
  BY <1>1 DEF TypeOK
<1>3. Shared' /\ Monotone
  BY <1>1, SharedKept DEF Monotone
<1>4. \A q \in Procs : Aside(q)
  BY DEF Aside
<1>5. QED
  BY <1>2, <1>3, <1>4, OthersKept DEF Provisioned

LEMMA InitProvisioned == Init => Provisioned
<1> SUFFICES ASSUME StartupInit PROVE Provisioned
  BY DEF Init
<1> USE DEF StartupInit
<1>1. service \in Deployments /\ MaxFaults[service] \in Nat /\ \A p \in Procs : service[p] \in Services
  BY StartupConstants
<1>2. TypeOK
  <2>1. at \in [Procs -> Labels] /\ file \in [Procs -> 1 .. 5]
    BY DEF Labels
  <2>2. saw \in [Procs -> BOOLEAN] /\ seeded \in BOOLEAN /\ stream \in BOOLEAN
    OBVIOUS
  <2>3. /\ key \in [Procs -> Keys \cup {NoKey}] /\ verifier \in [Procs -> Keys \cup {NoKey}]
        /\ lock \in [Services -> Procs \cup {NoProc}]
    OBVIOUS
  <2>4. /\ tables \in [Services -> SUBSET (1 .. 4)] /\ recorded \in [Services -> SUBSET (1 .. 4)]
        /\ granted \in [Services -> SUBSET (1 .. 4)]
    OBVIOUS
  <2>5. QED
    BY <1>1, <2>1, <2>2, <2>3, <2>4 DEF TypeOK
<1>3. Shared
  BY DEF Shared, MigrationsInOrder
<1>4. ASSUME NEW p \in Procs PROVE Reliance(p)
  <2>1. at[p] = "down" /\ file[p] = 1 /\ verifier[p] = NoKey /\ Stage(at[p]) = "down"
    BY StageFacts
  <2>2. 1 .. (file[p] - 1) = {}
    BY <2>1
  <2>3. QED
    BY <2>1, <2>2, DownReliesOnNothing DEF Reliance, Stages
<1>5. QED
  BY <1>2, <1>3, <1>4 DEF Provisioned

LEMMA NextKeeps == Provisioned /\ [Next]_vars => Provisioned'
<1> SUFFICES ASSUME Provisioned, [Next]_vars PROVE Provisioned'
  OBVIOUS
<1>0. /\ service \in Deployments /\ faults \in 0 .. MaxFaults[service]
      /\ MaxFaults[service] \in Nat
  BY StartupConstants DEF Provisioned, TypeOK
<1>1. CASE DistributeKey
  BY <1>1, DistributeKeeps DEF DistributeKey
<1>2. ASSUME NEW p \in Procs, Run(p) \/ CrashProcess(p) PROVE Provisioned'
  BY <1>2, ProcessStepKeeps, CrashKeeps DEF Run, CrashProcess
<1>3. ASSUME NEW e \in Events, Publish(e) PROVE Provisioned'
  BY <1>0, <1>3, ConsumerKeeps DEF Publish, startupVars
<1>4. ASSUME NEW p \in Procs, NEW e \in Events, Deliver(p, e) \/ Redeliver(p, e)
      PROVE  Provisioned'
  <2>1. CASE Deliver(p, e)
    BY <1>0, <2>1, ConsumerKeeps DEF Deliver, startupVars
  <2>2. CASE Redeliver(p, e)
    BY <1>0, <2>2, ConsumerKeeps DEF Redeliver
  <2>3. QED
    BY <1>4, <2>1, <2>2
<1>5. ASSUME NEW p \in Procs, Handle(p) \/ Settle(p) PROVE Provisioned'
  <2>1. CASE Handle(p)
    BY <1>0, <2>1, ConsumerKeeps DEF Handle
  <2>2. CASE Settle(p)
    BY <1>0, <2>2, ConsumerKeeps DEF Settle
  <2>3. QED
    BY <1>5, <2>1, <2>2
<1>6. CASE UNCHANGED vars
  BY <1>0, <1>6, ConsumerKeeps DEF vars, startupVars
<1>7. QED
  BY <1>1, <1>2, <1>3, <1>4, <1>5, <1>6 DEF Next

\* Every process relies only on what is there, however the starts, the
\* crashes and the operator's copy of the key are ordered.
THEOREM ProvisionedAlways == Spec => []Provisioned
BY InitProvisioned, NextKeeps, PTL DEF Spec

\* The state of start-up has its type; faults stay within their bound.
THEOREM StartupTypeOK == Spec => []TypeOK
<1>1. Provisioned => TypeOK
  BY DEF Provisioned
<1>2. QED
  BY <1>1, ProvisionedAlways, PTL

\* LoadOrGenerate: however many replicas race to generate it, there is one
\* signing key, and it is the key that was logged, distributed and loaded.
THEOREM OneSigningKeyAlways == Spec => []OneSigningKey
<1>1. ASSUME Provisioned PROVE OneSigningKey
  <2>1. ASSUME NEW p \in Procs
        PROVE  /\ verifier[p] \in {persisted, NoKey}
               /\ at[p] = "serving" => verifier[p] = persisted /\ persisted # NoKey
               /\ at[p] = "serving" /\ service[p] = "TenantIdentity" => key[p] = persisted
    <3>1. Reliance(p)
      BY <1>1 DEF Provisioned
    <3>2. at[p] = "serving" => Stage(at[p]) = "serving"
      BY StageFacts DEF Stages
    <3>3. "serving" \in AfterVerifier(service[p])
      BY DEF AfterVerifier, Stages
    <3>4. QED
      BY <3>1, <3>2, <3>3 DEF Reliance
  <2>2. QED
    BY <1>1, <2>1 DEF OneSigningKey, Provisioned, Shared
<1>2. QED
  BY <1>1, ProvisionedAlways, PTL

\* Migrate: the files recorded are the files applied, and the first ones.
THEOREM MigrationsInOrderAlways == Spec => []MigrationsInOrder
<1>1. Provisioned => MigrationsInOrder
  BY DEF Provisioned, Shared
<1>2. QED
  BY <1>1, ProvisionedAlways, PTL

\* main: what serves has its role, its schema and its privileges.
THEOREM ServingIsProvisionedAlways == Spec => []ServingIsProvisioned
<1>1. ASSUME Provisioned PROVE ServingIsProvisioned
  <2>1. SUFFICES ASSUME NEW p \in Procs, at[p] = "serving"
        PROVE  /\ \A r \in roles : ~r.bypassesRLS
               /\ Files(service[p]) # {} => RoleExists(p)
               /\ Files(service[p]) \subseteq recorded[service[p]] \cap granted[service[p]]
    BY DEF ServingIsProvisioned
  <2>2. Reliance(p) /\ roles \subseteq {AppRole} /\ service[p] \in Services
    BY <1>1, StartupConstants DEF Provisioned, Shared, TypeOK
  <2>3. Stage(at[p]) = "serving"
    BY <2>1, StageFacts DEF Stages
  <2>4. "serving" \in AfterRole(service[p]) \cap AfterFiles(service[p]) \cap AfterGrant(service[p])
    BY DEF AfterRole, AfterFiles, AfterGrant
  <2>5. \A r \in roles : ~r.bypassesRLS
    BY <2>2 DEF AppRole
  <2>6. Files(service[p]) # {} => RoleExists(p)
    <3>1. SUFFICES ASSUME Files(service[p]) # {} PROVE RoleExists(p)
      OBVIOUS
    <3>2. AppRole \in roles
      BY <2>2, <2>3, <2>4, <3>1 DEF Reliance
    <3>3. Prog(p).role = AppRole
      BY <2>2, <3>1, MainIsOrdered DEF Ordered, Prog
    <3>4. QED
      BY <3>2, <3>3 DEF RoleExists
  <2>7. QED
    BY <2>2, <2>3, <2>4, <2>5, <2>6 DEF Reliance
<1>2. QED
  BY <1>1, ProvisionedAlways, PTL

\* LoadOrGenerate never replaces a persisted key: tokens signed before a
\* restart remain verifiable after it.
THEOREM KeyNeverChangesEver == Spec => KeyNeverChanges
<1> USE DEF schema, trust
<1>1. ASSUME [Next]_vars, persisted # NoKey PROVE persisted' = persisted
  <2>1. ASSUME NEW p \in Procs, Step(p) PROVE persisted' = persisted
    <3>1. CASE Start(p) \/ LoadVerifier(p) \/ RoleCheck(p) \/ RoleCommit(p)
               \/ TrackCheck(p) \/ TrackCommit(p) \/ FilesCheck(p) \/ Apply(p)
      BY <3>1 DEF Start, LoadVerifier, RoleCheck, RoleCommit, TrackCheck, TrackCommit,
         FilesCheck, Apply, Exit
    <3>2. CASE GrantBegin(p) \/ GrantCommit(p) \/ GrantRaced(p) \/ Connect(p) \/ Seed(p)
               \/ EnsureStream(p) \/ SubscribeEphemeral(p)
      BY <3>2 DEF GrantBegin, GrantCommit, GrantRaced, Connect, Seed, EnsureStream,
         SubscribeEphemeral, Exit
    <3>3. CASE KeyLoad(p) \/ KeyInsert(p) \/ KeyReload(p)
      BY <1>1, <3>3 DEF KeyLoad, KeyInsert, KeyReload, UseKey, Exit
    <3>4. QED
      BY <2>1, <3>1, <3>2, <3>3 DEF Step
  <2>2. ASSUME NEW p \in Procs, Run(p) \/ CrashProcess(p) PROVE persisted' = persisted
    BY <2>1, <2>2 DEF Run, CrashProcess, Crash, Exit
  <2>3. ASSUME NEW e \in Events, Publish(e) \/ \E p \in Procs : Deliver(p, e) \/ Redeliver(p, e)
        PROVE  persisted' = persisted
    BY <2>3 DEF Publish, Deliver, Redeliver, startupVars
  <2>4. ASSUME NEW p \in Procs, Handle(p) \/ Settle(p) PROVE persisted' = persisted
    BY <2>4 DEF Handle, Settle
  <2>5. CASE DistributeKey \/ UNCHANGED vars
    BY <2>5 DEF DistributeKey, Distribute, vars, startupVars
  <2>6. QED
    BY <1>1, <2>2, <2>3, <2>4, <2>5 DEF Next
<1>2. [Next]_vars => [persisted # NoKey => persisted' = persisted]_persisted
  BY <1>1
<1>3. QED
  BY <1>2, PTL DEF Spec, KeyNeverChanges

---------------------------------------------------------------------------
(***************************************************************************)
(* The ledger of historical reporting.                                     *)
(***************************************************************************)

LEMMA TripleIsSeq ==
    ASSUME NEW S, NEW a \in S, NEW b \in S, NEW c \in S
    PROVE  <<a, b, c>> \in Seq(S)
OBVIOUS

\* parseSubject gives back what Subject was made of, the whole type included.
LEMMA ParsedRow ==
    ASSUME NEW e \in Events
    PROVE  RowOf(e) = [tenant |-> e.tenant, domain |-> e.domain, type |-> e.type]
<1> DEFINE head == <<"tenant", e.tenant, e.domain>>
           s == Subject(e)
           tail == SubSeq(s, 4, Len(s))
           Token == STRING \cup {"tenant"}
<1>1. e.tenant \in Token /\ e.domain \in Token /\ e.type \in Seq(Token)
  BY HistoryConstants, SeqMonotonic
<1>2. head \in Seq(Token) /\ Len(head) = 3 /\ head[2] = e.tenant /\ head[3] = e.domain
  <2>1. Len(head) = 3 /\ head[2] = e.tenant /\ head[3] = e.domain
    OBVIOUS
  <2>2. head \in Seq(Token)
    BY <1>1, TripleIsSeq
  <2>3. QED
    BY <2>1, <2>2
<1>3. /\ s \in Seq(Token) /\ Len(s) = 3 + Len(e.type)
      /\ \A i \in 1 .. 3 + Len(e.type) : s[i] = IF i <= 3 THEN head[i] ELSE e.type[i - 3]
  BY <1>1, <1>2, ConcatProperties DEF Subject
<1>4. Len(e.type) \in Nat
  BY <1>1
<1>5. s[2] = e.tenant /\ s[3] = e.domain
  BY <1>2, <1>3, <1>4
<1>6. \A i \in 4 .. Len(s) : s[i] \in Token
  BY <1>3, <1>4
<1>7. /\ tail \in Seq(Token) /\ Len(tail) = Len(e.type)
      /\ \A i \in 1 .. Len(e.type) : tail[i] = s[i + 3]
  <2>1. /\ tail \in Seq(Token) /\ Len(tail) = IF 4 <= Len(s) THEN Len(s) - 4 + 1 ELSE 0
        /\ \A i \in 1 .. Len(s) - 4 + 1 : tail[i] = s[4 + i - 1]
    BY <1>3, <1>4, <1>6, SubSeqProperties
  <2>2. QED
    BY <1>3, <1>4, <2>1
<1>8. \A i \in 1 .. Len(tail) : tail[i] = e.type[i]
  <2>1. SUFFICES ASSUME NEW i \in 1 .. Len(e.type) PROVE tail[i] = e.type[i]
    BY <1>7
  <2>2. i + 3 \in 1 .. 3 + Len(e.type) /\ ~(i + 3 <= 3) /\ (i + 3) - 3 = i
    BY <1>4
  <2>3. s[i + 3] = e.type[i]
    BY <1>3, <2>2
  <2>4. QED
    BY <1>7, <2>3
<1>9. tail = e.type
  BY <1>1, <1>7, <1>8, SeqEqual
<1>10. QED
  BY <1>5, <1>9 DEF RowOf, ParseSubject

\* Every event that was acknowledged, or whose callback has inserted it, is
\* well-formed and has a row.
Recorded(e) == WellFormed(e) /\ rows[RowOf(e)] > 0
RecordedNext(e) == WellFormed(e) /\ rows'[RowOf(e)] > 0
Ledger ==
    /\ HistoryTypeOK
    /\ \A e \in Events : event[e] = "acked" => Recorded(e)
    /\ \A p \in Procs :
          handling[p].step = "inserted" => Recorded(handling[p].event)

\* A busy callback has an event.
LEMMA CallbackHasEvent ==
    ASSUME HistoryTypeOK, NEW p \in Procs,
           handling[p].step \in {"received", "inserted", "failed"}
    PROVE  /\ handling[p].event \in Events
           /\ handling[p] = Handling(handling[p].step, handling[p].event)
BY DEF HistoryTypeOK, Resting, Handling

LEMMA HandlingIs ==
    ASSUME NEW e \in Events, NEW x \in {"received", "inserted", "failed"}
    PROVE  /\ Handling(x, e).step = x /\ Handling(x, e).event = e
           /\ Handling(x, e) \in [step : {"received", "inserted", "failed"}, event : Events]
BY DEF Handling

\* A step that gives one callback a new state.
LEMMA CallbackStep ==
    ASSUME Ledger, NEW p \in Procs,
           NEW h \in {Resting} \cup [step : {"received", "inserted", "failed"}, event : Events],
           handling' = [handling EXCEPT ![p] = h],
           event' \in [Events -> {"none", "stored", "acked"}],
           rows' \in [Rows -> Nat], \A r \in Rows : rows'[r] >= rows[r],
           \A e \in Events : event'[e] = "acked" => RecordedNext(e),
           h.step = "inserted" => RecordedNext(h.event)
    PROVE  Ledger'
<1>1. HistoryTypeOK /\ handling \in [Procs -> {Resting} \cup
          [step : {"received", "inserted", "failed"}, event : Events]]
  BY DEF Ledger, HistoryTypeOK
<1>2. HistoryTypeOK'
  BY <1>1 DEF HistoryTypeOK
<1>3. ASSUME NEW q \in Procs, handling'[q].step = "inserted"
      PROVE  RecordedNext(handling'[q].event)
  <2>1. CASE q = p
    BY <1>1, <1>3, <2>1
  <2>2. CASE q # p
    <3>1. handling'[q] = handling[q]
      BY <1>1, <2>2
    <3>2. handling[q].event \in Events /\ Recorded(handling[q].event)
      BY <1>1, <1>3, <3>1, CallbackHasEvent DEF Ledger
    <3>3. RowOf(handling[q].event) \in Rows
      BY <3>2 DEF Recorded, Rows
    <3>4. /\ rows[RowOf(handling[q].event)] \in Nat
          /\ rows'[RowOf(handling[q].event)] \in Nat
          /\ rows'[RowOf(handling[q].event)] >= rows[RowOf(handling[q].event)]
      BY <1>1, <3>3 DEF HistoryTypeOK
    <3>5. QED
      BY <3>1, <3>2, <3>4 DEF Recorded, RecordedNext
  <2>3. QED
    BY <2>1, <2>2
<1>4. QED
  BY <1>2, <1>3 DEF Ledger, Recorded, RecordedNext

LEMMA LedgerInit == Init => Ledger
BY DEF Init, Ledger, HistoryTypeOK, Resting

\* Nothing recorded is forgotten where the rows are as they were.
LEMMA StillRecorded ==
    ASSUME Ledger, rows' = rows
    PROVE  /\ rows' \in [Rows -> Nat] /\ \A r \in Rows : rows'[r] >= rows[r]
           /\ \A e \in Events : event[e] = "acked" => RecordedNext(e)
           /\ \A p \in Procs : handling[p].step = "inserted" => RecordedNext(handling[p].event)
<1>1. rows \in [Rows -> Nat]
  BY DEF Ledger, HistoryTypeOK
<1>2. \A r \in Rows : rows'[r] >= rows[r]
  BY <1>1
<1>3. QED
  BY <1>1, <1>2 DEF Ledger, Recorded, RecordedNext

\* InsertEvent counts its row, and takes none away.
LEMMA InsertRecords ==
    ASSUME Ledger, NEW e \in Events, WellFormed(e), InsertEvent(e)
    PROVE  /\ rows' \in [Rows -> Nat] /\ \A r \in Rows : rows'[r] >= rows[r]
           /\ RecordedNext(e)
           /\ \A f \in Events : event[f] = "acked" => RecordedNext(f)
<1>1. rows \in [Rows -> Nat] /\ RowOf(e) \in Rows
  BY DEF Ledger, HistoryTypeOK, Rows
<1>2. /\ rows' \in [Rows -> Nat] /\ \A r \in Rows : rows'[r] >= rows[r]
      /\ rows'[RowOf(e)] > 0
  BY <1>1 DEF InsertEvent
<1>3. ASSUME NEW f \in Events, event[f] = "acked" PROVE RecordedNext(f)
  <2>1. WellFormed(f) /\ rows[RowOf(f)] > 0 /\ RowOf(f) \in Rows
    BY <1>3 DEF Ledger, Recorded, Rows
  <2>2. rows'[RowOf(f)] >= rows[RowOf(f)] /\ rows[RowOf(f)] \in Nat /\ rows'[RowOf(f)] \in Nat
    BY <1>1, <1>2, <2>1
  <2>3. QED
    BY <2>1, <2>2 DEF RecordedNext
<1>4. QED
  BY <1>2, <1>3 DEF RecordedNext

LEMMA LedgerNext == Ledger /\ [Next]_vars => Ledger'
<1> SUFFICES ASSUME Ledger, [Next]_vars PROVE Ledger'
  OBVIOUS
<1> DEFINE Busy == [step : {"received", "inserted", "failed"}, event : Events]
<1>0. /\ HistoryTypeOK /\ event \in [Events -> {"none", "stored", "acked"}]
      /\ handling \in [Procs -> {Resting} \cup Busy]
  BY DEF Ledger, HistoryTypeOK
<1>1. CASE UNCHANGED historyVars
  BY <1>1 DEF historyVars, Ledger, HistoryTypeOK, Recorded
<1>2. CASE Beside
  <2>1. HistoryTypeOK'
    BY <1>0, <1>2 DEF Beside, HistoryTypeOK
  <2>2. \A p \in Procs : handling'[p].step = "inserted" => handling'[p] = handling[p]
    BY <1>2 DEF Beside, Resting
  <2>3. QED
    BY <1>2, <2>1, <2>2 DEF Beside, Ledger, Recorded
<1>3. ASSUME NEW e \in Events, Publish(e) PROVE Ledger'
  <2>1. /\ event' = [event EXCEPT ![e] = "stored"] /\ handling' = handling /\ rows' = rows
    BY <1>3 DEF Publish
  <2>2. HistoryTypeOK'
    BY <1>0, <2>1 DEF HistoryTypeOK
  <2>3. \A f \in Events : event'[f] = "acked" => event[f] = "acked"
    BY <1>0, <2>1
  <2>4. QED
    BY <2>1, <2>2, <2>3 DEF Ledger, Recorded
<1>4. ASSUME NEW p \in Procs, NEW e \in Events, Deliver(p, e) \/ Redeliver(p, e)
      PROVE  Ledger'
  <2>1. /\ handling' = [handling EXCEPT ![p] = Handling("received", e)]
        /\ event' = event /\ rows' = rows
    BY <1>4 DEF Deliver, Redeliver
  <2>2. Handling("received", e) \in Busy /\ Handling("received", e).step # "inserted"
    BY HandlingIs
  <2>3. QED
    BY <1>0, <2>1, <2>2, StillRecorded, CallbackStep
<1>5. ASSUME NEW p \in Procs, Handle(p) PROVE Ledger'
  <2> DEFINE e == handling[p].event
  <2>1. /\ e \in Events /\ handling[p] = Handling("received", e) /\ event' = event
    BY <1>0, <1>5, CallbackHasEvent DEF Handle
  <2>2. \/ /\ WellFormed(e) /\ InsertEvent(e)
           /\ handling' = [handling EXCEPT ![p] = Handling("inserted", e)]
        \/ /\ rows' = rows
           /\ handling' = [handling EXCEPT ![p] = Handling("failed", e)]
    <3>1. [handling[p] EXCEPT !.step = "inserted"] = Handling("inserted", e)
      BY <2>1 DEF Handling
    <3>2. [handling[p] EXCEPT !.step = "failed"] = Handling("failed", e)
      BY <2>1 DEF Handling
    <3>3. QED
      BY <1>5, <3>1, <3>2 DEF Handle
  <2>3. CASE /\ WellFormed(e) /\ InsertEvent(e)
             /\ handling' = [handling EXCEPT ![p] = Handling("inserted", e)]
    <3>1. Handling("inserted", e) \in Busy /\ Handling("inserted", e).event = e
      BY <2>1, HandlingIs
    <3>2. QED
      BY <1>0, <2>1, <2>3, <3>1, InsertRecords, CallbackStep
  <2>4. CASE /\ rows' = rows
             /\ handling' = [handling EXCEPT ![p] = Handling("failed", e)]
    <3>1. Handling("failed", e) \in Busy /\ Handling("failed", e).step # "inserted"
      BY <2>1, HandlingIs
    <3>2. QED
      BY <1>0, <2>1, <2>4, <3>1, StillRecorded, CallbackStep
  <2>5. QED
    BY <2>2, <2>3, <2>4
<1>6. ASSUME NEW p \in Procs, Settle(p) PROVE Ledger'
  <2> DEFINE e == handling[p].event
  <2>1. e \in Events
    BY <1>0, <1>6, CallbackHasEvent DEF Settle
  <2>2. handling' = [handling EXCEPT ![p] = Resting] /\ rows' = rows
    BY <1>6 DEF Settle
  <2>3. \/ event' = event
        \/ handling[p].step = "inserted" /\ event' = [event EXCEPT ![e] = "acked"]
    BY <1>6 DEF Settle
  <2>4. /\ event' \in [Events -> {"none", "stored", "acked"}]
        /\ \A f \in Events :
              event'[f] = "acked" =>
                 event[f] = "acked" \/ (f = e /\ handling[p].step = "inserted")
    BY <1>0, <2>1, <2>3
  <2>5. \A f \in Events : event'[f] = "acked" => RecordedNext(f)
    BY <2>2, <2>4, StillRecorded
  <2>6. Resting.step # "inserted"
    BY DEF Resting
  <2>7. QED
    BY <2>2, <2>4, <2>5, <2>6, StillRecorded, CallbackStep
<1>7. QED
  BY <1>1, <1>2, <1>3, <1>4, <1>5, <1>6
  DEF Next, DistributeKey, Run, CrashProcess, vars

\* handle and consume: what was acknowledged is in the table under its own
\* tenant, domain and whole type, whatever was redelivered, refused or lost.
THEOREM AckedIsRecordedAlways == Spec => []AckedIsRecorded
<1>1. ASSUME Ledger PROVE AckedIsRecorded
  <2>1. SUFFICES ASSUME NEW e \in Events, event[e] = "acked"
                 PROVE  RowOf(e) \in Rows /\ rows[RowOf(e)] > 0
    BY ParsedRow DEF AckedIsRecorded
  <2>2. Recorded(e)
    BY <1>1, <2>1 DEF Ledger
  <2>3. QED
    BY <2>2 DEF Recorded, Rows
<1>2. QED
  BY <1>1, LedgerInit, LedgerNext, PTL DEF Spec

=============================================================================
