----------------------------- MODULE MCStartup -----------------------------
(* Six deployments of three processes: in each, replicas of one service or *)
(* two services race for the same database, or wait for what another makes. *)
EXTENDS HistoryConsumer, TLC

CONSTANTS p1, p2, p3

Deploy(a, b, c) == p1 :> a @@ p2 :> b @@ p3 :> c

MCMaxFaults ==
    Deploy("TenantIdentity", "TenantIdentity", "VoiceGateway") :> 1 @@
    Deploy("TenantIdentity", "TaskRouter", "TaskRouter") :> 0 @@
    Deploy("TenantIdentity", "TaskRouter", "Historical") :> 1 @@
    Deploy("TenantIdentity", "WorkerPool", "WorkerPool") :> 1 @@
    Deploy("TenantIdentity", "WorkerPool", "Workflow") :> 1 @@
    Deploy("TenantIdentity", "TaskRouter", "AgentPresence") :> 0
MCDeployments == DOMAIN MCMaxFaults

\* One event whose type has two tokens, and one whose payload is broken.
MCEvents ==
    {[tenant |-> "t1", domain |-> "agent", type |-> <<"status", "changed">>,
      decodes |-> TRUE],
     [tenant |-> "t1", domain |-> "task", type |-> <<"completed">>,
      decodes |-> FALSE]}
=============================================================================
