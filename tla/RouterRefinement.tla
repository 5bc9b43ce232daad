-------------------------- MODULE RouterRefinement --------------------------
(***************************************************************************)
(* The store implements the task lifecycle, whichever agent key the Go     *)
(* code hands to a script.                                                 *)
(***************************************************************************)
EXTENDS RouterStore

\* A reservation of the task is in the in-flight set of some agent.
HasClaim(t) ==
    \E a \in Agents : \E r \in offers[a] : reservation[r].task = t

\* The refinement mapping.  A task is held while one of its reservations is
\* in flight; the hash of a completed one names the agent in any case.
stageBar == [t \in Tasks |-> task[t].status]
holderBar == [t \in Tasks |-> IF HasClaim(t) THEN task[t].agent ELSE NoAgent]
rosterBar == {a \in Agents : Exists(a)}

Lifecycle == INSTANCE TaskLifecycle
    WITH stage <- stageBar, holder <- holderBar, roster <- rosterBar,
         Nobody <- NoAgent

\* Every script moves every task only along the lifecycle, deletion of an
\* agent included, which returns all of its in-flight work in one step.  A
\* completed task returns to the queue in one case only: complete_task was
\* handed the key of another agent, and the task's own agent is deleted.
ImplementsLifecycle == Lifecycle!Spec
=============================================================================
