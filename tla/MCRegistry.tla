----------------------------- MODULE MCRegistry -----------------------------
(* Two tenants that use the same names and one that does not exist yet.     *)
(* Three calls of those that contend for rows, two of all the others.       *)
EXTENDS TenantData

MCInitialRows ==
    {Plain("tenants", t, <<t>>) : t \in {"t1", "t2"}} \cup
    {Plain("dispositions", t, <<d>>) : t \in {"t1", "t2"}, d \in {"d1", "d2"}} \cup
    {Plain("queue_dispositions", "t2", <<"q1", "d1">>),
     Row("attributes", "t1", <<"a1">>, "numeric")}

Associating ==
    {AssociateQueueDispositionsCall("t1", "q1", <<"d1", "d2">>),
     AssociateQueueDispositionsCall("t1", "q1", <<"d2", "d1">>),
     AssociateQueueDispositionsCall("t2", "q1", <<"d2">>),
     ListQueueDispositionsCall("t1", "q1"),
     Simple("t1", RemoveDisposition("d1"))}

Registering ==
    {ReplaceAgentAttributesCall("t2", [a1 |-> "numeric"]),
     Simple("t2", RegisterAttribute("t2", "a1", "boolean")),
     Simple("t2", RegisterAttribute("t2", "a1", "numeric")),
     Simple("t3", CreateTenant("t3")),
     CreateUserCall("t3", "u1")}

\* A task's queue and attributes are validated one after the other, while
\* both registries change; a new agent's queue need not exist.
Enqueueing ==
    {EnqueueTaskCall("t1", "q1", [a1 |-> "numeric"]),
     CreateAgentCall("t1", {"q1"}, "Away", [a1 |-> "numeric"]),
     Simple("t1", RegisterQueue("t1", "q1")), Simple("t1", RemoveQueue("q1")),
     Simple("t1", RemoveAttribute("a1")),
     Simple("t1", RegisterAttribute("t1", "a1", "boolean"))}

\* Every registry, with the validations that read it, while the other tenant
\* removes what has the same name.
Anything ==
    QueueAdmin("t1", "q1") \cup StatusAdmin("t1", "Break") \cup
    UserCalls("t1", "u1") \cup
    {Simple("t1", GetAttribute("a1")), Simple("t2", RemoveAttribute("a1")),
     Simple("t1", RegisterDisposition("t1", "d3")),
     AssociateQueueDispositionsCall("t1", "q1", <<>>), BootstrapCall("t1"),
     SetAgentStatusCall("t1", "Break"), ReplaceAgentQueuesCall("t1", {"q1", "q2"}),
     SetTaskDispositionCall("t1", "d3"),
     LoginCall("t1", "u1"), CreateUserCall("t1", "u1"),
     Simple("t2", RemoveQueue("q1")), Simple("t2", RemoveStatus("Break"))}

MCRequests ==
    [associating |-> Associating, registering |-> Registering,
     enqueueing |-> Enqueueing,
     anything |-> Anything]
MCMaxCalls == [associating |-> 3, registering |-> 3, enqueueing |-> 3,
               anything |-> 2]
MCMaxFaults == [associating |-> 1, registering |-> 1, enqueueing |-> 0,
                anything |-> 0]
=============================================================================
