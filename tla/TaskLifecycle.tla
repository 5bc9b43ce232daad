--------------------------- MODULE TaskLifecycle ---------------------------
(***************************************************************************)
(* What the task router promises about the life of a task, without saying  *)
(* how: a waiting task is offered to one agent of the roster, who takes it *)
(* or sends it back; work that was taken is ended and completed; when an   *)
(* agent leaves, everything it holds goes back to the queue in the same    *)
(* step.  A completed task has no holder and never changes again, unless   *)
(* it was completed in the name of an agent other than its holder: then it *)
(* stays with the holder, and is returned with the rest of its work.       *)
(* Indexes, reservations, capacity and timers are the implementation's     *)
(* business.                                                               *)
(***************************************************************************)
CONSTANTS Tasks, Agents, Nobody

VARIABLES
    stage,   \* the stage each task is in
    holder,  \* the agent whose in-flight work a task is part of
    roster   \* the agents that exist

lifecycleVars == <<stage, holder, roster>>

Init ==
    /\ stage = [t \in Tasks |-> "Absent"]
    /\ holder = [t \in Tasks |-> Nobody]
    /\ roster = {}

Move(t, from, to, who) ==
    /\ stage[t] \in from
    /\ stage' = [stage EXCEPT ![t] = to]
    /\ holder' = [holder EXCEPT ![t] = who]
    /\ UNCHANGED roster

Enqueue(t) == Move(t, {"Absent"}, "Pending", Nobody)
Offer(t, a) == a \in roster /\ Move(t, {"Pending"}, "Reserved", a)
Accept(t) == Move(t, {"Reserved"}, "Active", holder[t])
Decline(t) == Move(t, {"Reserved"}, "Pending", Nobody)
End(t) == Move(t, {"Active"}, "WrapUp", holder[t])
Complete(t) == Move(t, {"Active", "WrapUp"}, "Completed", Nobody)
\* Completed in the name of another agent: the holder is not relieved.
CompleteForAnother(t) ==
    Move(t, {"Active", "WrapUp"}, "Completed", holder[t])

Join(a) ==
    /\ a \notin roster
    /\ roster' = roster \cup {a}
    /\ UNCHANGED <<stage, holder>>

\* All of the agent's work at once: offered, active, in wrap-up, or
\* completed for another.
Leave(a) ==
    LET returned == {t \in Tasks : holder[t] = a}
    IN  /\ a \in roster
        /\ roster' = roster \ {a}
        /\ stage' = [t \in Tasks |-> IF t \in returned THEN "Pending"
                                     ELSE stage[t]]
        /\ holder' = [t \in Tasks |-> IF t \in returned THEN Nobody
                                      ELSE holder[t]]

Next ==
    \/ \E t \in Tasks : \/ Enqueue(t) \/ Accept(t) \/ Decline(t) \/ End(t)
                        \/ Complete(t) \/ CompleteForAnother(t)
                        \/ \E a \in Agents : Offer(t, a)
    \/ \E a \in Agents : Join(a) \/ Leave(a)

Spec == Init /\ [][Next]_lifecycleVars
=============================================================================
