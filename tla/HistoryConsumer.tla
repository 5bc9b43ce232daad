--------------------------- MODULE HistoryConsumer ---------------------------
(***************************************************************************)
(* Historical reporting, which records every event the task router        *)
(* publishes, on top of the start-up of all the services: events flow only *)
(* between processes that have come up, and a crash of either side goes    *)
(* back through start-up.                                                  *)
(*                                                                         *)
(* JetStream keeps an event until the durable consumer acknowledges it and *)
(* hands it to one replica at a time, unless its AckWait runs out first.   *)
(***************************************************************************)
EXTENDS Startup, Sequences

CONSTANTS
    Events,     \* what is published: [tenant, domain, type, decodes]
    Tenants     \* the tenant ids, that is, the strings uuid.Parse accepts

ASSUME HistoryConstants ==
    Events \subseteq [tenant : STRING, domain : STRING, type : Seq(STRING),
                      decodes : BOOLEAN]

VARIABLES
    event,      \* "none", "stored" or "acked", for each event
    handling,   \* what each process's consume callback is doing
    rows        \* historical_events: how often each row is there

historyVars == <<event, handling, rows>>
vars == <<startupVars, historyVars>>

---------------------------------------------------------------------------
\* Subject: tenant.{tenant_id}.{domain}.{event_type}, as its tokens.  An
\* event type may itself have several.
Subject(e) == <<"tenant", e.tenant, e.domain>> \o e.type

\* Variants named Bug... are faults the properties must detect.
BugParseSubject(s) ==
    [ok |-> Len(s) >= 4 /\ s[1] = "tenant" /\ s[2] \in Tenants,
     row |-> [tenant |-> s[2], domain |-> s[3], type |-> <<s[4]>>]]

\* parseSubject: the first three tokens, and all the rest as the type.
ParseSubject(s) ==
    [ok |-> /\ Len(s) >= 4
            /\ s[1] = "tenant"
            /\ s[2] \in Tenants
            /\ s[3] # ""
            /\ SubSeq(s, 4, Len(s)) # <<"">>,
     row |-> [tenant |-> s[2], domain |-> s[3], type |-> SubSeq(s, 4, Len(s))]]

\* Can handle get as far as InsertEvent?
WellFormed(e) == ParseSubject(Subject(e)).ok /\ e.decodes

\* The row of an event: what an Event record holds of it.
RowOf(e) == ParseSubject(Subject(e)).row
Rows == {RowOf(e) : e \in {f \in Events : WellFormed(f)}}

Resting == [step |-> "resting"]
Handling(step, e) == [step |-> step, event |-> e]
InFlight(e) == \E p \in Procs : handling[p] # Resting /\ handling[p].event = e

HistoryTypeOK ==
    /\ event \in [Events -> {"none", "stored", "acked"}]
    /\ handling \in [Procs -> {Resting} \cup
          [step : {"received", "inserted", "failed"}, event : Events]]
    /\ rows \in [Rows -> Nat]

Init ==
    /\ StartupInit
    /\ event = [e \in Events |-> "none"]
    /\ handling = [p \in Procs |-> Resting]
    /\ rows = [r \in Rows |-> 0]

---------------------------------------------------------------------------
Serving(p, s) == at[p] = "serving" /\ service[p] = s

\* PublishEvent, by a task router that serves.
Publish(e) ==
    /\ event[e] = "none"
    /\ \E p \in Procs : Serving(p, "TaskRouter")
    /\ stream
    /\ event' = [event EXCEPT ![e] = "stored"]
    /\ UNCHANGED <<startupVars, handling, rows>>

\* JetStream hands an event to a replica whose callback is free.
Deliver(p, e) ==
    /\ Serving(p, "Historical") /\ handling[p] = Resting
    /\ event[e] = "stored" /\ ~InFlight(e)
    /\ handling' = [handling EXCEPT ![p] = Handling("received", e)]
    /\ UNCHANGED <<startupVars, event, rows>>

\* AckWait has run out while a callback was at work on the event: a second
\* copy is in the buffer of that replica, or of another, also after the Ack.
Redeliver(p, e) ==
    /\ Serving(p, "Historical") /\ handling[p] = Resting
    /\ InFlight(e) \/ event[e] = "acked"
    /\ faults < MaxFaults[service] /\ faults' = faults + 1
    /\ handling' = [handling EXCEPT ![p] = Handling("received", e)]
    /\ UNCHANGED <<service, procVars, schema, seeded, lock, trust, stream,
                   event, rows>>

\* InsertEvent: one row, under an id made up for it, so that nothing stops
\* a second row for the same event.
InsertEvent(e) == rows' = [rows EXCEPT ![RowOf(e)] = @ + 1]

\* handle: parse, decode, insert.
Handle(p) ==
    /\ handling[p].step = "received"
    /\ LET e == handling[p].event IN
       \/ /\ WellFormed(e)
          /\ InsertEvent(e)
          /\ handling' = [handling EXCEPT ![p].step = "inserted"]
          /\ UNCHANGED faults
       \/ /\ ~WellFormed(e)
          /\ handling' = [handling EXCEPT ![p].step = "failed"]
          /\ UNCHANGED <<rows, faults>>
       \/ /\ WellFormed(e)   \* the INSERT fails
          /\ faults < MaxFaults[service] /\ faults' = faults + 1
          /\ handling' = [handling EXCEPT ![p].step = "failed"]
          /\ UNCHANGED rows
    /\ UNCHANGED <<service, procVars, schema, seeded, lock, trust, stream, event>>

BugRetryInPlace(p) ==
    /\ handling[p].step \in {"inserted", "failed"}
    /\ handling' = [handling EXCEPT ![p] =
          IF @.step = "failed" THEN Handling("received", @.event) ELSE Resting]
    /\ event' = IF handling[p].step = "inserted"
                THEN [event EXCEPT ![handling[p].event] = "acked"] ELSE event
    /\ UNCHANGED <<startupVars, rows>>

\* consume: Ack what was handled, Nak what was not; either may be lost.
Settle(p) ==
    /\ handling[p].step \in {"inserted", "failed"}
    /\ handling' = [handling EXCEPT ![p] = Resting]
    /\ LET e == handling[p].event IN
       \/ /\ event' = IF handling[p].step = "inserted"
                      THEN [event EXCEPT ![e] = "acked"] ELSE event
          /\ UNCHANGED faults
       \/ /\ faults < MaxFaults[service] /\ faults' = faults + 1
          /\ UNCHANGED event
    /\ UNCHANGED <<service, procVars, schema, seeded, lock, trust, stream, rows>>

\* Start-up goes on beside it; a process that goes down takes its callback
\* with it.
Beside ==
    /\ handling' = [p \in Procs |->
                      IF at'[p] = "down" THEN Resting ELSE handling[p]]
    /\ UNCHANGED <<event, rows>>
Run(p) == Step(p) /\ Beside
CrashProcess(p) == Crash(p) /\ Beside
DistributeKey == Distribute /\ UNCHANGED historyVars

Next ==
    \/ DistributeKey
    \/ \E p \in Procs : Run(p) \/ CrashProcess(p)
    \/ \E e \in Events : Publish(e)
    \/ \E p \in Procs, e \in Events : Deliver(p, e) \/ Redeliver(p, e)
    \/ \E p \in Procs : Handle(p) \/ Settle(p)

Spec == Init /\ [][Next]_vars

(***************************************************************************)
(* A process that can go on does, and one that is down is started again;   *)
(* the operator does distribute the key.  JetStream gets to every event it *)
(* holds, also while another is redelivered over and over: it redelivers   *)
(* in turn.                                                                *)
(***************************************************************************)
GoesOn(p) == Run(p) \/ Handle(p) \/ Settle(p)
FairSpec ==
    /\ Spec
    /\ \A p \in Procs : WF_vars(GoesOn(p))
    /\ WF_vars(DistributeKey)
    /\ \A e \in Events : SF_vars(\E p \in Procs : Deliver(p, e))

---------------------------------------------------------------------------
(***************************************************************************)
(* Properties.                                                             *)
(***************************************************************************)

\* An event is acknowledged, and so forgotten by JetStream, only once its
\* own tenant, domain and whole type are in historical_events (handle).
AckedIsRecorded ==
    \A e \in Events :
        event[e] = "acked" =>
            /\ [tenant |-> e.tenant, domain |-> e.domain, type |-> e.type] \in Rows
            /\ rows[[tenant |-> e.tenant, domain |-> e.domain, type |-> e.type]] > 0

\* Every well-formed event comes to be recorded where historical reporting
\* is deployed, through crashes and restarts, and also behind an event that
\* is refused every time.
EveryEventRecorded ==
    \A e \in Events :
        event[e] = "stored" /\ WellFormed(e) /\ (\E p \in Procs : service[p] = "Historical")
            ~> event[e] = "acked"
=============================================================================
