----------------------------- MODULE WrapupSync -----------------------------
(***************************************************************************)
(* From a completed task to a POST at the tenant's wrap-up target: the     *)
(* task router publishes task.completed, a durable JetStream consumer of   *)
(* the background worker pool turns it into a row of background_jobs, a    *)
(* poller claims the row, and a goroutine per claimed row looks up the     *)
(* target, POSTs, and writes the row's next status.                        *)
(*                                                                         *)
(* Time is abstracted: a pending row is due or not, and becomes due.       *)
(***************************************************************************)
EXTENDS Naturals, FiniteSets

CONSTANTS
    Events,       \* tasks that complete
    Consumers,    \* consumer callbacks, one per replica of the worker pool
    JobIds,       \* ids the table can hand out (a bound on the rows)
    MaxAttempts,  \* maxAttempts
    BatchSize,    \* rows claimed per poll
    Configured,   \* the tenant's target at the start
    Faults        \* what can go wrong in this instance

AllFaults ==
    {"publish",   \* the router dies before, or fails in, PublishEvent
     "enqueue",   \* the consumer fails before its INSERT
     "ack",       \* the consumer dies, or loses its ack, after the INSERT
     "ackwait",   \* a message is redelivered while it is being handled
     "lookup",    \* the target table cannot be read
     "mark"}      \* the worker dies, or its final UPDATE fails

\* The tenant's row of wrapup_targets: none, a URL that no request can be
\* built for, or one that can be called.
Targets == {"none", "unusable", "usable"}

ASSUME WrapupConstants ==
    /\ JobIds \subseteq Nat
    /\ MaxAttempts \in Nat \ {0}
    /\ BatchSize \in Nat \ {0}
    /\ Configured \subseteq Targets /\ Configured # {}
    /\ Faults \subseteq AllFaults
    /\ Events # {}

VARIABLES
    event,     \* a task's task.completed message
    consumer,  \* where each consumer callback is
    job,       \* background_jobs
    runner,    \* the goroutines working on claimed rows
    target,    \* the tenant's wrap-up target URL
    posted     \* how often the target took a POST of each row (history)

vars == <<event, consumer, job, runner, target, posted>>
queueVars == <<job, runner, target, posted>>

---------------------------------------------------------------------------
EventState == {"none", "unsent", "lost", "stored", "acked"}
Resting == [at |-> "Resting"]
Handling(e) == [at |-> "Handling", ev |-> e]
Inserted(e) == [at |-> "Inserted", ev |-> e]

JobStatus == {"none", "pending", "processing", "done", "failed"}
Row == [status: JobStatus, attempts: Nat, due: BOOLEAN, ev: Events]
NoRow == [status |-> "none", attempts |-> 0, due |-> FALSE,
          ev |-> CHOOSE e \in Events : TRUE]

\* A goroutine knows its row as the claim returned it.
Runner == [job: JobIds, attempts: Nat,
           at: {"lookup", "post", "done", "retry", "failed"}]
Step(g, at) == [g EXCEPT !.at = at]

TypeOK ==
    /\ event \in [Events -> EventState]
    /\ consumer \in [Consumers -> {Resting} \cup
           {Handling(e) : e \in Events} \cup {Inserted(e) : e \in Events}]
    /\ job \in [JobIds -> Row]
    /\ runner \in SUBSET Runner
    /\ target \in Targets
    /\ posted \in [JobIds -> Nat]

Init ==
    /\ event = [e \in Events |-> "none"]
    /\ consumer = [c \in Consumers |-> Resting]
    /\ job = [j \in JobIds |-> NoRow]
    /\ runner = {}
    /\ target \in Configured
    /\ posted = [j \in JobIds |-> 0]

---------------------------------------------------------------------------
\* The task router.

\* complete_task has run; the event is published by a later call.
CompleteTask(e) ==
    /\ event[e] = "none"
    /\ event' = [event EXCEPT ![e] = "unsent"]
    /\ UNCHANGED <<consumer, queueVars>>

\* A failure to publish is logged and the call succeeds all the same.
PublishEvent(e) ==
    /\ event[e] = "unsent"
    /\ \/ event' = [event EXCEPT ![e] = "stored"]
       \/ "publish" \in Faults /\ event' = [event EXCEPT ![e] = "lost"]
    /\ UNCHANGED <<consumer, queueVars>>

---------------------------------------------------------------------------
\* The durable consumer.

\* JetStream delivers a message that has not been acked, also after a nak
\* or a crash, without limit; after AckWait it does so while another
\* callback may still be handling it.
InHand(e) == \E c \in Consumers : consumer[c] \in {Handling(e), Inserted(e)}
FreeIds == {j \in JobIds : job[j].status = "none"}
Deliver(c, e) ==
    /\ consumer[c] = Resting
    /\ event[e] = "stored"
    /\ ~InHand(e) \/ "ackwait" \in Faults
    /\ FreeIds # {}
    /\ consumer' = [consumer EXCEPT ![c] = Handling(e)]
    /\ UNCHANGED <<event, queueVars>>

\* handle: one INSERT, due at once.
Enqueue(c) ==
    /\ consumer[c].at = "Handling"
    /\ \E j \in FreeIds :
          /\ \A i \in FreeIds : j <= i
          /\ job' = [job EXCEPT ![j] =
                 [status |-> "pending", attempts |-> 0, due |-> TRUE,
                  ev |-> consumer[c].ev]]
    /\ consumer' = [consumer EXCEPT ![c] = Inserted(consumer[c].ev)]
    /\ UNCHANGED <<event, runner, target, posted>>

\* Variants named Bug... are faults the properties must detect.
BugAckEarly(c) ==
    /\ consumer[c].at \in {"Handling", "Inserted"}
    /\ event' = [event EXCEPT ![consumer[c].ev] = "acked"]
    /\ consumer' = [consumer EXCEPT ![c] = Resting]
    /\ UNCHANGED queueVars

\* A nil error from handle is acked.
Ack(c) ==
    /\ consumer[c].at = "Inserted"
    /\ event' = [event EXCEPT ![consumer[c].ev] = "acked"]
    /\ consumer' = [consumer EXCEPT ![c] = Resting]
    /\ UNCHANGED queueVars

BugAckOnError(c) ==
    /\ consumer[c].at = "Handling" /\ "enqueue" \in Faults
    /\ event' = [event EXCEPT ![consumer[c].ev] = "acked"]
    /\ consumer' = [consumer EXCEPT ![c] = Resting]
    /\ UNCHANGED queueVars

\* A nak, or the death of the replica: the message stays in the stream.
\* (The bound on ids counts as a failing INSERT.)
Nak(c) ==
    /\ \/ /\ consumer[c].at = "Handling"
          /\ "enqueue" \in Faults \/ FreeIds = {}
       \/ consumer[c].at = "Inserted" /\ "ack" \in Faults
    /\ consumer' = [consumer EXCEPT ![c] = Resting]
    /\ UNCHANGED <<event, queueVars>>

---------------------------------------------------------------------------
\* The job queue.

\* run_after is reached.
BecomesDue(j) ==
    /\ job[j].status = "pending" /\ ~job[j].due
    /\ job' = [job EXCEPT ![j].due = TRUE]
    /\ UNCHANGED <<event, consumer, runner, target, posted>>

BugAnyStatus == {j \in JobIds : job[j].due}
BugFreshOnly ==
    {j \in JobIds : job[j].status = "pending" /\ job[j].attempts = 0}
BugLeavePending(row) == [row EXCEPT !.attempts = @ + 1]

\* ClaimJobs: rows locked by another poller are skipped.
Claimable == {j \in JobIds : job[j].status = "pending" /\ job[j].due}
Claimed(row) ==
    [row EXCEPT !.status = "processing", !.attempts = @ + 1]

\* pollOnce: claim, commit, and start a goroutine for each row.
PollOnce ==
    \E S \in SUBSET Claimable :
        /\ S # {} /\ Cardinality(S) <= BatchSize
        /\ job' = [j \in JobIds |-> IF j \in S THEN Claimed(job[j])
                                    ELSE job[j]]
        /\ runner' = runner \cup
               {[job |-> j, attempts |-> Claimed(job[j]).attempts,
                 at |-> "lookup"] : j \in S}
        /\ UNCHANGED <<event, consumer, target, posted>>

---------------------------------------------------------------------------
\* The job handler.

BugRetryAtMax(g) ==
    Step(g, IF g.attempts <= MaxAttempts THEN "retry" ELSE "failed")

\* retryOrFail, by the attempts of the row as claimed.
RetryOrFail(g) ==
    Step(g, IF g.attempts < MaxAttempts THEN "retry" ELSE "failed")

\* GetWrapupTargetURL and the request built from its answer: no target, or
\* one that no request can be built for, fails for good with nothing sent;
\* an error of the query is retried.
LookupTarget(g) ==
    /\ g.at = "lookup"
    /\ \/ runner' = (runner \ {g}) \cup
              {Step(g, IF target = "usable" THEN "post" ELSE "failed")}
       \/ /\ "lookup" \in Faults
          /\ runner' = (runner \ {g}) \cup {RetryOrFail(g)}
    /\ UNCHANGED <<event, consumer, job, target, posted>>

\* The POST: taken and answered with 2xx; taken, but the answer is late,
\* lost or not a 2xx; or not taken.
Post(g) ==
    /\ g.at = "post"
    /\ \/ /\ posted' = [posted EXCEPT ![g.job] = @ + 1]
          /\ runner' = (runner \ {g}) \cup {Step(g, "done")}
       \/ /\ posted' = [posted EXCEPT ![g.job] = @ + 1]
          /\ runner' = (runner \ {g}) \cup {RetryOrFail(g)}
       \/ /\ runner' = (runner \ {g}) \cup {RetryOrFail(g)}
          /\ UNCHANGED posted
    /\ UNCHANGED <<event, consumer, job, target>>

\* MarkDone and MarkFailed: an UPDATE by id alone.  A retry is due later.
Marked(row, verdict) ==
    IF verdict = "retry"
    THEN [row EXCEPT !.status = "pending", !.due = FALSE]
    ELSE [row EXCEPT !.status = verdict]
Mark(g) ==
    /\ g.at \in {"done", "retry", "failed"}
    /\ job' = [job EXCEPT ![g.job] = Marked(@, g.at)]
    /\ runner' = runner \ {g}
    /\ UNCHANGED <<event, consumer, target, posted>>

\* The goroutine ends without its UPDATE: nothing else will look at a row
\* that says processing.
Abandon(g) ==
    /\ "mark" \in Faults
    /\ runner' = runner \ {g}
    /\ UNCHANGED <<event, consumer, job, target, posted>>

\* An operator sets or changes the tenant's target.
SetWrapupTargetURL ==
    /\ target' \in Targets \ {"none"}
    /\ UNCHANGED <<event, consumer, job, runner, posted>>

---------------------------------------------------------------------------
Consume(c) == Enqueue(c) \/ Ack(c) \/ Nak(c)
Work(g) == LookupTarget(g) \/ Post(g) \/ Mark(g)

Next ==
    \/ \E e \in Events : CompleteTask(e) \/ PublishEvent(e)
    \/ \E c \in Consumers, e \in Events : Deliver(c, e)
    \/ \E c \in Consumers : Consume(c)
    \/ \E j \in JobIds : BecomesDue(j)
    \/ PollOnce
    \/ \E g \in runner : Work(g) \/ Abandon(g)
    \/ SetWrapupTargetURL

Spec == Init /\ [][Next]_vars

(***************************************************************************)
(* A handler that has begun goes on, JetStream delivers what is not acked, *)
(* time passes, the poller's ticker ticks, and goroutines run.  An INSERT  *)
(* that is tried again and again succeeds some time (strong fairness), as  *)
(* does an ack.  Nothing makes a task complete or an operator act.         *)
(***************************************************************************)
Fairness ==
    /\ \A e \in Events : WF_vars(PublishEvent(e))
    /\ \A e \in Events : WF_vars(\E c \in Consumers : Deliver(c, e))
    /\ \A c \in Consumers : WF_vars(Consume(c)) /\ SF_vars(Enqueue(c))
    /\ \A j \in JobIds : WF_vars(BecomesDue(j))
    /\ WF_vars(PollOnce)
    /\ \A j \in JobIds : WF_vars(\E g \in runner : g.job = j /\ Work(g))

FairSpec == Spec /\ Fairness

---------------------------------------------------------------------------
(***************************************************************************)
(* Properties.                                                             *)
(***************************************************************************)

\* SKIP LOCKED and the status in one UPDATE: a row is worked on by at most
\* one goroutine of all the replicas, and its copy of attempts is current,
\* so the unconditional UPDATE by id never overwrites another's result.
OneRunnerPerRow ==
    \A g \in runner :
        /\ job[g.job].status = "processing"
        /\ job[g.job].attempts = g.attempts
        /\ \A h \in runner : h.job = g.job => h = g

\* A message is acked only once its row is in the table, and a consumer
\* about to ack has inserted it: no completed task that was published is
\* dropped by a crash, a nak or a redelivery.
AckedIsQueued ==
    \A e \in Events :
        \/ event[e] = "acked"
        \/ \E c \in Consumers : consumer[c] = Inserted(e)
        => \E j \in JobIds : job[j].status # "none" /\ job[j].ev = e

\* The target never takes a row more often than it was attempted, which is
\* at most maxAttempts times, and a row is done only if the target took it.
\* (The comment on maxAttempts grants one more: GivesUpOnlyBeyondMax.)
PostsAreBounded ==
    \A j \in JobIds :
        /\ posted[j] <= job[j].attempts
        /\ job[j].attempts <= MaxAttempts
        /\ job[j].status = "done" => posted[j] > 0

\* done and failed are final: no late UPDATE of a goroutine and no poll
\* brings such a row back.
RowsSettleOnce ==
    [][\A j \in JobIds : job[j].status \in {"done", "failed"} =>
                            job'[j] = job[j]]_vars

\* Every published completion gets a wrap-up job, however often the
\* consumer fails, dies before its ack, or is overtaken by a redelivery
\* (until the bound on ids is reached).
PublishedGetsJob ==
    \A e \in Events : event[e] = "stored" ~>
        \/ \E j \in JobIds : job[j].ev = e /\ job[j].status # "none"
        \/ FreeIds = {}

\* Every row reaches a terminal status, unless the goroutine that had it
\* died or could not write it back: such a row says processing for ever.
Orphaned(j) ==
    job[j].status = "processing" /\ \A g \in runner : g.job # j
RowSettlesOrOrphaned ==
    \A j \in JobIds : job[j].status # "none" ~>
        (job[j].status \in {"done", "failed"} \/ Orphaned(j))

\* What the comment on maxAttempts says of the limit: a job is retried while
\* its attempts are at or under maxAttempts and given up once they exceed
\* it, so a POST that fails is never the end of a row before that.  (The
\* code compares with <, and gives up one attempt earlier.)
GivesUpOnlyBeyondMax ==
    [][\A g \in runner :
         g.at = "post" /\ Step(g, "failed") \in runner' =>
             g.attempts > MaxAttempts]_vars
=============================================================================
