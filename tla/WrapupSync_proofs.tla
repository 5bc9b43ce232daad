------------------------- MODULE WrapupSync_proofs -------------------------
(***************************************************************************)
(* The safety of the wrap-up pipeline, for any number of events, replicas, *)
(* rows and attempts, and under every fault.                               *)
(***************************************************************************)
EXTENDS WrapupSync, TLAPS

\* What a goroutine may still do is bounded by its row: before its POST the
\* target has not seen this attempt, a verdict of done follows a POST, and a
\* retry leaves an attempt to spare.
RunnersSound ==
    \A g \in runner :
        /\ g.attempts <= MaxAttempts
        /\ g.at \in {"lookup", "post"} => posted[g.job] < g.attempts
        /\ g.at = "done" => posted[g.job] > 0
        /\ g.at = "retry" => g.attempts < MaxAttempts

\* A row that waits has an attempt to spare; a free id has never been used.
RowsSound ==
    \A j \in JobIds :
        /\ job[j].status = "pending" => job[j].attempts < MaxAttempts
        /\ job[j].status = "none" => job[j].attempts = 0 /\ posted[j] = 0

\* The inductive invariant.
Sound ==
    /\ TypeOK
    /\ OneRunnerPerRow
    /\ AckedIsQueued
    /\ PostsAreBounded
    /\ RunnersSound
    /\ RowsSound

\* The fields of a row.
LEMMA RowFacts ==
    ASSUME NEW row \in Row
    PROVE  row.attempts \in Nat /\ row.ev \in Events
BY DEF Row

\* A claim counts one attempt and touches neither the event nor run_after.
LEMMA ClaimedFacts ==
    ASSUME NEW row \in Row
    PROVE  /\ Claimed(row).status = "processing"
           /\ Claimed(row).attempts = row.attempts + 1
           /\ Claimed(row).ev = row.ev
           /\ Claimed(row) \in Row
<1>1. row.attempts \in Nat
  BY DEF Row
<1>2. row.attempts + 1 \in Nat
  BY <1>1
<1> DEFINE more == row.attempts + 1
<1>3. Claimed(row) = [row EXCEPT !.status = "processing", !.attempts = more]
  BY DEF Claimed
<1> HIDE DEF more
<1>4. more \in Nat
  BY <1>2 DEF more
<1>5. /\ Claimed(row).status = "processing"
      /\ Claimed(row).attempts = more
      /\ Claimed(row).ev = row.ev
      /\ Claimed(row) \in Row
  BY <1>3, <1>4 DEF Row, JobStatus
<1> QED
  BY <1>5 DEF more

\* Steps of the router and of the stream leave the table alone.
LEMMA TableUntouched ==
    ASSUME OneRunnerPerRow, PostsAreBounded, RunnersSound, RowsSound,
           UNCHANGED queueVars
    PROVE  /\ OneRunnerPerRow' /\ PostsAreBounded'
           /\ RunnersSound' /\ RowsSound'
BY DEF OneRunnerPerRow, PostsAreBounded, RunnersSound, RowsSound, queueVars

\* Steps of the queue and of its workers leave the stream alone and remove
\* no row.
LEMMA StreamUntouched ==
    ASSUME AckedIsQueued, UNCHANGED <<event, consumer>>,
           \A j \in JobIds : job[j].status # "none" =>
               job'[j].status # "none" /\ job'[j].ev = job[j].ev
    PROVE  AckedIsQueued'
BY DEF AckedIsQueued

\* An empty table and an empty stream.
LEMMA InitSound == Init => Sound
<1> SUFFICES ASSUME Init PROVE Sound
  OBVIOUS
<1> USE WrapupConstants DEF Init
<1>1. (CHOOSE e \in Events : TRUE) \in Events
  OBVIOUS
<1>2. NoRow \in Row
  BY <1>1 DEF NoRow, JobStatus, Row
<1>3. TypeOK
  BY <1>2 DEF TypeOK, EventState
<1>4. AckedIsQueued
  BY DEF AckedIsQueued, Inserted, Resting
<1>5. OneRunnerPerRow /\ RunnersSound
  BY DEF OneRunnerPerRow, RunnersSound
<1>6. PostsAreBounded /\ RowsSound
  BY DEF PostsAreBounded, RowsSound, NoRow
<1> QED
  BY <1>3, <1>4, <1>5, <1>6 DEF Sound

\* The stream's steps: publish, deliver, ack, nak, and the INSERT, whose row
\* is in the table before the consumer can ack.
LEMMA StreamStepSound ==
    ASSUME Sound,
           \/ \E e \in Events : CompleteTask(e) \/ PublishEvent(e)
           \/ \E c \in Consumers, e \in Events : Deliver(c, e)
           \/ \E c \in Consumers : Consume(c)
    PROVE  Sound'
<1> USE WrapupConstants DEF Handling, Inserted, Resting
<1>0. /\ TypeOK /\ OneRunnerPerRow /\ AckedIsQueued /\ PostsAreBounded
      /\ RunnersSound /\ RowsSound
  BY DEF Sound
<1>1. ASSUME NEW e \in Events, CompleteTask(e) \/ PublishEvent(e)
      PROVE  Sound'
  <2>1. UNCHANGED queueVars /\ UNCHANGED consumer
    BY <1>1 DEF CompleteTask, PublishEvent
  <2>2. TypeOK'
    BY <1>0, <1>1, <2>1
    DEF TypeOK, CompleteTask, PublishEvent, EventState, queueVars
  <2>3. AckedIsQueued'
    BY <1>0, <1>1, <2>1
    DEF TypeOK, AckedIsQueued, CompleteTask, PublishEvent, queueVars
  <2> QED
    BY <1>0, <2>1, <2>2, <2>3, TableUntouched DEF Sound
<1>2. ASSUME NEW c \in Consumers, NEW e \in Events, Deliver(c, e)
      PROVE  Sound'
  <2>1. UNCHANGED queueVars /\ UNCHANGED event
    BY <1>2 DEF Deliver
  <2>2. TypeOK'
    BY <1>0, <1>2, <2>1 DEF TypeOK, Deliver, queueVars
  <2>3. AckedIsQueued'
    BY <1>0, <1>2, <2>1 DEF TypeOK, AckedIsQueued, Deliver, queueVars
  <2> QED
    BY <1>0, <2>1, <2>2, <2>3, TableUntouched DEF Sound
<1>3. ASSUME NEW c \in Consumers, Enqueue(c)
      PROVE  Sound'
  <2> DEFINE e == consumer[c].ev
  <2>1. e \in Events /\ consumer[c] = Handling(e)
    BY <1>0, <1>3 DEF TypeOK, Enqueue
  <2>2. PICK j \in FreeIds :
            job' = [job EXCEPT ![j] = [status |-> "pending", attempts |-> 0,
                                       due |-> TRUE, ev |-> e]]
    BY <1>3 DEF Enqueue
  <2>3. j \in JobIds /\ job[j].status = "none"
    BY <2>2 DEF FreeIds
  <2>4. /\ consumer' = [consumer EXCEPT ![c] = Inserted(e)]
        /\ UNCHANGED <<event, runner, target, posted>>
    BY <1>3 DEF Enqueue
  <2> HIDE DEF e
  <2>5. /\ job'[j] = [status |-> "pending", attempts |-> 0,
                      due |-> TRUE, ev |-> e]
        /\ \A i \in JobIds : i # j => job'[i] = job[i]
    BY <1>0, <2>2, <2>3 DEF TypeOK
  <2>6. TypeOK'
    BY <1>0, <2>1, <2>2, <2>3, <2>4 DEF TypeOK, JobStatus, Row
  <2>7. OneRunnerPerRow' /\ RunnersSound'
    <3>1. \A g \in runner : g.job \in JobIds /\ g.job # j
      BY <1>0, <2>3 DEF OneRunnerPerRow, TypeOK, Runner
    <3> QED
      BY <1>0, <2>4, <2>5, <3>1 DEF OneRunnerPerRow, RunnersSound
  <2>8. PostsAreBounded' /\ RowsSound'
    BY <1>0, <2>3, <2>4, <2>5 DEF PostsAreBounded, RowsSound
  <2>9. AckedIsQueued'
    <3> SUFFICES ASSUME NEW d \in Events,
                        \/ event[d] = "acked"
                        \/ \E b \in Consumers : consumer'[b] = Inserted(d)
                 PROVE  \E i \in JobIds : job'[i].status # "none"
                                          /\ job'[i].ev = d
      BY <2>4 DEF AckedIsQueued
    <3>1. CASE d = e
      BY <2>3, <2>5, <3>1
    <3>2. CASE d # e
      <4>1. event[d] = "acked" \/ \E b \in Consumers : consumer[b] = Inserted(d)
        BY <1>0, <2>4, <3>2 DEF TypeOK
      <4>2. PICK i \in JobIds : job[i].status # "none" /\ job[i].ev = d
        BY <1>0, <4>1 DEF AckedIsQueued
      <4> QED
        BY <2>3, <2>5, <4>2
    <3> QED
      BY <3>1, <3>2
  <2> QED
    BY <2>6, <2>7, <2>8, <2>9 DEF Sound
<1>4. ASSUME NEW c \in Consumers, Ack(c) \/ Nak(c)
      PROVE  Sound'
  <2>1. UNCHANGED queueVars
    BY <1>4 DEF Ack, Nak
  <2>2. TypeOK'
    BY <1>0, <1>4, <2>1 DEF TypeOK, Ack, Nak, queueVars, EventState
  <2>3. AckedIsQueued'
    BY <1>0, <1>4, <2>1 DEF TypeOK, AckedIsQueued, Ack, Nak, queueVars
  <2> QED
    BY <1>0, <2>1, <2>2, <2>3, TableUntouched DEF Sound
<1> QED
  BY <1>1, <1>2, <1>3, <1>4 DEF Consume

\* The queue's steps: a claim is taken from rows that have an attempt to
\* spare and that no goroutine works on.
LEMMA QueueStepSound ==
    ASSUME Sound, PollOnce \/ \E j \in JobIds : BecomesDue(j)
    PROVE  Sound'
<1> USE WrapupConstants
<1>0. /\ TypeOK /\ OneRunnerPerRow /\ AckedIsQueued /\ PostsAreBounded
      /\ RunnersSound /\ RowsSound
  BY DEF Sound
<1>1. ASSUME NEW j \in JobIds, BecomesDue(j)
      PROVE  Sound'
  <2>1. /\ \A i \in JobIds : /\ job'[i].status = job[i].status
                             /\ job'[i].attempts = job[i].attempts
                             /\ job'[i].ev = job[i].ev
        /\ UNCHANGED <<event, consumer, runner, target, posted>>
    BY <1>0, <1>1 DEF TypeOK, BecomesDue, Row
  <2>2. TypeOK'
    BY <1>0, <1>1 DEF TypeOK, BecomesDue, Row
  <2>3. \A g \in runner : g.job \in JobIds
    BY <1>0 DEF TypeOK, Runner
  <2>4. OneRunnerPerRow' /\ RunnersSound'
    BY <1>0, <2>1, <2>3 DEF OneRunnerPerRow, RunnersSound
  <2>5. PostsAreBounded' /\ RowsSound'
    BY <1>0, <2>1 DEF PostsAreBounded, RowsSound
  <2>6. AckedIsQueued'
    BY <1>0, <2>1, StreamUntouched
  <2> QED
    BY <2>2, <2>4, <2>5, <2>6 DEF Sound
<1>2. ASSUME PollOnce
      PROVE  Sound'
  <2>1. PICK S \in SUBSET Claimable :
            /\ job' = [j \in JobIds |-> IF j \in S THEN Claimed(job[j])
                                        ELSE job[j]]
            /\ runner' = runner \cup
                   {[job |-> j, attempts |-> Claimed(job[j]).attempts,
                     at |-> "lookup"] : j \in S}
            /\ UNCHANGED <<event, consumer, target, posted>>
    BY <1>2 DEF PollOnce
  <2>2. \A j \in S : j \in JobIds /\ job[j].status = "pending"
    BY DEF Claimable
  <2>3. \A j \in S : /\ job'[j].status = "processing"
                     /\ job'[j].attempts = job[j].attempts + 1
                     /\ job'[j].ev = job[j].ev
                     /\ Claimed(job[j]).attempts = job[j].attempts + 1
                     /\ job'[j] \in Row
    <3> SUFFICES ASSUME NEW j \in S
                 PROVE  /\ job'[j].status = "processing"
                        /\ job'[j].attempts = job[j].attempts + 1
                        /\ job'[j].ev = job[j].ev
                        /\ Claimed(job[j]).attempts = job[j].attempts + 1
                        /\ job'[j] \in Row
      OBVIOUS
    <3>1. job'[j] = Claimed(job[j])
      BY <2>1, <2>2
    <3>2. job[j] \in Row
      BY <1>0, <2>2 DEF TypeOK
    <3> QED
      BY <3>1, <3>2, ClaimedFacts
  <2>4. \A j \in JobIds : j \notin S => job'[j] = job[j]
    BY <2>1
  <2>5. \A g \in runner : g.job \in JobIds /\ g.job \notin S
    BY <1>0, <2>2 DEF OneRunnerPerRow, TypeOK, Runner
  <2>6. \A g \in runner' : \/ g \in runner
                           \/ /\ g.job \in S /\ g.at = "lookup"
                              /\ g.attempts = job[g.job].attempts + 1
                              /\ g = [job |-> g.job, at |-> "lookup",
                                      attempts |-> job[g.job].attempts + 1]
    BY <2>1, <2>3
  <2>7. TypeOK'
    <3>1. job' \in [JobIds -> Row]
      BY <1>0, <2>1, <2>3, <2>4 DEF TypeOK
    <3>2. ASSUME NEW j \in S PROVE job[j].attempts + 1 \in Nat
      <4>1. job[j].attempts \in Nat
        BY <1>0, <2>2, RowFacts DEF TypeOK
      <4> QED
        BY <4>1
    <3>3. \A j \in S : [job |-> j, attempts |-> job[j].attempts + 1,
                        at |-> "lookup"] \in Runner
      BY <2>2, <3>2 DEF Runner
    <3>4. runner' \in SUBSET Runner
      <4>1. runner \subseteq Runner
        BY <1>0 DEF TypeOK
      <4> QED
        BY <2>1, <2>3, <3>3, <4>1
    <3> QED
      BY <1>0, <2>1, <3>1, <3>4 DEF TypeOK
  <2>8. OneRunnerPerRow'
    <3>1. ASSUME NEW g \in runner'
          PROVE  /\ job'[g.job].status = "processing"
                 /\ job'[g.job].attempts = g.attempts
      BY <1>0, <2>3, <2>4, <2>5, <2>6 DEF OneRunnerPerRow
    <3>2. ASSUME NEW g \in runner', NEW h \in runner', h.job = g.job
          PROVE  h = g
      BY <1>0, <2>5, <2>6, <3>2 DEF OneRunnerPerRow
    <3> QED
      BY <3>1, <3>2 DEF OneRunnerPerRow
  <2>9. RunnersSound'
    <3> SUFFICES ASSUME NEW g \in runner'
                 PROVE  /\ g.attempts <= MaxAttempts
                        /\ g.at \in {"lookup", "post"} =>
                               posted[g.job] < g.attempts
                        /\ g.at = "done" => posted[g.job] > 0
                        /\ g.at = "retry" => g.attempts < MaxAttempts
      BY <2>1 DEF RunnersSound
    <3>1. CASE g \in runner
      BY <1>0, <3>1 DEF RunnersSound
    <3>2. CASE g \notin runner
      <4>1. /\ g.job \in S /\ g.at = "lookup"
            /\ g.attempts = job[g.job].attempts + 1
        BY <2>6, <3>2
      <4>2. job[g.job].attempts < MaxAttempts
        BY <1>0, <2>2, <4>1 DEF RowsSound
      <4>3. posted[g.job] <= job[g.job].attempts
        BY <1>0, <2>2, <4>1 DEF PostsAreBounded
      <4>4. job[g.job].attempts \in Nat /\ posted[g.job] \in Nat
        BY <1>0, <2>2, <4>1, RowFacts DEF TypeOK
      <4> QED
        BY <4>1, <4>2, <4>3, <4>4
    <3> QED
      BY <3>1, <3>2
  <2>10. PostsAreBounded'
    <3> SUFFICES ASSUME NEW j \in JobIds
                 PROVE  /\ posted[j] <= job'[j].attempts
                        /\ job'[j].attempts <= MaxAttempts
                        /\ job'[j].status = "done" => posted[j] > 0
      BY <2>1 DEF PostsAreBounded
    <3>1. job[j].attempts \in Nat /\ posted[j] \in Nat
      BY <1>0, RowFacts DEF TypeOK
    <3>2. posted[j] <= job[j].attempts
      BY <1>0 DEF PostsAreBounded
    <3>3. CASE j \in S
      <4>1. job[j].attempts < MaxAttempts
        BY <1>0, <2>2, <3>3 DEF RowsSound
      <4>2. job'[j].status = "processing"
            /\ job'[j].attempts = job[j].attempts + 1
        BY <2>3, <3>3
      <4> QED
        BY <3>1, <3>2, <4>1, <4>2
    <3>4. CASE j \notin S
      BY <1>0, <2>4, <3>4 DEF PostsAreBounded
    <3> QED
      BY <3>3, <3>4
  <2>11. RowsSound'
    BY <1>0, <2>1, <2>3, <2>4 DEF RowsSound
  <2>12. AckedIsQueued'
    <3>1. \A j \in JobIds : job[j].status # "none" =>
              job'[j].status # "none" /\ job'[j].ev = job[j].ev
      BY <2>3, <2>4
    <3> QED
      BY <1>0, <2>1, <3>1, StreamUntouched
  <2> QED
    BY <2>7, <2>8, <2>9, <2>10, <2>11, <2>12 DEF Sound
<1> QED
  BY <1>1, <1>2

\* A goroutine that goes on keeps its row and its copy of the attempts.
LEMMA StepFacts ==
    ASSUME NEW g \in Runner,
           NEW at \in {"lookup", "post", "done", "retry", "failed"}
    PROVE  /\ Step(g, at) \in Runner
           /\ Step(g, at).job = g.job
           /\ Step(g, at).attempts = g.attempts
           /\ Step(g, at).at = at
BY DEF Step, Runner

\* retryOrFail decides for a retry only with an attempt to spare.
LEMMA RetryOrFailFacts ==
    ASSUME NEW g \in Runner
    PROVE  /\ RetryOrFail(g) \in Runner
           /\ RetryOrFail(g).job = g.job
           /\ RetryOrFail(g).attempts = g.attempts
           /\ RetryOrFail(g).at \in {"retry", "failed"}
           /\ RetryOrFail(g).at = "retry" => g.attempts < MaxAttempts
<1>1. CASE g.attempts < MaxAttempts
  BY <1>1, StepFacts DEF RetryOrFail
<1>2. CASE ~(g.attempts < MaxAttempts)
  BY <1>2, StepFacts DEF RetryOrFail
<1> QED
  BY <1>1, <1>2

\* One goroutine goes on, and its row may be posted: sound if what it has
\* become is.
LEMMA RunnerGoesOn ==
    ASSUME Sound, NEW g \in runner, NEW h \in Runner,
           h.job = g.job, h.attempts = g.attempts,
           runner' = (runner \ {g}) \cup {h},
           \/ UNCHANGED posted
           \/ g.at = "post" /\ posted' = [posted EXCEPT ![g.job] = @ + 1],
           h.at \in {"lookup", "post"} => UNCHANGED posted
                                          /\ g.at \in {"lookup", "post"},
           h.at = "done" => g.at = "post" /\ ~UNCHANGED posted,
           h.at = "retry" => h.attempts < MaxAttempts,
           UNCHANGED <<event, consumer, job, target>>
    PROVE  Sound'
<1> USE WrapupConstants
<1>0. /\ TypeOK /\ OneRunnerPerRow /\ AckedIsQueued /\ PostsAreBounded
      /\ RunnersSound /\ RowsSound
  BY DEF Sound
<1>1. /\ g \in Runner /\ g.job \in JobIds /\ g.attempts \in Nat
      /\ \A k \in runner : k.job \in JobIds
  BY <1>0 DEF TypeOK, Runner
<1>2. posted \in [JobIds -> Nat] /\ posted' \in [JobIds -> Nat]
  BY <1>0, <1>1 DEF TypeOK
<1>3. TypeOK'
  BY <1>0, <1>1, <1>2 DEF TypeOK
<1>4. OneRunnerPerRow'
  BY <1>0 DEF OneRunnerPerRow
<1>5. \A k \in runner \ {g} : k.job # g.job
  BY <1>0 DEF OneRunnerPerRow
<1>6. /\ job[g.job].status = "processing"
      /\ job[g.job].attempts = g.attempts
  BY <1>0 DEF OneRunnerPerRow
<1>7. \A j \in JobIds : j # g.job => posted'[j] = posted[j]
  BY <1>1, <1>2
<1>8. /\ posted[g.job] \in Nat /\ posted'[g.job] \in Nat
      /\ posted'[g.job] <= g.attempts
      /\ ~UNCHANGED posted => posted'[g.job] > 0
  <2>1. posted[g.job] \in Nat /\ posted'[g.job] \in Nat
    BY <1>1, <1>2
  <2>2. posted[g.job] <= g.attempts
    BY <1>0, <1>1, <1>6 DEF PostsAreBounded
  <2>3. g.at = "post" => posted[g.job] < g.attempts
    BY <1>0 DEF RunnersSound
  <2>4. \/ UNCHANGED posted
        \/ g.at = "post" /\ posted'[g.job] = posted[g.job] + 1
    BY <1>1, <1>2
  <2> QED
    BY <1>1, <2>1, <2>2, <2>3, <2>4
<1>9. RunnersSound'
  <2> SUFFICES ASSUME NEW k \in runner'
               PROVE  /\ k.attempts <= MaxAttempts
                      /\ k.at \in {"lookup", "post"} =>
                             posted'[k.job] < k.attempts
                      /\ k.at = "done" => posted'[k.job] > 0
                      /\ k.at = "retry" => k.attempts < MaxAttempts
    BY DEF RunnersSound
  <2>1. CASE k \in runner \ {g}
    <3>1. posted'[k.job] = posted[k.job]
      BY <1>1, <1>5, <1>7, <2>1
    <3> QED
      BY <1>0, <2>1, <3>1 DEF RunnersSound
  <2>2. CASE k = h
    <3>1. g.attempts <= MaxAttempts
      BY <1>0 DEF RunnersSound
    <3>2. g.at \in {"lookup", "post"} => posted[g.job] < g.attempts
      BY <1>0 DEF RunnersSound
    <3> QED
      BY <1>8, <2>2, <3>1, <3>2
  <2> QED
    BY <2>1, <2>2
<1>10. PostsAreBounded'
  <2> SUFFICES ASSUME NEW j \in JobIds
               PROVE  /\ posted'[j] <= job[j].attempts
                      /\ job[j].attempts <= MaxAttempts
                      /\ job[j].status = "done" => posted'[j] > 0
    BY DEF PostsAreBounded
  <2>1. CASE j # g.job
    BY <1>0, <1>7, <2>1 DEF PostsAreBounded
  <2>2. CASE j = g.job
    BY <1>0, <1>6, <1>8, <2>2 DEF PostsAreBounded
  <2> QED
    BY <2>1, <2>2
<1>11. RowsSound'
  <2> SUFFICES ASSUME NEW j \in JobIds
               PROVE  /\ job[j].status = "pending" =>
                             job[j].attempts < MaxAttempts
                      /\ job[j].status = "none" =>
                             job[j].attempts = 0 /\ posted'[j] = 0
    BY DEF RowsSound
  <2>1. CASE j # g.job
    BY <1>0, <1>7, <2>1 DEF RowsSound
  <2>2. CASE j = g.job
    BY <1>6, <2>2
  <2> QED
    BY <2>1, <2>2
<1>12. AckedIsQueued'
  BY <1>0, StreamUntouched
<1> QED
  BY <1>3, <1>4, <1>9, <1>10, <1>11, <1>12 DEF Sound

\* A goroutine ends without its UPDATE: its row is left as it is.
LEMMA AbandonSound ==
    ASSUME Sound, NEW g \in runner, Abandon(g)
    PROVE  Sound'
<1>0. /\ TypeOK /\ OneRunnerPerRow /\ AckedIsQueued /\ PostsAreBounded
      /\ RunnersSound /\ RowsSound
  BY DEF Sound
<1>1. TypeOK'
  BY <1>0 DEF TypeOK, Abandon
<1>2. OneRunnerPerRow' /\ RunnersSound'
  BY <1>0 DEF OneRunnerPerRow, RunnersSound, Abandon
<1>3. PostsAreBounded' /\ RowsSound' /\ AckedIsQueued'
  BY <1>0 DEF PostsAreBounded, RowsSound, AckedIsQueued, Abandon
<1> QED
  BY <1>1, <1>2, <1>3 DEF Sound

\* The UPDATE by id alone hits the row the goroutine was started for, which
\* is still its own.
LEMMA MarkSound ==
    ASSUME Sound, NEW g \in runner, Mark(g)
    PROVE  Sound'
<1> USE WrapupConstants
<1>0. /\ TypeOK /\ OneRunnerPerRow /\ AckedIsQueued /\ PostsAreBounded
      /\ RunnersSound /\ RowsSound
  BY DEF Sound
<1>1. /\ g \in Runner /\ g.job \in JobIds
      /\ \A k \in runner : k.job \in JobIds
  BY <1>0 DEF TypeOK, Runner
<1> DEFINE row == job[g.job]
<1>2. row \in Row /\ row.status = "processing" /\ row.attempts = g.attempts
  BY <1>0, <1>1 DEF TypeOK, OneRunnerPerRow
<1>3. /\ g.at \in {"done", "retry", "failed"}
      /\ job' = [job EXCEPT ![g.job] = Marked(row, g.at)]
      /\ runner' = runner \ {g}
      /\ UNCHANGED <<event, consumer, target, posted>>
  BY DEF Mark
<1>4. /\ Marked(row, g.at) \in Row
      /\ Marked(row, g.at).attempts = row.attempts
      /\ Marked(row, g.at).ev = row.ev
      /\ Marked(row, g.at).status =
             IF g.at = "retry" THEN "pending" ELSE g.at
  <2>1. CASE g.at = "retry"
    BY <1>2, <2>1 DEF Marked, Row, JobStatus
  <2>2. CASE g.at # "retry"
    BY <1>2, <1>3, <2>2 DEF Marked, Row, JobStatus
  <2> QED
    BY <2>1, <2>2
<1>5. /\ job'[g.job] = Marked(row, g.at)
      /\ \A j \in JobIds : j # g.job => job'[j] = job[j]
  BY <1>0, <1>1, <1>3 DEF TypeOK
<1>6. TypeOK'
  BY <1>0, <1>1, <1>3, <1>4 DEF TypeOK
<1>7. \A k \in runner' : k \in runner /\ k.job # g.job
  BY <1>0, <1>3 DEF OneRunnerPerRow
<1>8. OneRunnerPerRow' /\ RunnersSound'
  BY <1>0, <1>1, <1>3, <1>5, <1>7 DEF OneRunnerPerRow, RunnersSound
<1>9. PostsAreBounded'
  <2> SUFFICES ASSUME NEW j \in JobIds
               PROVE  /\ posted[j] <= job'[j].attempts
                      /\ job'[j].attempts <= MaxAttempts
                      /\ job'[j].status = "done" => posted[j] > 0
    BY <1>3 DEF PostsAreBounded
  <2>1. CASE j # g.job
    BY <1>0, <1>5, <2>1 DEF PostsAreBounded
  <2>2. CASE j = g.job
    <3>1. /\ posted[j] <= job[j].attempts
          /\ job[j].attempts <= MaxAttempts
      BY <1>0 DEF PostsAreBounded
    <3>2. g.at = "done" => posted[j] > 0
      BY <1>0, <2>2 DEF RunnersSound
    <3> QED
      BY <1>4, <1>5, <2>2, <3>1, <3>2
  <2> QED
    BY <2>1, <2>2
<1>10. RowsSound'
  <2> SUFFICES ASSUME NEW j \in JobIds
               PROVE  /\ job'[j].status = "pending" =>
                             job'[j].attempts < MaxAttempts
                      /\ job'[j].status = "none" =>
                             job'[j].attempts = 0 /\ posted[j] = 0
    BY <1>3 DEF RowsSound
  <2>1. CASE j # g.job
    BY <1>0, <1>5, <2>1 DEF RowsSound
  <2>2. CASE j = g.job
    <3>1. g.at = "retry" => g.attempts < MaxAttempts
      BY <1>0 DEF RunnersSound
    <3> QED
      BY <1>2, <1>3, <1>4, <1>5, <2>2, <3>1
  <2> QED
    BY <2>1, <2>2
<1>11. AckedIsQueued'
  <2>1. \A j \in JobIds : job[j].status # "none" =>
            job'[j].status # "none" /\ job'[j].ev = job[j].ev
    <3> SUFFICES ASSUME NEW j \in JobIds, job[j].status # "none"
                 PROVE  job'[j].status # "none" /\ job'[j].ev = job[j].ev
      OBVIOUS
    <3>1. CASE j # g.job
      BY <1>5, <3>1
    <3>2. CASE j = g.job
      BY <1>3, <1>4, <1>5, <3>2
    <3> QED
      BY <3>1, <3>2
  <2> QED
    BY <1>0, <1>3, <2>1, StreamUntouched
<1> QED
  BY <1>6, <1>8, <1>9, <1>10, <1>11 DEF Sound

\* The handler's steps: the lookup and the POST with all its outcomes.
LEMMA WorkSound ==
    ASSUME Sound, NEW g \in runner, Work(g)
    PROVE  Sound'
<1>1. g \in Runner /\ posted \in [JobIds -> Nat] /\ g.job \in JobIds
  BY DEF Sound, TypeOK, Runner
<1>2. CASE LookupTarget(g)
  <2>1. g.at = "lookup" /\ UNCHANGED <<event, consumer, job, target, posted>>
    BY <1>2 DEF LookupTarget
  <2>2. CASE runner' = (runner \ {g}) \cup
                 {Step(g, IF target = "usable" THEN "post" ELSE "failed")}
    <3>1. CASE target = "usable"
      <4>1. runner' = (runner \ {g}) \cup {Step(g, "post")}
        BY <2>2, <3>1
      <4> QED
        BY <1>1, <2>1, <4>1, StepFacts, RunnerGoesOn
    <3>2. CASE target # "usable"
      <4>1. runner' = (runner \ {g}) \cup {Step(g, "failed")}
        BY <2>2, <3>2
      <4> QED
        BY <1>1, <2>1, <4>1, StepFacts, RunnerGoesOn
    <3> QED
      BY <3>1, <3>2
  <2>3. CASE runner' = (runner \ {g}) \cup {RetryOrFail(g)}
    BY <1>1, <2>1, <2>3, RetryOrFailFacts, RunnerGoesOn
  <2> QED
    BY <1>2, <2>2, <2>3 DEF LookupTarget
<1>3. CASE Post(g)
  <2>1. g.at = "post" /\ UNCHANGED <<event, consumer, job, target>>
    BY <1>3 DEF Post
  <2>2. CASE /\ posted' = [posted EXCEPT ![g.job] = @ + 1]
             /\ runner' = (runner \ {g}) \cup {Step(g, "done")}
    <3>1. posted' # posted
      <4>1. posted[g.job] \in Nat /\ posted'[g.job] = posted[g.job] + 1
        BY <1>1, <2>2
      <4>2. posted'[g.job] # posted[g.job]
        BY <4>1
      <4> QED
        BY <4>2
    <3> QED
      BY <1>1, <2>1, <2>2, <3>1, StepFacts, RunnerGoesOn
  <2>3. CASE /\ posted' = [posted EXCEPT ![g.job] = @ + 1]
             /\ runner' = (runner \ {g}) \cup {RetryOrFail(g)}
    BY <1>1, <2>1, <2>3, RetryOrFailFacts, RunnerGoesOn
  <2>4. CASE /\ runner' = (runner \ {g}) \cup {RetryOrFail(g)}
             /\ UNCHANGED posted
    BY <1>1, <2>1, <2>4, RetryOrFailFacts, RunnerGoesOn
  <2> QED
    BY <1>3, <2>2, <2>3, <2>4 DEF Post
<1>4. CASE Mark(g)
  BY <1>4, MarkSound
<1> QED
  BY <1>2, <1>3, <1>4 DEF Work

\* An operator's INSERT of the target touches no row.
LEMMA TargetSound ==
    ASSUME Sound, SetWrapupTargetURL
    PROVE  Sound'
BY DEF Sound, SetWrapupTargetURL, TypeOK, OneRunnerPerRow, AckedIsQueued,
       PostsAreBounded, RunnersSound, RowsSound

\* The whole pipeline, under every fault: rows have one worker at a time,
\* acked events are in the table, and attempts and POSTs are bounded.
THEOREM PipelineSound == Spec => []Sound
<1>1. Sound /\ [Next]_vars => Sound'
  <2> SUFFICES ASSUME Sound, [Next]_vars PROVE Sound'
    OBVIOUS
  <2>1. CASE UNCHANGED vars
    BY <2>1 DEF vars, Sound, TypeOK, OneRunnerPerRow, AckedIsQueued,
                PostsAreBounded, RunnersSound, RowsSound
  <2>2. CASE Next
    BY <2>2, StreamStepSound, QueueStepSound, WorkSound, AbandonSound,
       TargetSound DEF Next
  <2> QED
    BY <2>1, <2>2
<1> QED
  BY <1>1, InitSound, PTL DEF Spec

\* Claim, retry and UPDATE by id never put two goroutines on one row.
THEOREM RowsExclusive == Spec => []OneRunnerPerRow
<1>1. Sound => OneRunnerPerRow
  BY DEF Sound
<1> QED
  BY <1>1, PipelineSound, PTL

\* No crash, nak, lost ack or redelivery drops an event that was acked.
THEOREM NothingAckedIsLost == Spec => []AckedIsQueued
<1>1. Sound => AckedIsQueued
  BY DEF Sound
<1> QED
  BY <1>1, PipelineSound, PTL

\* A row costs the target at most maxAttempts POSTs, and is never done
\* without one.
THEOREM PostsBounded == Spec => []PostsAreBounded
<1>1. Sound => PostsAreBounded
  BY DEF Sound
<1> QED
  BY <1>1, PipelineSound, PTL

\* A row that is done or failed is never touched again, because nobody is
\* working on it and no poll selects it.
THEOREM SettledOnce == Spec => RowsSettleOnce
<1> DEFINE Kept == \A j \in JobIds : job[j].status \in {"done", "failed"} =>
                                        job'[j] = job[j]
<1>1. Sound /\ [Next]_vars => Kept
  <2> SUFFICES ASSUME Sound, [Next]_vars,
                      NEW j \in JobIds, job[j].status \in {"done", "failed"}
               PROVE  job'[j] = job[j]
    OBVIOUS
  <2>0. job \in [JobIds -> Row] /\ OneRunnerPerRow
    BY DEF Sound, TypeOK
  <2>1. CASE UNCHANGED job
    BY <2>1
  <2>2. ASSUME NEW c \in Consumers, Enqueue(c) PROVE job'[j] = job[j]
    BY <2>0, <2>2 DEF Enqueue, FreeIds
  <2>3. ASSUME NEW i \in JobIds, BecomesDue(i) PROVE job'[j] = job[j]
    BY <2>0, <2>3 DEF BecomesDue
  <2>4. CASE PollOnce
    BY <2>4 DEF PollOnce, Claimable
  <2>5. ASSUME NEW g \in runner, Mark(g) PROVE job'[j] = job[j]
    <3>1. g.job # j
      BY <2>0 DEF OneRunnerPerRow
    <3> QED
      BY <2>0, <2>5, <3>1 DEF Mark
  <2> QED
    BY <2>1, <2>2, <2>3, <2>4, <2>5
    DEF Next, vars, queueVars, CompleteTask, PublishEvent, Deliver, Consume,
        Ack, Nak, Work, LookupTarget, Post, Abandon, SetWrapupTargetURL
<1> QED
  BY <1>1, PipelineSound, PTL DEF Spec, RowsSettleOnce

=============================================================================
