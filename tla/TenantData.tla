----------------------------- MODULE TenantData -----------------------------
(***************************************************************************)
(* Concurrent RPCs on the tenants' rows in Postgres, through pgtenant's    *)
(* pool of connections, as the role that row-level security applies to.    *)
(*                                                                         *)
(* Transactions run READ COMMITTED.  A statement sees the committed rows   *)
(* and its own; one that must write what another open transaction has      *)
(* written waits for that one to end; a DELETE that waited takes the rows  *)
(* it saw when it began, without those deleted meanwhile and without those *)
(* that were added.  Postgres ends one of the transactions that wait for   *)
(* each other.                                                             *)
(***************************************************************************)
EXTENDS Registries, FiniteSets

CONSTANTS
    Handlers,     \* goroutines that serve RPCs
    Conns,        \* the pool's connections
    Workloads,    \* mixes of traffic
    Requests,     \* the calls that may come in, for each mix
    InitialRows,  \* rows from before
    Unset,        \* app.current_tenant is not set
    MaxCalls,     \* bound, for each workload: calls in a behaviour
    MaxFaults     \* bound, for each: failing statements, cancelled calls, crashes

ASSUME TenantDataConstants ==
    /\ MaxCalls \in [Workloads -> Nat] /\ MaxFaults \in [Workloads -> Nat]
    /\ DOMAIN Requests = Workloads
    /\ \A w \in Workloads : \A r \in Requests[w] :
          r.tenant # Unset /\ WellFormed(r)
    /\ \A r \in InitialRows : IsRow(r)
    /\ \A r1, r2 \in InitialRows :
          r1.table = r2.table /\ r1.tenant = r2.tenant /\ r1.id = r2.id => r1 = r2

VARIABLES
    workload, \* the traffic, which does not change
    rows,     \* the committed rows
    session,  \* app.current_tenant of each connection
    pool,     \* the connections no transaction has
    call,     \* what each handler is doing
    redis,    \* references that calls have written to Redis
    calls,    \* calls so far
    faults    \* faults so far

vars == <<workload, rows, session, pool, call, redis, calls, faults>>

---------------------------------------------------------------------------
Idle == [step |-> "idle"]
Active(h) == call[h].step # "idle"
InTx(h) == call[h].step \in {"set", "exec", "deleting"}
Tx(h) == call[h].req.txs[call[h].tx]
Statement(h) == Tx(h).stmts[call[h].stmt]
Executing(h, do) ==
    /\ call[h].step = "exec" /\ call[h].stmt <= Len(Tx(h).stmts)
    /\ Statement(h).do = do

Key(r) == <<r.table, r.tenant, r.id>>
KeysOf(R) == {Key(r) : r \in R}

\* Variants named Bug... are faults the properties must detect.  A superuser
\* bypasses row-level security.
BugAllowed(h, r) == TRUE

\* What a statement of h sees: committed rows and its own, and of those,
\* where there is a policy, the rows of the tenant that is set.
Snapshot(h) == (rows \ call[h].del) \cup call[h].ins
Allowed(h, r) == Tx(h).scoped => r.tenant = session[call[h].conn]
Visible(h) == {r \in Snapshot(h) : Allowed(h, r)}

\* What h's next statement has to write, and who else has written it.
Wants(h) ==
    IF Executing(h, "insert") THEN {Key(Statement(h).row)}
    ELSE IF call[h].step = "deleting" THEN KeysOf(call[h].targets) ELSE {}
Waits(h, k) ==
    /\ h # k /\ InTx(h) /\ InTx(k)
    /\ Wants(h) \cap KeysOf(call[k].ins \cup call[k].del) # {}
Blocked(h) == \E k \in Handlers : Waits(h, k)

TypeOK ==
    /\ session \in [Conns -> {r.tenant : r \in Requests[workload]} \cup {Unset}]
    /\ \A h \in Handlers :
          Active(h) =>
            /\ call[h].req \in Requests[workload]
            /\ call[h].step \in {"begin", "set", "exec", "deleting", "apply"}
            /\ call[h].tx \in DOMAIN call[h].req.txs
            /\ InTx(h) => call[h].conn \in Conns
            /\ call[h].stmt \in 1 .. Len(Tx(h).stmts) + 1
    /\ pool = Conns \ {call[h].conn : h \in {k \in Handlers : InTx(k)}}
    /\ \A h, k \in Handlers :
          InTx(h) /\ InTx(k) /\ h # k => call[h].conn # call[k].conn
    /\ calls \in 0 .. MaxCalls[workload] /\ faults \in 0 .. MaxFaults[workload]

Init ==
    /\ workload \in Workloads
    /\ rows = InitialRows
    /\ session = [c \in Conns |-> Unset]
    /\ pool = Conns
    /\ call = [h \in Handlers |-> Idle]
    /\ redis = {}
    /\ calls = 0
    /\ faults = 0

---------------------------------------------------------------------------
\* An RPC arrives.  live collects the rows that were there at some time
\* during the call, for the properties.
Receive(h, r) ==
    /\ ~Active(h) /\ calls < MaxCalls[workload]
    /\ calls' = calls + 1
    /\ call' = [call EXCEPT ![h] =
          [req |-> r, tx |-> 1, stmt |-> 1, step |-> "begin", conn |-> Unset,
           ins |-> {}, del |-> {}, targets |-> {}, got |-> {}, live |-> rows,
           alone |-> TRUE]]
    /\ UNCHANGED <<rows, session, pool, redis, faults>>

\* Begin takes a connection that no other transaction has.  alone says that
\* no other transaction of the tenant overlaps, for the properties.
Begin(h) ==
    /\ call[h].step = "begin"
    /\ LET others == {k \in Handlers \ {h} :
                        InTx(k) /\ call[k].req.tenant = call[h].req.tenant}
       IN \E c \in pool :
          /\ pool' = pool \ {c}
          /\ call' = [k \in Handlers |->
               IF k = h
               THEN [call[h] EXCEPT !.conn = c, !.stmt = 1, !.alone = others = {},
                       !.step = IF Tx(h).scoped THEN "set" ELSE "exec"]
               ELSE IF k \in others THEN [call[k] EXCEPT !.alone = FALSE]
               ELSE call[k]]
    /\ UNCHANGED <<rows, session, redis, calls, faults>>

\* set_config('app.current_tenant', tenant, is_local).
SetTenant(h) ==
    /\ call[h].step = "set"
    /\ session' = [session EXCEPT ![call[h].conn] = call[h].req.tenant]
    /\ call' = [call EXCEPT ![h].step = "exec"]
    /\ UNCHANGED <<rows, pool, redis, calls, faults>>

BugEndTx(h) ==
    /\ session' = [session EXCEPT ![call[h].conn] = Unset]
    /\ pool' = pool

\* The end of a transaction: a local setting goes, the connection is free.
EndTx(h) ==
    /\ session' = [session EXCEPT ![call[h].conn] = Unset]
    /\ pool' = pool \cup {call[h].conn}

\* fn returned an error: WithTenant rolls back and the call fails.
Rollback(h) ==
    /\ EndTx(h)
    /\ call' = [call EXCEPT ![h] = Idle]
    /\ UNCHANGED <<rows, redis, calls>>

BugRunInsert(h) ==
    /\ Executing(h, "insert") /\ Allowed(h, Statement(h).row)
    /\ Key(Statement(h).row) \notin KeysOf(Snapshot(h))
    /\ call' = [call EXCEPT ![h].stmt = @ + 1, ![h].ins = @ \cup {Statement(h).row}]
    /\ UNCHANGED <<rows, session, pool, redis, calls, faults>>

\* INSERT: refused by the policy, or by the key, or done.
RunInsert(h) ==
    /\ Executing(h, "insert") /\ ~Blocked(h)
    /\ LET r == Statement(h).row
           taken == Key(r) \in KeysOf(Snapshot(h))
       IN \/ /\ ~Allowed(h, r) \/ (taken /\ Statement(h).onConflict = "fail")
             /\ Rollback(h)
          \/ /\ Allowed(h, r)
             /\ taken => Statement(h).onConflict = "skip"
             /\ call' = [call EXCEPT ![h].stmt = @ + 1,
                           ![h].ins = IF taken THEN @ ELSE @ \cup {r}]
             /\ UNCHANGED <<rows, session, pool, redis, calls>>
    /\ UNCHANGED faults

\* DELETE: find the rows, wait until they can be written, delete them.
FindRows(h) ==
    /\ Executing(h, "delete")
    /\ call' = [call EXCEPT ![h].step = "deleting",
                  ![h].targets = {r \in Visible(h) : Matches(Statement(h), r)}]
    /\ UNCHANGED <<rows, session, pool, redis, calls, faults>>
DeleteRows(h) ==
    /\ call[h].step = "deleting" /\ ~Blocked(h)
    /\ call' = [call EXCEPT ![h].step = "exec", ![h].stmt = @ + 1,
                  ![h].targets = {},
                  ![h].ins = @ \ call[h].targets,
                  ![h].del = @ \cup (call[h].targets \cap rows)]
    /\ UNCHANGED <<rows, session, pool, redis, calls, faults>>

\* SELECT, and the join behind ListQueueDispositions.
Selected(h) ==
    IF Statement(h).do = "select"
    THEN {r \in Visible(h) : Matches(Statement(h), r)}
    ELSE {r \in Visible(h) :
            /\ r.table = "dispositions"
            /\ \E a \in Visible(h) :
                  /\ a.table = "queue_dispositions" /\ a.tenant = r.tenant
                  /\ a.id = <<Statement(h).queue, r.id[1]>>}
RunSelect(h) ==
    /\ Executing(h, "select") \/ Executing(h, "join")
    /\ call' = [call EXCEPT ![h].stmt = @ + 1, ![h].got = @ \cup Selected(h)]
    /\ UNCHANGED <<rows, session, pool, redis, calls, faults>>

\* Whether the call has read what its transaction i should find.  The code
\* compares the names that came back, not the tenant.  (got has what all the
\* call's transactions have read; they read different tables.)
Found(h, i) ==
    \A w \in call[h].req.want[i] : \E g \in call[h].got :
        g.table = w.table /\ g.id = w.id /\ g.val = w.val
Written(h) == call[h].req.apply \cup call[h].req.unchecked

\* Only the first validation is heeded.
BugAfterTx(h) ==
    IF call[h].tx = 1 /\ ~Found(h, 1) THEN Idle
    ELSE IF call[h].tx < Len(call[h].req.txs)
    THEN [call[h] EXCEPT !.step = "begin", !.tx = @ + 1, !.stmt = 1,
            !.ins = {}, !.del = {}, !.conn = Unset]
    ELSE IF Written(h) # {}
    THEN [call[h] EXCEPT !.step = "apply", !.ins = {}, !.del = {}]
    ELSE Idle

\* Commit, and what the handler does next: reject if the transaction did not
\* find what it should, run the next one, write to Redis, or reply.
\* A DELETE that waits no longer finds what this deleted.
AfterTx(h) ==
    IF ~Found(h, call[h].tx) THEN Idle
    ELSE IF call[h].tx < Len(call[h].req.txs)
    THEN [call[h] EXCEPT !.step = "begin", !.tx = @ + 1, !.stmt = 1,
            !.ins = {}, !.del = {}, !.conn = Unset]
    ELSE IF Written(h) # {}
    THEN [call[h] EXCEPT !.step = "apply", !.ins = {}, !.del = {}]
    ELSE Idle
Commit(h) ==
    /\ call[h].step = "exec" /\ call[h].stmt > Len(Tx(h).stmts)
    /\ EndTx(h)
    /\ rows' = Snapshot(h)
    /\ call' = [k \in Handlers |->
          IF k = h THEN AfterTx(h)
          ELSE IF Active(k)
          THEN [call[k] EXCEPT !.live = @ \cup rows', !.targets = @ \ call[h].del]
          ELSE Idle]
    /\ UNCHANGED <<redis, calls, faults>>

\* The hot-path write that the validations were for.
WriteRedis(h) ==
    /\ call[h].step = "apply"
    /\ redis' = redis \cup Written(h)
    /\ call' = [call EXCEPT ![h] = Idle]
    /\ UNCHANGED <<rows, session, pool, calls, faults>>

\* Postgres ends a transaction of a circle of waiting ones.
DeadlockDetected(h) ==
    /\ \E S \in SUBSET Handlers :
          h \in S /\ \A x \in S : \E y \in S : Waits(x, y)
    /\ Rollback(h)
    /\ UNCHANGED faults

\* A statement fails or the caller gives up, and fn returns an error; or no
\* transaction can be begun, or the hot-path write fails.
Fail(h) ==
    /\ faults < MaxFaults[workload]
    /\ faults' = faults + 1
    /\ \/ InTx(h) /\ Rollback(h)
       \/ /\ call[h].step \in {"begin", "apply"}
          /\ call' = [call EXCEPT ![h] = Idle]
          /\ UNCHANGED <<rows, session, pool, redis, calls>>

\* The process dies; Postgres rolls back what its connections had open.
Crash ==
    /\ faults < MaxFaults[workload]
    /\ faults' = faults + 1
    /\ call' = [h \in Handlers |-> Idle]
    /\ session' = [c \in Conns |-> Unset]
    /\ pool' = Conns
    /\ UNCHANGED <<rows, redis, calls>>

Work(h) ==
    \/ Begin(h) \/ SetTenant(h)
    \/ RunInsert(h) \/ FindRows(h) \/ DeleteRows(h) \/ RunSelect(h)
    \/ Commit(h) \/ WriteRedis(h) \/ DeadlockDetected(h)

Next ==
    /\ \/ Crash
       \/ \E h \in Handlers :
             Work(h) \/ Fail(h) \/ (\E r \in Requests[workload] : Receive(h, r))
    /\ UNCHANGED workload

Spec == Init /\ [][Next]_vars

\* A call that can go on does, and Postgres looks for circles.
FairSpec == Spec /\ \A h \in Handlers : WF_vars(Work(h) /\ UNCHANGED workload)

---------------------------------------------------------------------------
(***************************************************************************)
(* Properties.                                                             *)
(***************************************************************************)

\* Rows appear and disappear only in a call made for their own tenant,
\* although DELETE WHERE queue_id = $1 names no tenant and connections are
\* shared (WithTenant and the policies).
TenantIsolation ==
    [][\A r \in (rows' \ rows) \cup (rows \ rows') :
          \E h \in Handlers :
              /\ InTx(h) /\ ~(InTx(h))'
              /\ call[h].req.tenant = r.tenant]_rows

\* A call sees and writes rows of its own tenant only; the registry of
\* tenants itself is for everyone.
OwnRowsOnly ==
    \A h \in Handlers :
        Active(h) =>
            \A r \in call[h].got \cup call[h].ins \cup call[h].del :
                r.table = "tenants" \/ r.tenant = call[h].req.tenant

\* Of concurrent registrations of one key, of an attribute with two types
\* say, one wins: no other open or committed row has it.
OneWinner ==
    /\ \A r1, r2 \in rows : Key(r1) = Key(r2) => r1 = r2
    /\ \A h \in Handlers :
          InTx(h) =>
            /\ KeysOf(call[h].ins) \cap KeysOf(rows \ call[h].del) = {}
            /\ \A k \in Handlers \ {h} :
                  InTx(k) => KeysOf(call[h].ins) \cap KeysOf(call[k].ins) = {}

\* What a call has validated and is about to write to Redis, each of the
\* queues, attributes, statuses and dispositions of EnqueueTask,
\* ReplaceAgentQueues, SetAgentStatus and the like, was registered, for its
\* tenant and with its type, at some time during the call, whichever of its
\* transactions looked for it.  It need not be any more.  The queues and the
\* status of CreateAgent, which validates attributes only, are no part of it.
AppliedWasRegistered ==
    \A h \in Handlers :
        call[h].step = "apply" => call[h].req.apply \subseteq call[h].live

\* AssociateQueueDispositions leaves the queue with exactly the given list,
\* whatever it had, unless another transaction of the tenant overlapped it.
Associations(R, t, q) ==
    {r \in R : r.table = "queue_dispositions" /\ r.tenant = t /\ r.id[1] = q}
ReplacedUnlessConcurrent ==
    [][\A h \in Handlers :
         InTx(h) /\ call[h].alone /\ rows' = Snapshot(h) =>
            \A r \in call[h].ins :
               r.table = "queue_dispositions" =>
                  Associations(rows', r.tenant, r.id[1]) =
                  Associations(call[h].ins, r.tenant, r.id[1])]_rows

\* Every call ends: no error path keeps a connection of the pool, and calls
\* that wait for each other are told so.
EveryCallReplies == \A h \in Handlers : Active(h) ~> ~Active(h)
=============================================================================
