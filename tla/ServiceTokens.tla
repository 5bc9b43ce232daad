---------------------------- MODULE ServiceTokens ----------------------------
(***************************************************************************)
(* The digital channels gateway: a webhook becomes a task of the tenant in *)
(* its path, by a call to the task router as a service.  The token for     *)
(* such calls is fetched from tenant identity and cached, one source for   *)
(* each tenant, until it is about to expire.                               *)
(***************************************************************************)
EXTENDS Tokens

CONSTANTS
    Tenants,        \* what a webhook's path may say
    Known,          \* the tenants that exist
    RefreshBefore,  \* how long before its expiry a token is given up
    NoRequest

ASSUME ServiceTokensConstants ==
    /\ Known \subseteq Tenants
    /\ NoRequest \notin Requests
    /\ RefreshBefore \in Nat /\ Skew < RefreshBefore /\ RefreshBefore < SessionTTL

VARIABLES
    source,   \* each tenant's TokenSource: its mutex and its token
    tasks     \* the tasks that webhooks have made: [request, tenant]

serviceVars == <<source, tasks>>

---------------------------------------------------------------------------
NewTokenSource == [holder |-> NoRequest, token |-> NoToken]
Service(t) == [tenant |-> t, sub |-> "service"]
Source(r) == source[req[r].who]
Unlock(r) == source' = [source EXCEPT ![req[r].who].holder = NoRequest]

ServiceInit ==
    /\ source = [t \in Tenants |-> NewTokenSource]
    /\ tasks = {}

---------------------------------------------------------------------------
\* ServeHTTP: a message that does not decode or lacks a field is refused.
Webhook(r, t, complete) ==
    /\ Arrive(r, "webhook", IF complete THEN "lock" ELSE "replied", t, "", NoToken)
    /\ UNCHANGED <<mix, now, faults, serviceVars>>

\* Token takes the mutex of the tenant's source.  tokenSourceFor has looked
\* it up, or made it, under the client's own mutex and without a call to
\* anyone, so that a tenant never has two: a source not made yet is here one
\* that nobody holds and that has no token.  Then Token ...
Lock(r) ==
    /\ At(r, "webhook", "lock") /\ Source(r).holder = NoRequest
    /\ source' = [source EXCEPT ![req[r].who].holder = r]
    /\ Goto(r, "check")
    /\ UNCHANGED <<mix, now, faults, tasks>>

\* Variants named Bug... are faults the properties must detect.
BugReusable(token) == token # NoToken /\ now < token.exp

\* ... reuses the cached token, unless it is about to expire, ...
Reusable(token) == token # NoToken /\ now + RefreshBefore < token.exp
Check(r) ==
    /\ At(r, "webhook", "check")
    /\ IF Reusable(Source(r).token)
       THEN /\ Unlock(r)
            /\ req' = [req EXCEPT ![r].step = "enqueue", ![r].since = now,
                                  ![r].token = Source(r).token]
       ELSE Goto(r, "issue") /\ UNCHANGED source
    /\ UNCHANGED <<mix, now, faults, tasks>>

BugIssueServiceToken(r) ==
    /\ At(r, "webhook", "issue")
    /\ req' = [req EXCEPT ![r].step = "issued", ![r].since = now,
                          ![r].token = IssueToken(Service("t1"))]
    /\ UNCHANGED <<mix, now, faults, serviceVars>>

\* ... or calls IssueServiceToken, which refuses a tenant it does not know,
\* while the other callers wait for the mutex.
IssueServiceToken(r) ==
    /\ At(r, "webhook", "issue")
    /\ IF req[r].who \in Known
       THEN req' = [req EXCEPT ![r].step = "issued", ![r].since = now,
                               ![r].token = IssueToken(Service(req[r].who))]
       ELSE Goto(r, "refused")
    /\ UNCHANGED <<mix, now, faults, serviceVars>>

\* The answer arrives: the token is cached.
Refresh(r) ==
    /\ At(r, "webhook", "issued")
    /\ source' = [source EXCEPT ![req[r].who] =
                    [holder |-> NoRequest, token |-> req[r].token]]
    /\ Goto(r, "enqueue")
    /\ UNCHANGED <<mix, now, faults, tasks>>

\* mapEnqueueError: what the caller can mend is 400, all else 502.
MapEnqueueError(code) == IF code = "InvalidArgument" THEN 400 ELSE 502

BugRefreshFails(r) ==
    /\ At(r, "webhook", "refused")
    /\ Reply(r, MapEnqueueError("Unauthenticated"))
    /\ UNCHANGED <<mix, now, faults, source, tasks>>

\* The call fails, or is answered with an error: the old token stays.
RefreshFails(r) ==
    /\ \/ At(r, "webhook", "refused") /\ UNCHANGED faults
       \/ At(r, "webhook", "issue") /\ Fault
       \/ At(r, "webhook", "issued") /\ Fault
    /\ Unlock(r)
    /\ Reply(r, MapEnqueueError("Unauthenticated"))
    /\ UNCHANGED <<mix, now, tasks>>

\* EnqueueTask: the task router verifies the token and takes the tenant
\* from it.  It may not have the queue; its answer may be lost.
EnqueueTask(r) ==
    /\ At(r, "webhook", "enqueue")
    /\ LET task == [request |-> r, tenant |-> req[r].token.claims.tenant] IN
       \/ /\ MayVerify(req[r].token, SessionKey)
          /\ tasks' = tasks \cup {task}
          /\ \/ ReplyTo(r, 201, "OK") /\ UNCHANGED faults
             \/ Fault /\ ReplyTo(r, MapEnqueueError("Unavailable"), "Unavailable")
       \/ /\ MayVerify(req[r].token, SessionKey)
          /\ ReplyTo(r, MapEnqueueError("InvalidArgument"), "InvalidArgument")
          /\ UNCHANGED <<tasks, faults>>
       \/ /\ MayRefuse(req[r].token, SessionKey)
          /\ ReplyTo(r, MapEnqueueError("Unauthenticated"), "Unauthenticated")
          /\ UNCHANGED <<tasks, faults>>
    /\ UNCHANGED <<mix, now, source>>

\* The gateway dies, or has been told to stop and does not wait longer: the
\* sources, their tokens and the webhooks it was serving go with it.
DigitalStops ==
    /\ Fault
    /\ source' = [t \in Tenants |-> NewTokenSource]
    /\ req' = [r \in Requests |->
                 IF req[r].kind = "webhook" THEN [req[r] EXCEPT !.step = "replied"]
                 ELSE req[r]]
    /\ UNCHANGED <<mix, now, tasks>>

ServeWebhook(r) ==
    Lock(r) \/ Check(r) \/ IssueServiceToken(r) \/ Refresh(r) \/ RefreshFails(r)
        \/ EnqueueTask(r)

---------------------------------------------------------------------------
(***************************************************************************)
(* Properties.                                                             *)
(***************************************************************************)

\* The task router finds a token expired only if the call took longer than
\* the margin for it: a token is not handed out on its last legs, neither
\* to the caller that waited for another's refresh nor after a failed one.
RejectedOnlyIfSlow ==
    \A r \in Requests :
        At(r, "webhook", "replied") /\ req[r].status = "Unauthenticated" =>
            now + Skew > req[r].since + RefreshBefore

\* A webhook's task is the task of the tenant in its path, whichever other
\* tenants' tokens are cached, and a 201 says that there is one.
TasksAreOwn ==
    /\ \A k \in tasks : req[k.request].who = k.tenant /\ k.tenant \in Known
    /\ \A r \in Requests :
          req[r].kind = "webhook" /\ req[r].reply = 201 =>
              [request |-> r, tenant |-> req[r].who] \in tasks
=============================================================================
