------------------------------- MODULE Access -------------------------------
(***************************************************************************)
(* The two ways into the system side by side, on one clock: webhooks at    *)
(* the digital channels gateway, and clients at the API gateway.           *)
(***************************************************************************)
EXTENDS ServiceTokens, Gateway

vars == <<tokensVars, serviceVars, gatewayVars>>

\* What is signed, and that no token is not one.
Claims == {Service(t) : t \in Tenants} \cup Clients
Token == [key : Nat, claims : Claims, exp : Nat, login : Nat]
ASSUME NoTokenAssumption == NoToken \notin Token

Steps ==
    {"new", "replied", "lock", "check", "issue", "issued", "refused", "enqueue",
     "middleware", "handler", "verify", "dial", "accept", "track", "pump", "untrack"}

TypeOK ==
    /\ now \in 0 .. MaxTime[mix] /\ faults \in 0 .. MaxFaults[mix]
    /\ \A r \in Requests :
          /\ req[r].step \in Steps
          /\ req[r].legs \cup req[r].loops \subseteq {"client", "upstream"}
          /\ req[r].since <= now
          \* Who has a source's mutex is who works with it.
          /\ req[r].step \in {"check", "issue", "issued", "refused"} =>
                source[req[r].who].holder = r
          \* Handler.conns is what pump serves.
          /\ r \in tracked <=> req[r].step \in {"pump", "untrack"}
    /\ \A t \in Tenants :
          source[t].holder # NoRequest =>
              /\ req[source[t].holder].who = t
              /\ req[source[t].holder].step \in {"check", "issue", "issued", "refused"}
    /\ closing \subseteq Requests

Init == TokensInit /\ ServiceInit /\ GatewayInit

Tick ==
    /\ now < MaxTime[mix]
    /\ now' = now + 1
    /\ UNCHANGED <<mix, req, faults, serviceVars, gatewayVars>>

\* One side's step leaves the other side's state alone.
Hook(r) == ServeWebhook(r) /\ UNCHANGED gatewayVars
Http(r) == ServeHTTP(r) /\ UNCHANGED serviceVars
Loop(r) ==
    /\ \E leg \in {"client", "upstream"} : ReadFails(r, leg)
    /\ UNCHANGED serviceVars
Work(r) == Hook(r) \/ Http(r) \/ Loop(r)

Next ==
    \/ Tick
    \/ \E r \in Requests, t \in Tenants, complete \in BOOLEAN :
          Webhook(r, t, complete) /\ UNCHANGED gatewayVars
    \/ DigitalStops /\ UNCHANGED gatewayVars
    \/ \E r \in Requests : Work(r)
    \/ /\ \/ \E r \in Requests, c \in Clients :
                \/ TicketRequest(r, c) \/ WebSocket(r, c)
                \/ \E route \in Routes : Rest(r, c, route)
          \/ \E r \in Requests, leg \in {"client", "upstream"} :
                LegLost(r, leg) \/ WriteFails(r, leg)
          \/ Processes
       /\ UNCHANGED serviceVars

Spec == Init /\ [][Next]_vars

\* A request's goroutines go on while one of them can.
FairSpec == Spec /\ \A r \in Requests : WF_vars(Work(r))

---------------------------------------------------------------------------
\* Every request is answered, however the refresh of a token fails while
\* others wait for it; a WebSocket's handler goes on while both legs do.
EveryRequestReplies ==
    \A r \in Requests :
        req[r].step \notin {"new", "pump"} ~> req[r].step \in {"replied", "pump"}
=============================================================================
