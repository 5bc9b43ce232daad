------------------------------- MODULE Gateway -------------------------------
(***************************************************************************)
(* The API gateway: it verifies session tokens, passes REST requests on to *)
(* services that verify them again, turns a session into a WebSocket       *)
(* ticket, and carries WebSocket connections to agent presence.            *)
(*                                                                         *)
(* The key for tickets is made anew at each start; the operator copies it  *)
(* to agent presence, which reads it when it starts.                       *)
(***************************************************************************)
EXTENDS Tokens, Sequences

CONSTANTS
    Clients,    \* users: [tenant, sub]
    Routes,     \* the requests a client may make, with their method and path
    TicketTTL   \* API_GATEWAY_WS_TICKET_TTL_SECONDS

ASSUME GatewayConstants == TicketTTL \in Nat

VARIABLES
    gateway,    \* its phase and the number of its ticket key
    presence,   \* is it up, and which ticket key did it read, 0 for none
    ticketMap,  \* the ticket key the operator has distributed, 0 for none
    wallet,     \* the session and the ticket each client has
    tracked,    \* Handler.conns: the proxied connections
    closing     \* those that Shutdown has still to close

gatewayVars == <<gateway, presence, ticketMap, wallet, tracked, closing>>

---------------------------------------------------------------------------
(***************************************************************************)
(* Who needs a token.  A path is the sequence of its segments.             *)
(***************************************************************************)
UnderTenants(path) == Len(path) > 2 /\ SubSeq(path, 1, 2) = <<"v1", "tenants">>

\* Variants named Bug... are faults the properties must detect.
BugIsExempt(method, path) ==
    method = "GET" \/ (method = "POST" /\ path = <<"v1", "auth", "login">>)

\* IsExempt, of the gateway.
IsExempt(method, path) ==
    \/ method = "POST" /\ path = <<"v1", "tenants">>
    \/ method = "GET" /\ (path = <<"v1", "tenants">> \/ UnderTenants(path))
    \/ method = "POST" /\ path = <<"v1", "auth", "login">>
    \/ method = "POST" /\ path[Len(path)] = "users" /\ UnderTenants(path)
    \/ method = "GET" /\ path = <<"ws">>

\* The RPC the generated handlers call for a route.
RPC(method, path) ==
    CASE path = <<"v1", "tenants">> ->
            IF method = "POST" THEN "CreateTenant" ELSE "ListTenants"
      [] UnderTenants(path) /\ Len(path) = 3 -> "GetTenant"
      [] UnderTenants(path) /\ Len(path) = 4 -> "CreateUser"
      [] path = <<"v1", "auth", "login">> -> "Login"
      [] path = <<"v1", "users">> -> "ListUsers"
      [] path[2] = "users" -> "GetUser"
      [] OTHER -> "TaskRouter"

\* The routes there are: tenant identity's, and the task router's, of which
\* only the first names matter here.
Served(method, path) ==
    \/ method \in {"GET", "POST"} /\ path = <<"v1", "tenants">>
    \/ method = "GET" /\ UnderTenants(path) /\ Len(path) = 3
    \/ method = "POST" /\ UnderTenants(path) /\ Len(path) = 4 /\ path[4] = "users"
    \/ method = "POST" /\ path = <<"v1", "auth", "login">>
    \/ /\ Len(path) > 1 /\ path[1] = "v1"
       /\ \/ method = "GET" /\ path[2] = "users" /\ Len(path) < 4
          \/ path[2] \in {"agents", "tasks", "reservations", "dashboard", "admin"}

ASSUME RoutesAssumption ==
    \A route \in Routes :
        route.path \in Seq(STRING) /\ Served(route.method, route.path)

\* The services' own list: tenant identity has one, the others have not.
TenantctxExemptMethods ==
    {"CreateTenant", "GetTenant", "ListTenants", "CreateUser", "Login",
     "IssueServiceToken"}

---------------------------------------------------------------------------
GatewayInit ==
    /\ gateway = [phase |-> "up", key |-> 1]
    /\ ticketMap = 1
    /\ presence \in [up : {TRUE}, key : {0, 1}]
    /\ wallet = [c \in Clients |-> [session |-> IssueToken(c), ticket |-> NoToken]]
    /\ tracked = {} /\ closing = {}

Listening == gateway.phase \in {"up", "draining"}
Other(leg) == IF leg = "client" THEN "upstream" ELSE "client"

\* A request with a session token, or with none.
Rest(r, c, route) ==
    /\ Listening
    /\ \E token \in {wallet[c].session, NoToken} :
          Arrive(r, "rest", "middleware", c, route, token)
    /\ UNCHANGED <<mix, now, faults, gatewayVars>>
TicketRequest(r, c) ==
    /\ Listening
    /\ Arrive(r, "ticket", "middleware", c,
              [method |-> "POST", path |-> <<"v1", "ws-ticket">>], wallet[c].session)
    /\ UNCHANGED <<mix, now, faults, gatewayVars>>

\* GET /ws, which the middleware lets pass, with a ticket or with none.
\* Nothing makes a ticket single-use.
WebSocket(r, c) ==
    /\ Listening
    /\ IsExempt("GET", <<"ws">>)
    /\ \E ticket \in {wallet[c].ticket, NoToken} :
          Arrive(r, "ws", "verify", c, "", ticket)
    /\ UNCHANGED <<mix, now, faults, gatewayVars>>

\* Middleware.
Middleware(r) ==
    /\ req[r].step = "middleware"
    /\ LET exempt == IsExempt(req[r].route.method, req[r].route.path) IN
       \/ /\ exempt \/ MayVerify(req[r].token, SessionKey)
          /\ Goto(r, "handler")
       \/ ~exempt /\ MayRefuse(req[r].token, SessionKey) /\ Reply(r, 401)
    /\ UNCHANGED <<mix, now, faults, gatewayVars>>

\* The service behind the route: its interceptor, and its handler, of which
\* only Login matters here, which may not know the password.
Backend(r) ==
    LET rpc == RPC(req[r].route.method, req[r].route.path)
        exempt == rpc \in TenantctxExemptMethods IN
    /\ At(r, "rest", "handler")
    /\ \/ /\ exempt \/ MayVerify(req[r].token, SessionKey)
          /\ ReplyTo(r, 200, "OK")
          /\ wallet' = IF rpc = "Login"
                       THEN [wallet EXCEPT ![req[r].who].session = IssueToken(req[r].who)]
                       ELSE wallet
       \/ /\ ~exempt /\ MayRefuse(req[r].token, SessionKey)
          /\ ReplyTo(r, 401, "Unauthenticated")
          /\ UNCHANGED wallet
       \/ rpc = "Login" /\ Reply(r, 401) /\ UNCHANGED wallet
    /\ UNCHANGED <<mix, now, faults, gateway, presence, ticketMap, tracked, closing>>

BugMint(session) == Issue(gateway.key, session.claims, SessionTTL, session.login)

\* wsTicketHandler: verify again, for the claims, and mint.
Mint(session) == Issue(gateway.key, session.claims, TicketTTL, session.login)
WsTicket(r) ==
    /\ At(r, "ticket", "handler")
    /\ \/ /\ MayVerify(req[r].token, SessionKey)
          /\ wallet' = [wallet EXCEPT ![req[r].who].ticket = Mint(req[r].token)]
          /\ Reply(r, 200)
       \/ MayRefuse(req[r].token, SessionKey) /\ Reply(r, 401) /\ UNCHANGED wallet
    /\ UNCHANGED <<mix, now, faults, gateway, presence, ticketMap, tracked, closing>>

---------------------------------------------------------------------------
(***************************************************************************)
(* wsproxy.                                                                *)
(***************************************************************************)

\* The gateway's own check, that there is a ticket and that it is good; it is
\* on the gateway's own clock.
VerifyTicket(r) ==
    /\ At(r, "ws", "verify")
    /\ IF /\ req[r].token # NoToken
          /\ req[r].token.key = gateway.key /\ now < req[r].token.exp
       THEN Goto(r, "dial") ELSE Reply(r, 401)
    /\ UNCHANGED <<mix, now, faults, gatewayVars>>

\* Dial: agent presence verifies the same ticket.
Dial(r) ==
    /\ At(r, "ws", "dial")
    /\ \/ /\ presence.up /\ MayVerify(req[r].token, presence.key)
          /\ req' = [req EXCEPT ![r].step = "accept", ![r].legs = {"upstream"},
                                ![r].since = now]
       \/ /\ ~presence.up \/ MayRefuse(req[r].token, presence.key)
          /\ Reply(r, 502)
    /\ UNCHANGED <<mix, now, faults, gatewayVars>>

\* Accept upgrades the client's side, or cannot: the other leg is closed.
Accept(r) ==
    /\ At(r, "ws", "accept")
    /\ \/ req' = [req EXCEPT ![r].step = "track", ![r].legs = @ \cup {"client"}]
       \/ req' = [req EXCEPT ![r].step = "replied", ![r].legs = {}]
    /\ UNCHANGED <<mix, now, faults, gatewayVars>>

\* track, and pump starts a loop for each side to read from.
Track(r) ==
    /\ At(r, "ws", "track")
    /\ tracked' = tracked \cup {r}
    /\ req' = [req EXCEPT ![r].step = "pump", ![r].loops = {"client", "upstream"}]
    /\ UNCHANGED <<mix, now, faults, gateway, presence, ticketMap, wallet, closing>>

\* The peer of a leg closes it, or the network does.
LegLost(r, leg) ==
    /\ leg \in req[r].legs
    /\ req' = [req EXCEPT ![r].legs = @ \ {leg}]
    /\ UNCHANGED <<mix, now, faults, gatewayVars>>

\* copyLoop: reading from a closed leg fails, and writing to one, if a frame
\* is there to be written.
ReadFails(r, leg) ==
    /\ leg \in req[r].loops \ req[r].legs
    /\ req' = [req EXCEPT ![r].loops = @ \ {leg}]
    /\ UNCHANGED <<mix, now, faults, gatewayVars>>
WriteFails(r, leg) ==
    /\ leg \in req[r].loops \cap req[r].legs /\ Other(leg) \notin req[r].legs
    /\ req' = [req EXCEPT ![r].loops = @ \ {leg}]
    /\ UNCHANGED <<mix, now, faults, gatewayVars>>

BugPump(r) ==
    /\ At(r, "ws", "pump") /\ req[r].loops = {}
    /\ req' = [req EXCEPT ![r].step = "untrack", ![r].legs = {}]
    /\ UNCHANGED <<mix, now, faults, gatewayVars>>

\* The first loop that ends makes pump close both legs, ...
Pump(r) ==
    /\ At(r, "ws", "pump") /\ req[r].loops # {"client", "upstream"}
    /\ req' = [req EXCEPT ![r].step = "untrack", ![r].legs = {}]
    /\ UNCHANGED <<mix, now, faults, gatewayVars>>

\* ... and the handler forget the connection and return.
Untrack(r) ==
    /\ At(r, "ws", "untrack")
    /\ tracked' = tracked \ {r}
    /\ Goto(r, "replied")
    /\ UNCHANGED <<mix, now, faults, gateway, presence, ticketMap, wallet, closing>>

---------------------------------------------------------------------------
(***************************************************************************)
(* The processes.                                                          *)
(***************************************************************************)

\* A signal.  Shutdown copies the connections, then closes them; only then
\* does the HTTP server stop listening.
BeginShutdown ==
    /\ gateway.phase = "up" /\ Fault
    /\ gateway' = [gateway EXCEPT !.phase = "draining"]
    /\ closing' = tracked
    /\ UNCHANGED <<mix, now, req, presence, ticketMap, wallet, tracked>>
CloseNext(r) ==
    /\ r \in closing
    /\ closing' = closing \ {r}
    /\ req' = [req EXCEPT ![r].legs = {}]
    /\ UNCHANGED <<mix, now, faults, gateway, presence, ticketMap, wallet, tracked>>
StopListening ==
    /\ gateway.phase = "draining" /\ closing = {}
    /\ gateway' = [gateway EXCEPT !.phase = "stopping"]
    /\ UNCHANGED <<mix, now, req, faults, presence, ticketMap, wallet, tracked, closing>>

\* main returns, at the latest after 20 seconds, or the process dies.
GatewayDown ==
    /\ gateway' = [gateway EXCEPT !.phase = "down"]
    /\ req' = [r \in Requests |->
                 IF req[r].kind \in {"rest", "ticket", "ws"}
                 THEN [req[r] EXCEPT !.step = "replied", !.legs = {}, !.loops = {}]
                 ELSE req[r]]
    /\ tracked' = {} /\ closing' = {}
    /\ UNCHANGED <<mix, now, presence, ticketMap, wallet>>
GatewayExits == gateway.phase = "stopping" /\ GatewayDown /\ UNCHANGED faults
GatewayCrashes == gateway.phase # "down" /\ Fault /\ GatewayDown

\* NewMinter makes a key, and the banner shows it.
GatewayStarts ==
    /\ gateway.phase = "down"
    /\ gateway' = [phase |-> "up", key |-> gateway.key + 1]
    /\ UNCHANGED <<mix, now, req, faults, presence, ticketMap, wallet, tracked, closing>>
DistributeTicketKey ==
    /\ gateway.phase # "down" /\ ticketMap # gateway.key
    /\ ticketMap' = gateway.key
    /\ UNCHANGED <<mix, now, req, faults, gateway, presence, wallet, tracked, closing>>

\* Agent presence stops, with its side of every connection, and starts.
PresenceStops ==
    /\ presence.up /\ Fault
    /\ presence' = [presence EXCEPT !.up = FALSE]
    /\ req' = [r \in Requests |-> [req[r] EXCEPT !.legs = @ \ {"upstream"}]]
    /\ UNCHANGED <<mix, now, gateway, ticketMap, wallet, tracked, closing>>
PresenceStarts ==
    /\ ~presence.up
    /\ presence' = [up |-> TRUE, key |-> ticketMap]
    /\ UNCHANGED <<mix, now, req, faults, gateway, ticketMap, wallet, tracked, closing>>

ServeHTTP(r) ==
    \/ Middleware(r) \/ Backend(r) \/ WsTicket(r)
    \/ VerifyTicket(r) \/ Dial(r) \/ Accept(r) \/ Track(r) \/ Pump(r) \/ Untrack(r)

Processes ==
    \/ BeginShutdown \/ StopListening \/ GatewayExits \/ GatewayCrashes
    \/ GatewayStarts \/ DistributeTicketKey \/ PresenceStops \/ PresenceStarts
    \/ \E r \in Requests : CloseNext(r)

---------------------------------------------------------------------------
(***************************************************************************)
(* Properties.                                                             *)
(***************************************************************************)

\* A WebSocket is opened only while the login it goes back to is less than a
\* session and a ticket old, give or take the clocks of the two that verify
\* them, although neither leg sees the session token and the gateway keeps
\* no sessions (Mint, Dial).  Each lifetime ends before its last tick.
OpenedWithinLifetime ==
    \A r \in Requests :
        req[r].kind = "ws" /\ req[r].legs # {} =>
            req[r].since + 1 <
                req[r].token.login + (SessionTTL + Skew) + (TicketTTL + Skew)

\* The gateway and the services agree on who needs a token: what reaches a
\* service and is refused there carries a token that has run out on the
\* way, and what is served without one is a call of the exempt list.
LayersAgree ==
    \A r \in Requests :
        At(r, "rest", "replied") =>
            /\ req[r].status = "Unauthenticated" =>
                  req[r].token # NoToken /\ req[r].token.exp <= now + Skew
            /\ req[r].status = "OK" /\ req[r].token = NoToken =>
                  RPC(req[r].route.method, req[r].route.path) \in TenantctxExemptMethods

\* When one side of a proxied connection is gone the other one is closed,
\* both loops end and the handler returns (pump, copyLoop).
BothLegsEnd ==
    \A r \in Requests :
        At(r, "ws", "pump") /\ req[r].legs # {"client", "upstream"} ~>
            /\ req[r].step = "replied" /\ req[r].legs = {} /\ req[r].loops = {}
            /\ r \notin tracked
=============================================================================
