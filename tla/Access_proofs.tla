---------------------------- MODULE Access_proofs ----------------------------
(***************************************************************************)
(* Proofs about what lets requests in: the tokens, for any lifetimes, any  *)
(* difference of the clocks and any number of requests, and the two lists  *)
(* of calls that need none.                                                *)
(***************************************************************************)
EXTENDS Access, SequenceTheorems, TLAPS

---------------------------------------------------------------------------
\* The lists.

\* The first two segments of a path under /v1/tenants/.
LEMMA TenantsPath ==
    ASSUME NEW path \in Seq(STRING), UnderTenants(path)
    PROVE  Len(path) > 2 /\ path[1] = "v1" /\ path[2] = "tenants"
<1>1. Len(path) > 2 /\ SubSeq(path, 1, 2) = <<"v1", "tenants">>
  BY DEF UnderTenants
<1>2. PICK s : s = SubSeq(path, 1, 2)
  OBVIOUS
<1>3. s[1] = path[1] /\ s[2] = path[2]
  <2>1. \A i \in 1 .. 2 : path[i] \in STRING
    BY <1>1
  <2>2. 1 \in Int /\ 2 \in Int
    OBVIOUS
  <2>3. \A i \in 1 .. 2 - 1 + 1 : SubSeq(path, 1, 2)[i] = path[1 + i - 1]
    BY <2>1, <2>2, SubSeqProperties
  <2>4. \A i \in 1 .. 2 - 1 + 1 : s[i] = path[1 + i - 1]
    BY <1>2, <2>3
  <2> QED
    BY <2>4
<1>4. s = <<"v1", "tenants">>
  BY <1>1, <1>2
<1>5. s[1] = "v1" /\ s[2] = "tenants"
  BY <1>4
<1> QED
  BY <1>1, <1>3, <1>5

\* The gateway lets a call pass without a token exactly when the service
\* behind the route does (IsExempt, tenantctxExemptMethods).
THEOREM ExemptListsAgree ==
    ASSUME NEW method, NEW path \in Seq(STRING), Served(method, path)
    PROVE  IsExempt(method, path) <=> RPC(method, path) \in TenantctxExemptMethods
<1>1. UnderTenants(path) => Len(path) > 2 /\ path[1] = "v1" /\ path[2] = "tenants"
  BY TenantsPath
<1>2. CASE method \in {"GET", "POST"} /\ path = <<"v1", "tenants">>
  BY <1>2 DEF IsExempt, RPC, TenantctxExemptMethods
<1>3. CASE method = "GET" /\ UnderTenants(path) /\ Len(path) = 3
  <2>1. path # <<"v1", "tenants">>
    BY <1>3
  <2>2. RPC(method, path) = "GetTenant"
    BY <1>1, <1>3, <2>1 DEF RPC
  <2>3. IsExempt(method, path)
    BY <1>3 DEF IsExempt
  <2> QED
    BY <2>2, <2>3 DEF TenantctxExemptMethods
<1>4. CASE method = "POST" /\ UnderTenants(path) /\ Len(path) = 4 /\ path[4] = "users"
  <2>1. path # <<"v1", "tenants">> /\ path # <<"v1", "auth", "login">>
    <3>1. PICK s : s = <<"v1", "tenants">>
      OBVIOUS
    <3>2. PICK l : l = <<"v1", "auth", "login">>
      OBVIOUS
    <3>3. Len(s) = 2 /\ Len(l) = 3
      BY <3>1, <3>2
    <3>4. path # s /\ path # l
      BY <1>4, <3>3
    <3> QED
      BY <3>1, <3>2, <3>4
  <2>2. RPC(method, path) = "CreateUser"
    BY <1>1, <1>4, <2>1 DEF RPC
  <2> QED
    BY <1>4, <2>2 DEF IsExempt, TenantctxExemptMethods
<1>5. CASE method = "POST" /\ path = <<"v1", "auth", "login">>
  <2>1. ~UnderTenants(path) /\ path # <<"v1", "tenants">> /\ path[2] # "users"
        /\ path # <<"v1", "users">>
    BY <1>1, <1>5
  <2>2. RPC(method, path) = "Login"
    BY <1>5, <2>1 DEF RPC
  <2> QED
    BY <1>5, <2>2 DEF IsExempt, TenantctxExemptMethods
<1>6. CASE /\ Len(path) > 1 /\ path[1] = "v1"
           /\ \/ method = "GET" /\ path[2] = "users" /\ Len(path) < 4
              \/ path[2] \in {"agents", "tasks", "reservations", "dashboard", "admin"}
  <2>1. /\ ~UnderTenants(path) /\ path # <<"v1", "tenants">>
        /\ path # <<"v1", "auth", "login">> /\ path # <<"ws">>
    BY <1>1, <1>6
  <2>2. ~IsExempt(method, path)
    BY <2>1 DEF IsExempt
  <2>3. RPC(method, path) \in {"ListUsers", "GetUser", "TaskRouter"}
    BY <1>6, <2>1 DEF RPC
  <2> QED
    BY <2>2, <2>3 DEF TenantctxExemptMethods
<1> QED
  BY <1>2, <1>3, <1>4, <1>5, <1>6 DEF Served

---------------------------------------------------------------------------
\* The invariant.

Kinds == {"none", "webhook", "rest", "ticket", "ws"}
Legs == {"client", "upstream"}
\* For a request that has no name, route or status.
Blank == ""
Statuses == {Blank, "OK", "Unavailable", "InvalidArgument", "Unauthenticated"}
TicketRoute == [method |-> "POST", path |-> <<"v1", "ws-ticket">>]
Holding == {"check", "issue", "issued", "refused"}
Pumping == {"pump", "untrack"}

RequestState ==
    [kind : Kinds, step : Steps, who : Tenants \cup Clients \cup {Blank},
     route : Routes \cup {TicketRoute, Blank}, token : Token \cup {NoToken},
     since : Nat, legs : SUBSET Legs, loops : SUBSET Legs, reply : Nat,
     status : Statuses]

\* The tokens in use.  A ticket is minted for a session that had not run out,
\* on a clock that may be Skew behind.
Session(k) == k \in Token /\ k.key = SessionKey /\ k.exp = k.login + SessionTTL
OfService(k, t) ==
    k \in Token /\ k.key = SessionKey /\ k.claims = Service(t) /\ t \in Known
Ticket(k) == k \in Token /\ k.exp < k.login + (SessionTTL + Skew) + TicketTTL

\* Which handler a request is with.
Placed(x) ==
    /\ x.step \in Holding \cup {"lock", "enqueue"} => x.kind = "webhook"
    /\ x.step \in {"middleware", "handler"} => x.kind \in {"rest", "ticket"}
    /\ x.step \in Pumping \cup {"verify", "dial", "accept", "track"} => x.kind = "ws"
    /\ x.step # "replied" => x.reply = 0 /\ x.status = Blank
    /\ x.kind = "webhook" => x.who \in Tenants
    /\ x.kind \in {"rest", "ticket"} => x.who \in Clients
    /\ x.kind = "rest" => x.route \in Routes

\* What a webhook that has its token, or its answer, knows at time n.
HookSound(x, n) ==
    x.kind = "webhook" =>
        /\ x.step \in {"issued", "enqueue"} =>
              /\ OfService(x.token, x.who)
              /\ x.since + RefreshBefore < x.token.exp
        /\ x.status = "Unauthenticated" => x.since + RefreshBefore < n + Skew

\* What a client's request carries and was told.
HttpSound(x, n) ==
    /\ x.kind \in {"rest", "ticket"} /\ x.token # NoToken => Session(x.token)
    /\ x.kind = "rest" =>
        /\ x.step = "handler" =>
              IsExempt(x.route.method, x.route.path) \/ x.token # NoToken
        /\ x.status = "Unauthenticated" =>
              x.token # NoToken /\ x.token.exp <= n + Skew
        /\ x.status = "OK" /\ x.token = NoToken =>
              RPC(x.route.method, x.route.path) \in TenantctxExemptMethods

\* When a WebSocket was opened.
SocketSound(x) ==
    x.kind = "ws" =>
        /\ x.token # NoToken => Ticket(x.token)
        /\ x.legs # {} \/ x.step = "accept" =>
              x.since + 1 < x.token.login + (SessionTTL + Skew) + (TicketTTL + Skew)

Sound(x, n) ==
    /\ x \in RequestState /\ x.since <= n
    /\ Placed(x) /\ HookSound(x, n) /\ HttpSound(x, n) /\ SocketSound(x)

AllSound ==
    /\ DOMAIN req = Requests /\ req = [r \in Requests |-> req[r]]
    /\ \A r \in Requests : Sound(req[r], now)

GatewayState == [phase : {"up", "draining", "stopping", "down"}, key : Nat]

Clock ==
    /\ mix \in Mixes
    /\ now \in 0 .. MaxTime[mix] /\ faults \in 0 .. MaxFaults[mix]
    /\ gateway \in GatewayState

\* What the sources and the wallets hold.
SourcesSound ==
    /\ source \in [Tenants -> [holder : Requests \cup {NoRequest},
                               token : Token \cup {NoToken}]]
    /\ \A t \in Tenants :
          source[t].token # NoToken => OfService(source[t].token, t)
WalletsSound ==
    /\ wallet \in [Clients -> [session : Token, ticket : Token \cup {NoToken}]]
    /\ \A c \in Clients :
          /\ Session(wallet[c].session)
          /\ wallet[c].ticket # NoToken => Ticket(wallet[c].ticket)

\* A task is its webhook's, and a 201 has one.
TasksSound ==
    /\ tasks \subseteq [request : Requests, tenant : Known]
    /\ \A k \in tasks : req[k.request].kind = "webhook" /\ req[k.request].who = k.tenant
    /\ \A r \in Requests :
          req[r].kind = "webhook" /\ req[r].reply = 201 =>
              [request |-> r, tenant |-> req[r].who] \in tasks

\* A source's mutex is with the one request that works with it.
MutexSound ==
    /\ \A r \in Requests :
          req[r].step \in Holding => source[req[r].who].holder = r
    /\ \A t \in Tenants :
          source[t].holder # NoRequest =>
              req[source[t].holder].who = t /\ req[source[t].holder].step \in Holding

\* Handler.conns is what pump serves.
ConnsSound ==
    /\ tracked \subseteq Requests /\ closing \subseteq Requests
    /\ \A r \in Requests : r \in tracked <=> req[r].step \in Pumping

AccessInv ==
    /\ Clock /\ AllSound /\ SourcesSound /\ WalletsSound /\ TasksSound
    /\ MutexSound /\ ConnsSound

---------------------------------------------------------------------------
\* Tokens.

\* The bounds are natural numbers.
LEMMA Numbers ==
    /\ SessionTTL \in Nat /\ Skew \in Nat /\ TicketTTL \in Nat
    /\ RefreshBefore \in Nat /\ RefreshBefore < SessionTTL
BY TokensConstants, ServiceTokensConstants, GatewayConstants

\* What tenant identity issues to a user is a session, to a service a token
\* of its tenant; neither is about to expire.
LEMMA Issued ==
    ASSUME now \in Nat
    PROVE  /\ \A c \in Clients : Session(IssueToken(c))
           /\ \A t \in Known :
                 /\ OfService(IssueToken(Service(t)), t)
                 /\ IssueToken(Service(t)).exp = now + SessionTTL
<1>1. SessionTTL \in Nat /\ now + SessionTTL \in Nat /\ 0 \in Nat
  BY Numbers
<1>2. \A c \in Claims : /\ IssueToken(c) \in Token /\ IssueToken(c).key = 0
                        /\ IssueToken(c).claims = c
                        /\ IssueToken(c).exp = now + SessionTTL
                        /\ IssueToken(c).login = now
  BY <1>1 DEF IssueToken, Issue, SessionKey, Token
<1>3. \A c \in Clients : c \in Claims
  BY DEF Claims
<1>4. \A t \in Known : Service(t) \in Claims
  BY ServiceTokensConstants DEF Claims
<1> QED
  BY <1>2, <1>3, <1>4 DEF Session, OfService, SessionKey

\* A minted ticket lives for the ticket's lifetime from when the session was
\* verified.
LEMMA Minted ==
    ASSUME now \in Nat, gateway \in GatewayState, NEW k, Session(k),
           MayVerify(k, SessionKey)
    PROVE  Ticket(Mint(k))
<1>1. /\ TicketTTL \in Nat /\ Skew \in Nat /\ SessionTTL \in Nat
      /\ now + TicketTTL \in Nat
  BY Numbers
<1>2. /\ k.claims \in Claims /\ k.login \in Nat /\ k.exp = k.login + SessionTTL
      /\ now - Skew < k.exp
  BY DEF Session, Token, MayVerify
<1>3. PICK e : e = now + TicketTTL
  OBVIOUS
<1>4. e \in Nat /\ e < k.login + (SessionTTL + Skew) + TicketTTL
  BY <1>1, <1>2, <1>3
<1>5. Mint(k) = [key |-> gateway.key, claims |-> k.claims, exp |-> e,
                 login |-> k.login]
  BY <1>3 DEF Mint, Issue
<1>6. Mint(k) \in Token /\ Mint(k).exp = e /\ Mint(k).login = k.login
  BY <1>2, <1>4, <1>5 DEF Token, GatewayState
<1> QED
  BY <1>4, <1>6 DEF Ticket

---------------------------------------------------------------------------
\* How a step changes a request.

\* The request x with a new step, token, time, legs, loops and answer.
Rec(x, s, k, n, l, o, p, u) ==
    [kind |-> x.kind, step |-> s, who |-> x.who, route |-> x.route, token |-> k,
     since |-> n, legs |-> l, loops |-> o, reply |-> p, status |-> u]
Became(r, c) == req' = [req EXCEPT ![r] = c]

\* A request is the record of its fields.
LEMMA RecordOf ==
    ASSUME NEW x \in RequestState
    PROVE  /\ x = Rec(x, x.step, x.token, x.since, x.legs, x.loops, x.reply, x.status)
           /\ x.kind \in Kinds /\ x.step \in Steps
           /\ x.token \in Token \cup {NoToken} /\ x.since \in Nat
           /\ x.legs \in SUBSET Legs /\ x.loops \in SUBSET Legs
           /\ x.reply \in Nat /\ x.status \in Statuses
BY DEF RequestState, Rec

\* What such a record is.
LEMMA RecFacts ==
    ASSUME NEW x \in RequestState, NEW s \in Steps, NEW k \in Token \cup {NoToken},
           NEW n \in Nat, NEW l \in SUBSET Legs, NEW o \in SUBSET Legs,
           NEW p \in Nat, NEW u \in Statuses,
           NEW c, c = Rec(x, s, k, n, l, o, p, u)
    PROVE  /\ c \in RequestState /\ c.kind = x.kind /\ c.step = s /\ c.who = x.who
           /\ c.route = x.route /\ c.token = k /\ c.since = n /\ c.legs = l
           /\ c.loops = o /\ c.reply = p /\ c.status = u
BY DEF RequestState, Rec

\* A step that changes one request, soundly, keeps all sound.
LEMMA OneRequest ==
    ASSUME AllSound, NEW r \in Requests, NEW c, Became(r, c), Sound(c, now), now' = now
    PROVE  /\ AllSound' /\ req'[r] = c
           /\ \A q \in Requests \ {r} : req'[q] = req[q]
<1>1. /\ DOMAIN req' = Requests /\ req' = [q \in Requests |-> req'[q]]
      /\ req'[r] = c /\ \A q \in Requests \ {r} : req'[q] = req[q]
  BY DEF AllSound, Became
<1>2. \A q \in Requests : Sound(req'[q], now)
  BY <1>1 DEF AllSound
<1>3. (\A q \in Requests : Sound(req'[q], now'))
  BY <1>2
<1> QED
  BY <1>1, <1>3 DEF AllSound, Sound, Placed, HookSound, HttpSound, SocketSound,
     Session, OfService, Ticket

\* The changes of one request, as such records.
LEMMA Moves ==
    ASSUME AllSound, NEW r \in Requests, NEW x, x = req[r]
    PROVE  /\ x \in RequestState
           /\ \A a : req' = [req EXCEPT ![r].step = a]
                 => Became(r, Rec(x, a, x.token, x.since, x.legs, x.loops, x.reply, x.status))
           /\ \A a : req' = [req EXCEPT ![r].legs = a]
                 => Became(r, Rec(x, x.step, x.token, x.since, a, x.loops, x.reply, x.status))
           /\ \A a : req' = [req EXCEPT ![r].loops = a]
                 => Became(r, Rec(x, x.step, x.token, x.since, x.legs, a, x.reply, x.status))
           /\ \A a, b : req' = [req EXCEPT ![r].step = a, ![r].reply = b]
                 => Became(r, Rec(x, a, x.token, x.since, x.legs, x.loops, b, x.status))
           /\ \A a, b : req' = [req EXCEPT ![r].step = a, ![r].legs = b]
                 => Became(r, Rec(x, a, x.token, x.since, b, x.loops, x.reply, x.status))
           /\ \A a, b : req' = [req EXCEPT ![r].step = a, ![r].loops = b]
                 => Became(r, Rec(x, a, x.token, x.since, x.legs, b, x.reply, x.status))
           /\ \A a, b, c : req' = [req EXCEPT ![r].step = a, ![r].reply = b, ![r].status = c]
                 => Became(r, Rec(x, a, x.token, x.since, x.legs, x.loops, b, c))
           /\ \A a, b, c : req' = [req EXCEPT ![r].step = a, ![r].since = b, ![r].token = c]
                 => Became(r, Rec(x, a, c, b, x.legs, x.loops, x.reply, x.status))
           /\ \A a, b, c : req' = [req EXCEPT ![r].step = a, ![r].legs = b, ![r].since = c]
                 => Became(r, Rec(x, a, x.token, c, b, x.loops, x.reply, x.status))
<1>1. x \in RequestState /\ req = [q \in Requests |-> req[q]]
  BY DEF AllSound, Sound
<1>2. \A a : req' = [req EXCEPT ![r].step = a]
        => Became(r, Rec(x, a, x.token, x.since, x.legs, x.loops, x.reply, x.status))
  BY <1>1 DEF Became, Rec, RequestState
<1>3. \A a : req' = [req EXCEPT ![r].legs = a]
        => Became(r, Rec(x, x.step, x.token, x.since, a, x.loops, x.reply, x.status))
  BY <1>1 DEF Became, Rec, RequestState
<1>4. \A a : req' = [req EXCEPT ![r].loops = a]
        => Became(r, Rec(x, x.step, x.token, x.since, x.legs, a, x.reply, x.status))
  BY <1>1 DEF Became, Rec, RequestState
<1>5. \A a, b : req' = [req EXCEPT ![r].step = a, ![r].reply = b]
        => Became(r, Rec(x, a, x.token, x.since, x.legs, x.loops, b, x.status))
  <2> SUFFICES ASSUME NEW a, NEW b, req' = [req EXCEPT ![r].step = a, ![r].reply = b]
               PROVE  Became(r, Rec(x, a, x.token, x.since, x.legs, x.loops, b, x.status))
    OBVIOUS
  <2>1. req' = [req EXCEPT ![r] = [x EXCEPT !.step = a, !.reply = b]]
    BY <1>1
  <2>2. PICK y : y = [x EXCEPT !.step = a]
    OBVIOUS
  <2>3. y = Rec(x, a, x.token, x.since, x.legs, x.loops, x.reply, x.status)
    BY <1>1, <2>2 DEF Rec, RequestState
  <2>4. [y EXCEPT !.reply = b] = Rec(x, a, x.token, x.since, x.legs, x.loops, b, x.status)
    BY <2>3 DEF Rec
  <2>5. [x EXCEPT !.step = a, !.reply = b] = Rec(x, a, x.token, x.since, x.legs, x.loops, b, x.status)
    BY <2>2, <2>4, Zenon
  <2> QED
    BY <2>1, <2>5 DEF Became
<1>6. \A a, b : req' = [req EXCEPT ![r].step = a, ![r].legs = b]
        => Became(r, Rec(x, a, x.token, x.since, b, x.loops, x.reply, x.status))
  <2> SUFFICES ASSUME NEW a, NEW b, req' = [req EXCEPT ![r].step = a, ![r].legs = b]
               PROVE  Became(r, Rec(x, a, x.token, x.since, b, x.loops, x.reply, x.status))
    OBVIOUS
  <2>1. req' = [req EXCEPT ![r] = [x EXCEPT !.step = a, !.legs = b]]
    BY <1>1
  <2>2. PICK y : y = [x EXCEPT !.step = a]
    OBVIOUS
  <2>3. y = Rec(x, a, x.token, x.since, x.legs, x.loops, x.reply, x.status)
    BY <1>1, <2>2 DEF Rec, RequestState
  <2>4. [y EXCEPT !.legs = b] = Rec(x, a, x.token, x.since, b, x.loops, x.reply, x.status)
    BY <2>3 DEF Rec
  <2>5. [x EXCEPT !.step = a, !.legs = b] = Rec(x, a, x.token, x.since, b, x.loops, x.reply, x.status)
    BY <2>2, <2>4, Zenon
  <2> QED
    BY <2>1, <2>5 DEF Became
<1>7. \A a, b : req' = [req EXCEPT ![r].step = a, ![r].loops = b]
        => Became(r, Rec(x, a, x.token, x.since, x.legs, b, x.reply, x.status))
  <2> SUFFICES ASSUME NEW a, NEW b, req' = [req EXCEPT ![r].step = a, ![r].loops = b]
               PROVE  Became(r, Rec(x, a, x.token, x.since, x.legs, b, x.reply, x.status))
    OBVIOUS
  <2>1. req' = [req EXCEPT ![r] = [x EXCEPT !.step = a, !.loops = b]]
    BY <1>1
  <2>2. PICK y : y = [x EXCEPT !.step = a]
    OBVIOUS
  <2>3. y = Rec(x, a, x.token, x.since, x.legs, x.loops, x.reply, x.status)
    BY <1>1, <2>2 DEF Rec, RequestState
  <2>4. [y EXCEPT !.loops = b] = Rec(x, a, x.token, x.since, x.legs, b, x.reply, x.status)
    BY <2>3 DEF Rec
  <2>5. [x EXCEPT !.step = a, !.loops = b] = Rec(x, a, x.token, x.since, x.legs, b, x.reply, x.status)
    BY <2>2, <2>4, Zenon
  <2> QED
    BY <2>1, <2>5 DEF Became
<1>8. \A a, b, c : req' = [req EXCEPT ![r].step = a, ![r].reply = b, ![r].status = c]
        => Became(r, Rec(x, a, x.token, x.since, x.legs, x.loops, b, c))
  <2> SUFFICES ASSUME NEW a, NEW b, NEW c, req' = [req EXCEPT ![r].step = a, ![r].reply = b, ![r].status = c]
               PROVE  Became(r, Rec(x, a, x.token, x.since, x.legs, x.loops, b, c))
    OBVIOUS
  <2>1. req' = [req EXCEPT ![r] = [x EXCEPT !.step = a, !.reply = b, !.status = c]]
    BY <1>1
  <2>2. PICK y : y = [x EXCEPT !.step = a]
    OBVIOUS
  <2>3. y = Rec(x, a, x.token, x.since, x.legs, x.loops, x.reply, x.status)
    BY <1>1, <2>2 DEF Rec, RequestState
  <2>4. PICK z : z = [y EXCEPT !.reply = b]
    OBVIOUS
  <2>5. z = Rec(x, a, x.token, x.since, x.legs, x.loops, b, x.status)
    BY <2>3, <2>4 DEF Rec
  <2>6. [z EXCEPT !.status = c] = Rec(x, a, x.token, x.since, x.legs, x.loops, b, c)
    BY <2>5 DEF Rec
  <2>7. [x EXCEPT !.step = a, !.reply = b, !.status = c] = Rec(x, a, x.token, x.since, x.legs, x.loops, b, c)
    BY <2>2, <2>4, <2>6, Zenon
  <2> QED
    BY <2>1, <2>7 DEF Became
<1>9. \A a, b, c : req' = [req EXCEPT ![r].step = a, ![r].since = b, ![r].token = c]
        => Became(r, Rec(x, a, c, b, x.legs, x.loops, x.reply, x.status))
  <2> SUFFICES ASSUME NEW a, NEW b, NEW c, req' = [req EXCEPT ![r].step = a, ![r].since = b, ![r].token = c]
               PROVE  Became(r, Rec(x, a, c, b, x.legs, x.loops, x.reply, x.status))
    OBVIOUS
  <2>1. req' = [req EXCEPT ![r] = [x EXCEPT !.step = a, !.since = b, !.token = c]]
    BY <1>1
  <2>2. PICK y : y = [x EXCEPT !.step = a]
    OBVIOUS
  <2>3. y = Rec(x, a, x.token, x.since, x.legs, x.loops, x.reply, x.status)
    BY <1>1, <2>2 DEF Rec, RequestState
  <2>4. PICK z : z = [y EXCEPT !.since = b]
    OBVIOUS
  <2>5. z = Rec(x, a, x.token, b, x.legs, x.loops, x.reply, x.status)
    BY <2>3, <2>4 DEF Rec
  <2>6. [z EXCEPT !.token = c] = Rec(x, a, c, b, x.legs, x.loops, x.reply, x.status)
    BY <2>5 DEF Rec
  <2>7. [x EXCEPT !.step = a, !.since = b, !.token = c] = Rec(x, a, c, b, x.legs, x.loops, x.reply, x.status)
    BY <2>2, <2>4, <2>6, Zenon
  <2> QED
    BY <2>1, <2>7 DEF Became
<1>10. \A a, b, c : req' = [req EXCEPT ![r].step = a, ![r].legs = b, ![r].since = c]
        => Became(r, Rec(x, a, x.token, c, b, x.loops, x.reply, x.status))
  <2> SUFFICES ASSUME NEW a, NEW b, NEW c, req' = [req EXCEPT ![r].step = a, ![r].legs = b, ![r].since = c]
               PROVE  Became(r, Rec(x, a, x.token, c, b, x.loops, x.reply, x.status))
    OBVIOUS
  <2>1. req' = [req EXCEPT ![r] = [x EXCEPT !.step = a, !.legs = b, !.since = c]]
    BY <1>1
  <2>2. PICK y : y = [x EXCEPT !.step = a]
    OBVIOUS
  <2>3. y = Rec(x, a, x.token, x.since, x.legs, x.loops, x.reply, x.status)
    BY <1>1, <2>2 DEF Rec, RequestState
  <2>4. PICK z : z = [y EXCEPT !.legs = b]
    OBVIOUS
  <2>5. z = Rec(x, a, x.token, x.since, b, x.loops, x.reply, x.status)
    BY <2>3, <2>4 DEF Rec
  <2>6. [z EXCEPT !.since = c] = Rec(x, a, x.token, c, b, x.loops, x.reply, x.status)
    BY <2>5 DEF Rec
  <2>7. [x EXCEPT !.step = a, !.legs = b, !.since = c] = Rec(x, a, x.token, c, b, x.loops, x.reply, x.status)
    BY <2>2, <2>4, <2>6, Zenon
  <2> QED
    BY <2>1, <2>7 DEF Became
<1> QED
  BY <1>1, <1>2, <1>3, <1>4, <1>5, <1>6, <1>7, <1>8, <1>9, <1>10

\* What a step that changes one request, soundly, has to keep besides.
LEMMA Keeps ==
    ASSUME AccessInv, NEW r \in Requests, NEW c, Became(r, c), Sound(c, now),
           now' = now, c.kind = req[r].kind, c.who = req[r].who
    PROVE  /\ AllSound' /\ req'[r] = c
           /\ \A q \in Requests \ {r} : req'[q] = req[q]
           /\ /\ tasks' = tasks
              /\ c.kind = "webhook" => c.reply # 201 \/ c.reply = req[r].reply
              => TasksSound'
           /\ source' = source /\ (c.step \in Holding <=> req[r].step \in Holding) =>
                 MutexSound'
           /\ /\ tracked' = tracked /\ closing' \subseteq closing
              /\ c.step \in Pumping <=> req[r].step \in Pumping
              => ConnsSound'
<1>1. AllSound /\ TasksSound /\ MutexSound /\ ConnsSound
  BY DEF AccessInv
<1>2. /\ AllSound' /\ req'[r] = c
      /\ \A q \in Requests \ {r} : req'[q] = req[q]
  BY <1>1, OneRequest
<1>3. \A q \in Requests : req'[q].kind = req[q].kind /\ req'[q].who = req[q].who
  BY <1>2
<1>4. /\ tasks' = tasks
      /\ c.kind = "webhook" => c.reply # 201 \/ c.reply = req[r].reply
      => TasksSound'
  BY <1>1, <1>2, <1>3 DEF TasksSound
<1>5. source' = source /\ (c.step \in Holding <=> req[r].step \in Holding) => MutexSound'
  <2> SUFFICES ASSUME source' = source, c.step \in Holding <=> req[r].step \in Holding
               PROVE  MutexSound'
    OBVIOUS
  <2>1. \A q \in Requests : req'[q].step \in Holding <=> req[q].step \in Holding
    BY <1>2
  <2>2. \A q \in Requests : req[q].step \in Holding => source[req[q].who].holder = q
    BY <1>1 DEF MutexSound
  <2>3. \A t \in Tenants : source[t].holder # NoRequest =>
           /\ source[t].holder \in Requests
           /\ req[source[t].holder].who = t /\ req[source[t].holder].step \in Holding
    BY <1>1 DEF MutexSound, AccessInv, SourcesSound
  <2>4. \A q \in Requests : req'[q].step \in Holding => source'[req'[q].who].holder = q
    BY <1>3, <2>1, <2>2
  <2>5. \A t \in Tenants : source'[t].holder # NoRequest =>
           req'[source'[t].holder].who = t /\ req'[source'[t].holder].step \in Holding
    BY <1>3, <2>1, <2>3
  <2> QED
    BY <2>4, <2>5 DEF MutexSound, Holding
<1>6. /\ tracked' = tracked /\ closing' \subseteq closing
      /\ c.step \in Pumping <=> req[r].step \in Pumping
      => ConnsSound'
  BY <1>1, <1>2 DEF ConnsSound, Pumping
<1> QED
  BY <1>2, <1>4, <1>5, <1>6

\* What no step of one request touches.
LEMMA Rests ==
    ASSUME AccessInv, mix' = mix, now' = now
    PROVE  /\ (faults' = faults \/ Fault) /\ gateway' \in GatewayState => Clock'
           /\ (faults' = faults \/ Fault) /\ gateway' = gateway => Clock'
           /\ source' = source => SourcesSound'
           /\ wallet' = wallet => WalletsSound'
<1>1. (faults' = faults \/ Fault) /\ gateway' \in GatewayState => Clock'
  <2>1. MaxFaults[mix] \in Nat
    BY TokensConstants DEF AccessInv, Clock
  <2> QED
    BY <2>1 DEF AccessInv, Clock, Fault, GatewayState
<1>2. source' = source => SourcesSound'
  BY DEF AccessInv, SourcesSound, OfService, Token, Claims
<1>3. wallet' = wallet => WalletsSound'
  BY DEF AccessInv, WalletsSound, Session, Ticket
<1>4. gateway \in GatewayState
  BY DEF AccessInv, Clock
<1> QED
  BY <1>1, <1>2, <1>3, <1>4

---------------------------------------------------------------------------
\* A request arrives.

\* The record of a request that has just come.
Come(kind, step, who, route, token) ==
    [kind |-> kind, step |-> step, who |-> who, route |-> route, token |-> token,
     since |-> 0, legs |-> {}, loops |-> {}, reply |-> 0, status |-> Blank]

\* A new request is sound when what it brings is.
LEMMA Comes ==
    ASSUME NEW r, NEW m, NEW s, NEW w, NEW p, NEW k,
           Arrive(r, m, s, w, p, k)
    PROVE  Became(r, Come(m, s, w, p, k))
<1> DEFINE Unborn == Come("none", "new", Blank, Blank, NoToken)
<1>0. New = Unborn
  BY Zenon DEF New, Come, Blank
<1>1. PICK a : a = [New EXCEPT !.kind = m]
  OBVIOUS
<1>2. a = Come(m, "new", Blank, Blank, NoToken)
  BY <1>0, <1>1 DEF Come
<1>3. PICK b : b = [a EXCEPT !.step = s]
  OBVIOUS
<1>4. b = Come(m, s, Blank, Blank, NoToken)
  BY <1>2, <1>3 DEF Come
<1>5. PICK h : h = [b EXCEPT !.who = w]
  OBVIOUS
<1>6. h = Come(m, s, w, Blank, NoToken)
  BY <1>4, <1>5 DEF Come
<1>7. PICK d : d = [h EXCEPT !.route = p]
  OBVIOUS
<1>8. d = Come(m, s, w, p, NoToken)
  BY <1>6, <1>7 DEF Come
<1>9. PICK e : e = [d EXCEPT !.token = k]
  OBVIOUS
<1>10. e = Come(m, s, w, p, k)
  BY <1>8, <1>9 DEF Come
<1>11. req' = [req EXCEPT ![r] =
          [New EXCEPT !.kind = m, !.step = s, !.who = w, !.route = p,
                      !.token = k]]
  BY Zenon DEF Arrive
<1>12. req' = [req EXCEPT ![r] = e]
  BY <1>1, <1>3, <1>5, <1>7, <1>9, <1>11, Zenon
<1> QED
  BY <1>10, <1>12, Zenon DEF Became

\* It is at the first step of its handler: nothing else changes, and what is
\* known of a new request it did not have.
LEMMA ArriveStep ==
    ASSUME AccessInv, NEW r \in Requests, NEW m, NEW s, NEW w, NEW p,
           NEW k, Arrive(r, m, s, w, p, k),
           Sound(Come(m, s, w, p, k), now),
           s \in {"lock", "replied", "middleware", "verify"},
           UNCHANGED <<mix, now, faults, serviceVars, gatewayVars>>
    PROVE  AccessInv'
<1>1. PICK c : c = Come(m, s, w, p, k)
  OBVIOUS
<1>2. c.kind = m /\ c.step = s /\ c.reply = 0
  BY <1>1 DEF Come
<1>3. Became(r, c) /\ Sound(c, now)
  BY <1>1, Comes
<1>4. req[r].kind = "none" /\ req[r].step = "new"
  <2>1. req[r] = New
    BY Zenon DEF Arrive
  <2>2. New.kind = "none" /\ New.step = "new"
    <3>1. New = Come("none", "new", Blank, Blank, NoToken)
      BY Zenon DEF New, Come, Blank
    <3> QED
      BY <3>1 DEF Come
  <2> QED
    BY <2>1, <2>2, Zenon
<1>5. /\ AllSound' /\ req'[r] = c
      /\ \A q \in Requests \ {r} : req'[q] = req[q]
  BY <1>3, OneRequest DEF AccessInv
<1>6. Clock' /\ SourcesSound' /\ WalletsSound'
  BY Rests DEF serviceVars, gatewayVars
<1>7. TasksSound'
  <2>1. \A j \in tasks : j.request # r /\ j.request \in Requests
    BY <1>4 DEF AccessInv, TasksSound
  <2> QED
    BY <1>2, <1>5, <2>1 DEF AccessInv, TasksSound, serviceVars
<1>8. MutexSound'
  <2>1. \A t \in Tenants : source[t].holder # NoRequest =>
           source[t].holder \in Requests /\ source[t].holder # r
    BY <1>4 DEF AccessInv, MutexSound, SourcesSound, Holding
  <2>2. c.step \notin Holding
    BY <1>2 DEF Holding
  <2> QED
    BY <1>5, <2>1, <2>2 DEF AccessInv, MutexSound, serviceVars, Holding
<1>9. ConnsSound'
  BY <1>2, <1>4, <1>5 DEF AccessInv, ConnsSound, Pumping, gatewayVars
<1> QED
  BY <1>5, <1>6, <1>7, <1>8, <1>9 DEF AccessInv

\* No answer is none of the answers.
LEMMA NoAnswer == Blank # "OK" /\ Blank # "Unauthenticated"
BY Zenon DEF Blank

\* The time is a number.
LEMMA Time ==
    ASSUME AccessInv
    PROVE  now \in Nat
<1>1. MaxTime[mix] \in Nat /\ now \in 0 .. MaxTime[mix]
  BY TokensConstants DEF AccessInv, Clock
<1> QED
  BY <1>1

\* What a new request says of itself.
LEMMA ComeFacts ==
    ASSUME NEW m \in Kinds, NEW s \in Steps, NEW w \in Tenants \cup Clients \cup {Blank},
           NEW p \in Routes \cup {TicketRoute, Blank}, NEW k \in Token \cup {NoToken},
           NEW c, c = Come(m, s, w, p, k), AccessInv
    PROVE  /\ c \in RequestState /\ c.since <= now
           /\ c.kind = m /\ c.step = s /\ c.who = w /\ c.route = p /\ c.token = k
           /\ c.since = 0 /\ c.legs = {} /\ c.reply = 0 /\ c.status = Blank
<1>1. c \in RequestState
  BY DEF Come, RequestState, Statuses
<1>2. /\ c.kind = m /\ c.step = s /\ c.who = w /\ c.route = p /\ c.token = k
      /\ c.since = 0 /\ c.legs = {} /\ c.reply = 0 /\ c.status = Blank
  BY DEF Come
<1>3. now \in Nat
  BY Time
<1> QED
  BY <1>1, <1>2, <1>3

\* A webhook arrives at the digital channels gateway.
LEMMA WebhookStep ==
    ASSUME AccessInv, NEW r \in Requests, NEW t \in Tenants, NEW complete \in BOOLEAN,
           Webhook(r, t, complete), UNCHANGED gatewayVars
    PROVE  AccessInv'
<1>1. PICK s : s = IF complete THEN "lock" ELSE "replied"
  OBVIOUS
<1>2. /\ Arrive(r, "webhook", s, t, Blank, NoToken)
      /\ UNCHANGED <<mix, now, faults, serviceVars, gatewayVars>>
  BY <1>1, Zenon DEF Webhook, Blank
<1>3. PICK c : c = Come("webhook", s, t, Blank, NoToken)
  OBVIOUS
<1>4. /\ s \in {"lock", "replied"} /\ s \in Steps /\ "webhook" \in Kinds
      /\ t \in Tenants \cup Clients \cup {Blank} /\ Blank \in Routes \cup {TicketRoute, Blank}
      /\ NoToken \in Token \cup {NoToken}
  BY <1>1 DEF Steps, Kinds
<1>5. /\ c \in RequestState /\ c.since <= now
      /\ c.kind = "webhook" /\ c.step = s /\ c.who = t
      /\ c.legs = {} /\ c.reply = 0 /\ c.status = Blank
  BY <1>3, <1>4, ComeFacts
<1>6. Sound(c, now)
  BY <1>4, <1>5, NoAnswer DEF Sound, Placed, HookSound, HttpSound, SocketSound, Holding, Pumping
<1> QED
  BY <1>2, <1>3, <1>4, <1>6, ArriveStep

\* A client calls a route, with its session or without a token.
LEMMA RestStep ==
    ASSUME AccessInv, NEW r \in Requests, NEW u \in Clients, NEW p \in Routes,
           Rest(r, u, p), UNCHANGED serviceVars
    PROVE  AccessInv'
<1>1. PICK k \in {wallet[u].session, NoToken} : Arrive(r, "rest", "middleware", u, p, k)
  BY Zenon DEF Rest
<1>2. UNCHANGED <<mix, now, faults, serviceVars, gatewayVars>>
  BY Zenon DEF Rest
<1>3. PICK c : c = Come("rest", "middleware", u, p, k)
  OBVIOUS
<1>4. k \in Token \cup {NoToken} /\ (k # NoToken => Session(k))
  BY DEF AccessInv, WalletsSound
<1>5. /\ "middleware" \in Steps /\ "rest" \in Kinds
      /\ u \in Tenants \cup Clients \cup {Blank} /\ p \in Routes \cup {TicketRoute, Blank}
  BY DEF Steps, Kinds
<1>6. /\ c \in RequestState /\ c.since <= now
      /\ c.kind = "rest" /\ c.step = "middleware" /\ c.who = u /\ c.route = p
      /\ c.token = k /\ c.legs = {} /\ c.reply = 0 /\ c.status = Blank
  BY <1>3, <1>4, <1>5, ComeFacts
<1>7. Sound(c, now)
  BY <1>4, <1>6, NoAnswer DEF Sound, Placed, HookSound, HttpSound, SocketSound, Holding, Pumping
<1> QED
  BY <1>1, <1>2, <1>3, <1>7, ArriveStep

\* A client asks for a ticket with its session.
LEMMA TicketRequestStep ==
    ASSUME AccessInv, NEW r \in Requests, NEW u \in Clients,
           TicketRequest(r, u), UNCHANGED serviceVars
    PROVE  AccessInv'
<1>1. PICK k : k = wallet[u].session
  OBVIOUS
<1>2. /\ Arrive(r, "ticket", "middleware", u, TicketRoute, k)
      /\ UNCHANGED <<mix, now, faults, serviceVars, gatewayVars>>
  BY <1>1, Zenon DEF TicketRequest, TicketRoute
<1>3. PICK c : c = Come("ticket", "middleware", u, TicketRoute, k)
  OBVIOUS
<1>4. k \in Token \cup {NoToken} /\ Session(k)
  BY <1>1 DEF AccessInv, WalletsSound
<1>5. /\ "middleware" \in Steps /\ "ticket" \in Kinds
      /\ u \in Tenants \cup Clients \cup {Blank}
      /\ TicketRoute \in Routes \cup {TicketRoute, Blank}
  BY DEF Steps, Kinds
<1>6. /\ c \in RequestState /\ c.since <= now
      /\ c.kind = "ticket" /\ c.step = "middleware" /\ c.who = u
      /\ c.token = k /\ c.legs = {} /\ c.reply = 0 /\ c.status = Blank
  BY <1>3, <1>4, <1>5, ComeFacts
<1>7. Sound(c, now)
  BY <1>4, <1>6, NoAnswer DEF Sound, Placed, HookSound, HttpSound, SocketSound, Holding, Pumping
<1> QED
  BY <1>2, <1>3, <1>7, ArriveStep

\* A client opens a WebSocket, with its ticket or with none.
LEMMA WebSocketStep ==
    ASSUME AccessInv, NEW r \in Requests, NEW u \in Clients,
           WebSocket(r, u), UNCHANGED serviceVars
    PROVE  AccessInv'
<1>1. UNCHANGED <<mix, now, faults, serviceVars, gatewayVars>>
  BY Zenon DEF WebSocket
<1>2. PICK k \in {wallet[u].ticket, NoToken} : Arrive(r, "ws", "verify", u, Blank, k)
  BY Zenon DEF WebSocket, Blank
<1>3. PICK c : c = Come("ws", "verify", u, Blank, k)
  OBVIOUS
<1>4. k \in Token \cup {NoToken} /\ (k # NoToken => Ticket(k))
  BY <1>2 DEF AccessInv, WalletsSound
<1>5. /\ "verify" \in Steps /\ "ws" \in Kinds
      /\ u \in Tenants \cup Clients \cup {Blank} /\ Blank \in Routes \cup {TicketRoute, Blank}
  BY DEF Steps, Kinds
<1>6. PICK p : p = Blank
  OBVIOUS
<1>7. c = Come("ws", "verify", u, p, k) /\ p \in Routes \cup {TicketRoute, Blank}
  BY <1>3, <1>6
<1>8. /\ c \in RequestState /\ c.since <= now
      /\ c.kind = "ws" /\ c.step = "verify" /\ c.who = u
      /\ c.token = k /\ c.legs = {} /\ c.reply = 0 /\ c.status = Blank
  BY <1>4, <1>5, <1>7, ComeFacts
<1>9. Sound(c, now)
  BY <1>4, <1>8, NoAnswer DEF Sound, Placed, HookSound, HttpSound, SocketSound, Holding, Pumping
<1> QED
  BY <1>1, <1>2, <1>3, <1>9, ArriveStep

---------------------------------------------------------------------------
\* Webhooks.

\* What is known of a request.
LEMMA RequestFacts ==
    ASSUME AccessInv, NEW r \in Requests, NEW x, x = req[r]
    PROVE  /\ x \in RequestState /\ x.kind \in Kinds /\ x.step \in Steps
           /\ x.token \in Token \cup {NoToken} /\ x.since \in Nat
           /\ x.legs \in SUBSET Legs /\ x.loops \in SUBSET Legs
           /\ x.reply \in Nat /\ x.status \in Statuses
           /\ x.since <= now /\ Placed(x) /\ HookSound(x, now) /\ HttpSound(x, now)
           /\ SocketSound(x)
<1>1. Sound(x, now)
  BY DEF AccessInv, AllSound
<1> QED
  BY <1>1, RecordOf DEF Sound

\* The steps of a webhook before its answer.
LEMMA LockStep ==
    ASSUME AccessInv, NEW r \in Requests, Lock(r), UNCHANGED gatewayVars
    PROVE  AccessInv'
<1>1. PICK x : x = req[r]
  OBVIOUS
<1>2. PICK c : c = Rec(x, "check", x.token, x.since, x.legs, x.loops, x.reply, x.status)
  OBVIOUS
<1>3. /\ x.kind = "webhook" /\ x.step = "lock" /\ source[x.who].holder = NoRequest
      /\ source' = [source EXCEPT ![x.who].holder = r] /\ Goto(r, "check")
      /\ mix' = mix /\ now' = now /\ faults' = faults /\ tasks' = tasks
  BY <1>1 DEF Lock, At, Source
<1>4. Became(r, c)
  BY <1>1, <1>2, <1>3, Moves DEF Goto, AccessInv
<1>5. /\ x.since <= now /\ Placed(x) /\ HookSound(x, now)
      /\ x.reply = 0 /\ x.status = Blank /\ x.who \in Tenants
  BY <1>1, <1>3, RequestFacts DEF Placed
<1>6. /\ c \in RequestState /\ c.kind = "webhook" /\ c.step = "check" /\ c.who = x.who
      /\ c.since = x.since /\ c.reply = 0 /\ c.status = Blank
  <2>1. "check" \in Steps
    BY DEF Steps
  <2>2. /\ x \in RequestState /\ x.token \in Token \cup {NoToken} /\ x.since \in Nat
        /\ x.legs \in SUBSET Legs /\ x.loops \in SUBSET Legs
        /\ x.reply \in Nat /\ x.status \in Statuses
    BY <1>1, RequestFacts
  <2> QED
    BY <1>2, <1>3, <1>5, <2>1, <2>2, RecFacts
<1>7. Sound(c, now)
  BY <1>5, <1>6, NoAnswer
     DEF Sound, Placed, HookSound, HttpSound, SocketSound, Holding, Pumping
<1>8. /\ AllSound' /\ req'[r] = c /\ TasksSound' /\ ConnsSound'
      /\ \A q \in Requests \ {r} : req'[q] = req[q]
  BY <1>1, <1>3, <1>4, <1>6, <1>7, Keeps DEF gatewayVars, Pumping
<1>9. Clock' /\ WalletsSound'
  BY <1>3, Rests DEF gatewayVars
<1>10. /\ source'[x.who].holder = r /\ source'[x.who].token = source[x.who].token
       /\ \A t \in Tenants \ {x.who} : source'[t] = source[t]
       /\ source' \in [Tenants -> [holder : Requests \cup {NoRequest},
                                   token : Token \cup {NoToken}]]
  BY <1>3, <1>5 DEF AccessInv, SourcesSound
<1>11. SourcesSound'
  BY <1>10 DEF AccessInv, SourcesSound, OfService, Token, Claims
<1>12. MutexSound'
  <2>1. \A q \in Requests \ {r} : req[q].step \in Holding => req[q].who # x.who
    BY <1>3, ServiceTokensConstants DEF AccessInv, MutexSound
  <2>2. \A q \in Requests \ {r} : req[q].step \in Holding => req[q].who \in Tenants
    BY DEF AccessInv, AllSound, Sound, Placed
  <2>3. \A q \in Requests : req'[q].step \in Holding => source'[req'[q].who].holder = q
    BY <1>5, <1>6, <1>8, <1>10, <2>1, <2>2 DEF AccessInv, MutexSound
  <2>4. \A t \in Tenants \ {x.who} : source[t].holder # NoRequest =>
           /\ source[t].holder \in Requests \ {r}
           /\ req[source[t].holder].who = t /\ req[source[t].holder].step \in Holding
    BY <1>1, <1>3 DEF AccessInv, MutexSound, SourcesSound, Holding
  <2>5. \A t \in Tenants : source'[t].holder # NoRequest =>
           req'[source'[t].holder].who = t /\ req'[source'[t].holder].step \in Holding
    BY <1>6, <1>8, <1>10, <2>4 DEF Holding
  <2> QED
    BY <2>3, <2>5 DEF MutexSound, Holding
<1> QED
  BY <1>8, <1>9, <1>11, <1>12 DEF AccessInv

\* Giving the mutex back.
LEMMA Released ==
    ASSUME AccessInv, NEW r \in Requests, req[r].step \in Holding,
           req'[r].step \notin Holding,
           \A q \in Requests \ {r} : req'[q] = req[q],
           source'[req[r].who].holder = NoRequest,
           \A t \in Tenants \ {req[r].who} : source'[t] = source[t]
    PROVE  MutexSound'
<1>1. source[req[r].who].holder = r /\ req[r].who \in Tenants
  BY DEF AccessInv, MutexSound, AllSound, Sound, Placed
<1>2. \A q \in Requests \ {r} : req[q].step \in Holding =>
         req[q].who # req[r].who /\ req[q].who \in Tenants
  BY <1>1 DEF AccessInv, MutexSound, AllSound, Sound, Placed
<1>3. \A q \in Requests : req'[q].step \in Holding => source'[req'[q].who].holder = q
  BY <1>2 DEF AccessInv, MutexSound
<1>4. \A t \in Tenants \ {req[r].who} : source[t].holder # NoRequest =>
         /\ source[t].holder \in Requests \ {r}
         /\ req[source[t].holder].who = t /\ req[source[t].holder].step \in Holding
  BY DEF AccessInv, MutexSound, SourcesSound
<1>5. \A t \in Tenants : source'[t].holder # NoRequest =>
         req'[source'[t].holder].who = t /\ req'[source'[t].holder].step \in Holding
  BY <1>4
<1> QED
  BY <1>3, <1>5 DEF MutexSound, Holding

\* Token, under the mutex: a cached token that is not about to expire is
\* reused, and the mutex is given back.
LEMMA CheckReuses ==
    ASSUME AccessInv, NEW r \in Requests, Check(r), UNCHANGED gatewayVars,
           Reusable(Source(r).token)
    PROVE  AccessInv'
<1>1. PICK x : x = req[r]
  OBVIOUS
<1>2. PICK k : k = source[x.who].token
  OBVIOUS
<1>3. PICK c : c = Rec(x, "enqueue", k, now, x.legs, x.loops, x.reply, x.status)
  OBVIOUS
<1>4. /\ x.kind = "webhook" /\ x.step = "check" /\ k # NoToken
      /\ now + RefreshBefore < k.exp
      /\ source' = [source EXCEPT ![x.who].holder = NoRequest]
      /\ req' = [req EXCEPT ![r].step = "enqueue", ![r].since = now, ![r].token = k]
      /\ mix' = mix /\ now' = now /\ faults' = faults /\ tasks' = tasks
  BY <1>1, <1>2 DEF Check, At, Source, Reusable, Unlock
<1>5. Became(r, c)
  BY <1>1, <1>3, <1>4, Moves DEF AccessInv
<1>6. /\ now \in Nat /\ Placed(x) /\ HookSound(x, now)
      /\ x.reply = 0 /\ x.status = Blank /\ x.who \in Tenants
  BY <1>1, <1>4, RequestFacts, Time DEF Placed
<1>7. OfService(k, x.who) /\ k \in Token \cup {NoToken}
  BY <1>2, <1>4, <1>6 DEF AccessInv, SourcesSound
<1>8. /\ c \in RequestState /\ c.kind = "webhook" /\ c.step = "enqueue" /\ c.who = x.who
      /\ c.since = now /\ c.token = k /\ c.reply = 0 /\ c.status = Blank
  <2>1. "enqueue" \in Steps
    BY DEF Steps
  <2> QED
    BY <1>1, <1>3, <1>4, <1>6, <1>7, <2>1, RequestFacts, RecFacts
<1>9. Sound(c, now)
  BY <1>4, <1>6, <1>7, <1>8, NoAnswer
     DEF Sound, Placed, HookSound, HttpSound, SocketSound, Holding, Pumping
<1>10. /\ AllSound' /\ req'[r] = c /\ TasksSound' /\ ConnsSound'
       /\ \A q \in Requests \ {r} : req'[q] = req[q]
  <2>1. x.kind = "webhook" /\ x.step = "check" /\ now' = now /\ tasks' = tasks
    BY <1>4, Zenon
  <2> QED
    BY <1>1, <1>5, <1>8, <1>9, <2>1, Keeps DEF gatewayVars, Pumping
<1>11. Clock' /\ WalletsSound'
  BY <1>4, Rests DEF gatewayVars
<1>12. /\ source'[x.who].holder = NoRequest
       /\ source'[x.who].token = source[x.who].token
       /\ \A t \in Tenants \ {x.who} : source'[t] = source[t]
       /\ source' \in [Tenants -> [holder : Requests \cup {NoRequest},
                                   token : Token \cup {NoToken}]]
  BY <1>4, <1>6 DEF AccessInv, SourcesSound
<1>13. SourcesSound'
  BY <1>12 DEF AccessInv, SourcesSound, OfService, Token, Claims
<1>14. MutexSound'
  BY <1>1, <1>4, <1>8, <1>10, <1>12, Released DEF Holding
<1> QED
  BY <1>10, <1>11, <1>13, <1>14 DEF AccessInv

\* No token yet, and the mutex stays.
LEMMA StillHolding ==
    ASSUME AccessInv, NEW r \in Requests, NEW s \in {"issue", "refused"}, Goto(r, s),
           req[r].kind = "webhook", req[r].step \in {"check", "issue"},
           UNCHANGED <<mix, now, faults, serviceVars, gatewayVars>>
    PROVE  AccessInv'
<1>1. PICK x : x = req[r]
  OBVIOUS
<1>2. PICK c : c = Rec(x, s, x.token, x.since, x.legs, x.loops, x.reply, x.status)
  OBVIOUS
<1>3. /\ x.kind = "webhook" /\ x.step \in {"check", "issue"}
      /\ mix' = mix /\ now' = now /\ faults' = faults /\ tasks' = tasks
      /\ source' = source
  BY <1>1 DEF serviceVars
<1>4. Became(r, c)
  BY <1>1, <1>2, Moves DEF Goto, AccessInv
<1>5. /\ x.since <= now /\ Placed(x) /\ HookSound(x, now)
      /\ x.reply = 0 /\ x.status = Blank /\ x.who \in Tenants
  BY <1>1, <1>3, RequestFacts DEF Placed
<1>6. /\ c \in RequestState /\ c.kind = "webhook" /\ c.step = s /\ c.who = x.who
      /\ c.since = x.since /\ c.reply = 0 /\ c.status = Blank
  <2>1. s \in Steps
    BY DEF Steps
  <2>2. /\ x \in RequestState /\ x.token \in Token \cup {NoToken} /\ x.since \in Nat
        /\ x.legs \in SUBSET Legs /\ x.loops \in SUBSET Legs
        /\ x.reply \in Nat /\ x.status \in Statuses
    BY <1>1, RequestFacts
  <2> QED
    BY <1>2, <1>3, <1>5, <2>1, <2>2, RecFacts
<1>7. Sound(c, now)
  BY <1>5, <1>6, NoAnswer
     DEF Sound, Placed, HookSound, HttpSound, SocketSound, Holding, Pumping
<1>8. AllSound' /\ TasksSound' /\ ConnsSound' /\ MutexSound'
  BY <1>1, <1>3, <1>4, <1>6, <1>7, Keeps DEF gatewayVars, Pumping, Holding
<1>9. Clock' /\ WalletsSound' /\ SourcesSound'
  BY <1>3, Rests DEF gatewayVars
<1> QED
  BY <1>8, <1>9 DEF AccessInv

\* Token, under the mutex: reuse the cached token or go on to refresh it.
LEMMA CheckStep ==
    ASSUME AccessInv, NEW r \in Requests, Check(r), UNCHANGED gatewayVars
    PROVE  AccessInv'
<1>1. CASE Reusable(Source(r).token)
  BY <1>1, CheckReuses
<1>2. CASE ~Reusable(Source(r).token)
  <2>1. /\ req[r].kind = "webhook" /\ req[r].step = "check" /\ Goto(r, "issue")
        /\ UNCHANGED <<mix, now, faults, serviceVars, gatewayVars>>
    BY <1>2 DEF Check, At, serviceVars
  <2> QED
    BY <2>1, StillHolding
<1> QED
  BY <1>1, <1>2

\* Tenant identity issues a token for the tenant that was asked for.
LEMMA IssueServiceTokenStep ==
    ASSUME AccessInv, NEW r \in Requests, IssueServiceToken(r), UNCHANGED gatewayVars
    PROVE  AccessInv'
<1>1. PICK x : x = req[r]
  OBVIOUS
<1>2. /\ x.kind = "webhook" /\ x.step = "issue"
      /\ UNCHANGED <<mix, now, faults, serviceVars, gatewayVars>>
  BY <1>1 DEF IssueServiceToken, At
<1>3. CASE x.who \notin Known
  <2>1. Goto(r, "refused")
    BY <1>1, <1>3 DEF IssueServiceToken
  <2> QED
    BY <1>1, <1>2, <2>1, StillHolding
<1>4. CASE x.who \in Known
  <2>1. PICK k : k = IssueToken(Service(x.who))
    OBVIOUS
  <2>2. PICK c : c = Rec(x, "issued", k, now, x.legs, x.loops, x.reply, x.status)
    OBVIOUS
  <2>3. req' = [req EXCEPT ![r].step = "issued", ![r].since = now, ![r].token = k]
    BY <1>1, <1>4, <2>1 DEF IssueServiceToken
  <2>4. Became(r, c)
    BY <1>1, <2>2, <2>3, Moves DEF AccessInv
  <2>5. /\ now \in Nat /\ Placed(x) /\ HookSound(x, now)
        /\ x.reply = 0 /\ x.status = Blank /\ x.who \in Tenants
    BY <1>1, <1>2, RequestFacts, Time DEF Placed
  <2>6. OfService(k, x.who) /\ k.exp = now + SessionTTL
    BY <1>4, <2>1, <2>5, Issued
  <2>7. k \in Token \cup {NoToken} /\ now + RefreshBefore < k.exp
    BY <2>5, <2>6, Numbers DEF OfService
  <2>8. /\ c \in RequestState /\ c.kind = "webhook" /\ c.step = "issued"
        /\ c.who = x.who /\ c.since = now /\ c.token = k /\ c.reply = 0
        /\ c.status = Blank
    <3>1. "issued" \in Steps
      BY DEF Steps
    <3> QED
      BY <1>1, <1>2, <2>2, <2>5, <2>7, <3>1, RequestFacts, RecFacts
  <2>9. Sound(c, now)
    BY <2>5, <2>6, <2>7, <2>8, NoAnswer
       DEF Sound, Placed, HookSound, HttpSound, SocketSound, Holding, Pumping
  <2>10. now' = now /\ tasks' = tasks /\ source' = source
    BY <1>2 DEF serviceVars
  <2>11. AllSound' /\ TasksSound' /\ ConnsSound' /\ MutexSound'
    BY <1>1, <1>2, <2>4, <2>8, <2>9, <2>10, Keeps DEF gatewayVars, Pumping, Holding
  <2>12. Clock' /\ WalletsSound' /\ SourcesSound'
    BY <1>2, Rests DEF gatewayVars, serviceVars
  <2> QED
    BY <2>11, <2>12 DEF AccessInv
<1> QED
  BY <1>3, <1>4

\* The new token is cached and used, and the mutex is given back.
LEMMA RefreshStep ==
    ASSUME AccessInv, NEW r \in Requests, Refresh(r), UNCHANGED gatewayVars
    PROVE  AccessInv'
<1>1. PICK x : x = req[r]
  OBVIOUS
<1>2. PICK c : c = Rec(x, "enqueue", x.token, x.since, x.legs, x.loops, x.reply, x.status)
  OBVIOUS
<1>3. /\ x.kind = "webhook" /\ x.step = "issued" /\ Goto(r, "enqueue")
      /\ source' = [source EXCEPT ![x.who] = [holder |-> NoRequest, token |-> x.token]]
      /\ mix' = mix /\ now' = now /\ faults' = faults /\ tasks' = tasks
  BY <1>1 DEF Refresh, At
<1>4. Became(r, c)
  BY <1>1, <1>2, <1>3, Moves DEF Goto, AccessInv
<1>5. /\ x.since <= now /\ Placed(x) /\ HookSound(x, now)
      /\ x.reply = 0 /\ x.status = Blank /\ x.who \in Tenants
      /\ OfService(x.token, x.who) /\ x.since + RefreshBefore < x.token.exp
  BY <1>1, <1>3, RequestFacts DEF Placed, HookSound
<1>6. /\ c \in RequestState /\ c.kind = "webhook" /\ c.step = "enqueue"
      /\ c.who = x.who /\ c.since = x.since /\ c.token = x.token /\ c.reply = 0
      /\ c.status = Blank
  <2>1. "enqueue" \in Steps
    BY DEF Steps
  <2>2. /\ x \in RequestState /\ x.token \in Token \cup {NoToken} /\ x.since \in Nat
        /\ x.legs \in SUBSET Legs /\ x.loops \in SUBSET Legs
        /\ x.reply \in Nat /\ x.status \in Statuses
    BY <1>1, RequestFacts
  <2> QED
    BY <1>2, <1>3, <1>5, <2>1, <2>2, RecFacts
<1>7. Sound(c, now)
  BY <1>5, <1>6, NoAnswer
     DEF Sound, Placed, HookSound, HttpSound, SocketSound, Holding, Pumping
<1>8. /\ AllSound' /\ req'[r] = c /\ TasksSound' /\ ConnsSound'
      /\ \A q \in Requests \ {r} : req'[q] = req[q]
  BY <1>1, <1>3, <1>4, <1>6, <1>7, Keeps DEF gatewayVars, Pumping
<1>9. Clock' /\ WalletsSound'
  BY <1>3, Rests DEF gatewayVars
<1>10. /\ source'[x.who].holder = NoRequest /\ source'[x.who].token = x.token
       /\ \A t \in Tenants \ {x.who} : source'[t] = source[t]
       /\ source' \in [Tenants -> [holder : Requests \cup {NoRequest},
                                   token : Token \cup {NoToken}]]
  BY <1>3, <1>5 DEF AccessInv, SourcesSound, OfService
<1>11. SourcesSound'
  BY <1>5, <1>10 DEF AccessInv, SourcesSound, OfService, Token, Claims
<1>12. MutexSound'
  BY <1>1, <1>3, <1>6, <1>8, <1>10, Released DEF Holding
<1> QED
  BY <1>8, <1>9, <1>11, <1>12 DEF AccessInv

\* The codes mapEnqueueError gives are no 201.
LEMMA ErrorCodes == \A e : MapEnqueueError(e) \in Nat /\ MapEnqueueError(e) # 201
BY DEF MapEnqueueError

\* A refresh that fails gives the mutex back and leaves the cached token.
LEMMA RefreshFailsStep ==
    ASSUME AccessInv, NEW r \in Requests, RefreshFails(r), UNCHANGED gatewayVars
    PROVE  AccessInv'
<1>1. PICK x : x = req[r]
  OBVIOUS
<1>2. PICK p : p = MapEnqueueError("Unauthenticated")
  OBVIOUS
<1>3. PICK c : c = Rec(x, "replied", x.token, x.since, x.legs, x.loops, p, x.status)
  OBVIOUS
<1>4. /\ x.kind = "webhook" /\ x.step \in {"refused", "issue", "issued"}
      /\ source' = [source EXCEPT ![x.who].holder = NoRequest]
      /\ faults' = faults \/ Fault
      /\ mix' = mix /\ now' = now /\ tasks' = tasks
  BY <1>1 DEF RefreshFails, At, Unlock
<1>5. Reply(r, p)
  BY <1>2, Zenon DEF RefreshFails
<1>6. Became(r, c)
  BY <1>1, <1>3, <1>5, Moves DEF Reply, AccessInv
<1>7. /\ x.since <= now /\ Placed(x) /\ HookSound(x, now)
      /\ x.status = Blank /\ x.who \in Tenants
  BY <1>1, <1>4, RequestFacts DEF Placed
<1>8. p \in Nat /\ p # 201
  BY <1>2, ErrorCodes
<1>9. /\ c \in RequestState /\ c.kind = "webhook" /\ c.step = "replied"
      /\ c.who = x.who /\ c.since = x.since /\ c.reply = p /\ c.status = Blank
  <2>1. "replied" \in Steps
    BY DEF Steps
  <2>2. /\ x \in RequestState /\ x.token \in Token \cup {NoToken} /\ x.since \in Nat
        /\ x.legs \in SUBSET Legs /\ x.loops \in SUBSET Legs
        /\ x.reply \in Nat /\ x.status \in Statuses
    BY <1>1, RequestFacts
  <2> QED
    BY <1>3, <1>4, <1>7, <1>8, <2>1, <2>2, RecFacts
<1>10. Sound(c, now)
  BY <1>7, <1>9, NoAnswer
     DEF Sound, Placed, HookSound, HttpSound, SocketSound, Holding, Pumping
<1>11. /\ AllSound' /\ req'[r] = c /\ TasksSound' /\ ConnsSound'
       /\ \A q \in Requests \ {r} : req'[q] = req[q]
  BY <1>1, <1>4, <1>6, <1>8, <1>9, <1>10, Keeps DEF gatewayVars, Pumping
<1>12. Clock' /\ WalletsSound'
  BY <1>4, Rests DEF gatewayVars
<1>13. /\ source'[x.who].holder = NoRequest
       /\ source'[x.who].token = source[x.who].token
       /\ \A t \in Tenants \ {x.who} : source'[t] = source[t]
       /\ source' \in [Tenants -> [holder : Requests \cup {NoRequest},
                                   token : Token \cup {NoToken}]]
  BY <1>4, <1>7 DEF AccessInv, SourcesSound
<1>14. SourcesSound'
  BY <1>13 DEF AccessInv, SourcesSound, OfService, Token, Claims
<1>15. MutexSound'
  BY <1>1, <1>4, <1>9, <1>11, <1>13, Released DEF Holding
<1> QED
  BY <1>11, <1>12, <1>14, <1>15 DEF AccessInv

\* The answer to a webhook; what it says of a token was so, and what it says
\* of a task is.
LEMMA EnqueueTaskStep ==
    ASSUME AccessInv, NEW r \in Requests, EnqueueTask(r), UNCHANGED gatewayVars
    PROVE  AccessInv'
<1>1. PICK x : x = req[r]
  OBVIOUS
<1>2. /\ x.kind = "webhook" /\ x.step = "enqueue"
      /\ mix' = mix /\ now' = now /\ source' = source
  BY <1>1, Zenon DEF EnqueueTask, At
<1>3. /\ x.since <= now /\ x.since \in Nat /\ Placed(x) /\ x.who \in Tenants
      /\ OfService(x.token, x.who) /\ x.since + RefreshBefore < x.token.exp
  BY <1>1, <1>2, RequestFacts DEF Placed, HookSound
<1>4. /\ x.token.claims.tenant = x.who /\ x.who \in Known
      /\ x.token # NoToken /\ x.token.key = SessionKey
  BY <1>3, NoTokenAssumption DEF OfService, Service
<1>5. PICK task : task = [request |-> r, tenant |-> x.who]
  OBVIOUS
<1>6. PICK p, u :
        /\ ReplyTo(r, p, u) /\ p \in Nat /\ u \in Statuses
        /\ faults' = faults \/ Fault
        /\ tasks' = tasks \/ tasks' = tasks \cup {task}
        /\ p = 201 => tasks' = tasks \cup {task}
        /\ u = "Unauthenticated" => MayRefuse(x.token, SessionKey)
  <2>1. tasks' = tasks \cup {[request |-> r, tenant |-> x.token.claims.tenant]} =>
            tasks' = tasks \cup {task}
    BY <1>4, <1>5
  <2>2. CASE /\ tasks' = tasks \cup {[request |-> r, tenant |-> x.token.claims.tenant]}
             /\ ReplyTo(r, 201, "OK") /\ UNCHANGED faults
    BY <2>1, <2>2 DEF Statuses
  <2>3. CASE /\ tasks' = tasks \cup {[request |-> r, tenant |-> x.token.claims.tenant]}
             /\ Fault /\ ReplyTo(r, MapEnqueueError("Unavailable"), "Unavailable")
    BY <2>1, <2>3, ErrorCodes DEF Statuses
  <2>4. CASE /\ ReplyTo(r, MapEnqueueError("InvalidArgument"), "InvalidArgument")
             /\ UNCHANGED <<tasks, faults>>
    BY <2>4, ErrorCodes DEF Statuses
  <2>5. CASE /\ MayRefuse(x.token, SessionKey)
             /\ ReplyTo(r, MapEnqueueError("Unauthenticated"), "Unauthenticated")
             /\ UNCHANGED <<tasks, faults>>
    BY <2>5, ErrorCodes DEF Statuses
  <2> QED
    BY <1>1, <2>2, <2>3, <2>4, <2>5, Zenon DEF EnqueueTask
<1>7. PICK c : c = Rec(x, "replied", x.token, x.since, x.legs, x.loops, p, u)
  OBVIOUS
<1>8. Became(r, c)
  BY <1>1, <1>6, <1>7, Moves DEF ReplyTo, AccessInv
<1>9. /\ c \in RequestState /\ c.kind = "webhook" /\ c.step = "replied"
      /\ c.who = x.who /\ c.since = x.since /\ c.reply = p /\ c.status = u
  <2>1. "replied" \in Steps
    BY DEF Steps
  <2>2. /\ x \in RequestState /\ x.token \in Token \cup {NoToken} /\ x.since \in Nat
        /\ x.legs \in SUBSET Legs /\ x.loops \in SUBSET Legs
    BY <1>1, RequestFacts
  <2> QED
    BY <1>2, <1>6, <1>7, <2>1, <2>2, RecFacts
<1>10. u = "Unauthenticated" => x.since + RefreshBefore < now + Skew
  <2>1. u = "Unauthenticated" => x.token.exp <= now + Skew
    BY <1>4, <1>6 DEF MayRefuse
  <2>2. now \in Nat /\ x.token.exp \in Nat /\ Skew \in Nat /\ RefreshBefore \in Nat
    BY <1>3, Time, Numbers DEF OfService, Token
  <2> QED
    BY <1>3, <2>1, <2>2
<1>11. Sound(c, now)
  BY <1>3, <1>9, <1>10
     DEF Sound, Placed, HookSound, HttpSound, SocketSound, Holding, Pumping
<1>12. /\ AllSound' /\ req'[r] = c /\ ConnsSound' /\ MutexSound'
       /\ \A q \in Requests \ {r} : req'[q] = req[q]
  BY <1>1, <1>2, <1>8, <1>9, <1>11, Keeps DEF gatewayVars, Pumping, Holding
<1>13. Clock' /\ WalletsSound' /\ SourcesSound'
  BY <1>2, <1>6, Rests DEF gatewayVars
<1>14. TasksSound'
  <2>1. task \in [request : Requests, tenant : Known] /\ task.request = r
        /\ task.tenant = x.who
    BY <1>4, <1>5
  <2>2. tasks \subseteq tasks' /\ \A k \in tasks' : k \in tasks \/ k = task
    BY <1>6
  <2>3. tasks' \subseteq [request : Requests, tenant : Known]
    BY <2>1, <2>2 DEF AccessInv, TasksSound
  <2>4. \A q \in Requests : req'[q].kind = req[q].kind /\ req'[q].who = req[q].who
    BY <1>1, <1>2, <1>9, <1>12
  <2>5. \A k \in tasks : k.request \in Requests
    BY DEF AccessInv, TasksSound
  <2>6. \A k \in tasks' : req'[k.request].kind = "webhook" /\ req'[k.request].who = k.tenant
    BY <1>1, <1>2, <2>1, <2>2, <2>4, <2>5 DEF AccessInv, TasksSound
  <2>7. \A q \in Requests : req'[q].kind = "webhook" /\ req'[q].reply = 201 =>
              [request |-> q, tenant |-> req'[q].who] \in tasks'
    <3>1. CASE p = 201
      BY <1>5, <1>6, <1>9, <1>12, <2>2, <3>1 DEF AccessInv, TasksSound
    <3>2. CASE p # 201
      BY <1>9, <1>12, <2>2, <3>2 DEF AccessInv, TasksSound
    <3> QED
      BY <3>1, <3>2
  <2> QED
    BY <2>3, <2>6, <2>7 DEF TasksSound
<1> QED
  BY <1>12, <1>13, <1>14 DEF AccessInv

---------------------------------------------------------------------------
\* Clients' requests.

\* A step of a client's request leaves the webhooks' part alone.
LEMMA ClientStep ==
    ASSUME AccessInv, NEW r \in Requests, NEW c, Became(r, c), Sound(c, now),
           c.kind = req[r].kind, c.who = req[r].who, c.kind # "webhook",
           UNCHANGED <<mix, now, faults, gateway, serviceVars>>
    PROVE  /\ Clock' /\ AllSound' /\ SourcesSound' /\ TasksSound' /\ MutexSound'
           /\ req'[r] = c /\ \A q \in Requests \ {r} : req'[q] = req[q]
           /\ wallet' = wallet => WalletsSound'
           /\ /\ tracked' = tracked /\ closing' \subseteq closing
              /\ c.step \in Pumping <=> req[r].step \in Pumping
              => ConnsSound'
<1>1. c.step \notin Holding /\ req[r].step \notin Holding
  BY DEF AccessInv, AllSound, Sound, Placed
<1>2. now' = now /\ tasks' = tasks /\ source' = source
  BY DEF serviceVars
<1>3. /\ AllSound' /\ TasksSound' /\ MutexSound' /\ req'[r] = c
      /\ \A q \in Requests \ {r} : req'[q] = req[q]
      /\ /\ tracked' = tracked /\ closing' \subseteq closing
         /\ c.step \in Pumping <=> req[r].step \in Pumping
         => ConnsSound'
  BY <1>1, <1>2, Keeps
<1>4. Clock' /\ SourcesSound' /\ (wallet' = wallet => WalletsSound')
  BY <1>2, Rests
<1> QED
  BY <1>3, <1>4

\* The middleware lets a request on with a token, or if it needs none.
LEMMA MiddlewareStep ==
    ASSUME AccessInv, NEW r \in Requests, Middleware(r), UNCHANGED serviceVars
    PROVE  AccessInv'
<1>1. PICK x : x = req[r]
  OBVIOUS
<1>2. x.step = "middleware" /\ UNCHANGED <<mix, now, faults, gatewayVars, serviceVars>>
  BY <1>1, Zenon DEF Middleware
<1>3. /\ x \in RequestState /\ x.token \in Token \cup {NoToken} /\ x.since \in Nat
      /\ x.legs \in SUBSET Legs /\ x.loops \in SUBSET Legs
      /\ x.reply \in Nat /\ x.status \in Statuses /\ x.since <= now /\ HttpSound(x, now)
      /\ x.kind \in {"rest", "ticket"} /\ x.status = Blank /\ x.who \in Clients
      /\ x.kind = "rest" => x.route \in Routes
      /\ x.reply = 0
  BY <1>1, <1>2, RequestFacts DEF Placed
<1>4. PICK s, p :
        /\ Became(r, Rec(x, s, x.token, x.since, x.legs, x.loops, p, x.status))
        /\ p \in Nat /\ s \in {"handler", "replied"}
        /\ s # "replied" => p = 0
        /\ s = "handler" =>
              IsExempt(x.route.method, x.route.path) \/ x.token # NoToken
  <2>1. CASE /\ \/ IsExempt(x.route.method, x.route.path)
                \/ MayVerify(x.token, SessionKey)
             /\ Goto(r, "handler")
    <3>1. Became(r, Rec(x, "handler", x.token, x.since, x.legs, x.loops, x.reply, x.status))
      BY <1>1, <2>1, Moves DEF Goto, AccessInv
    <3> QED
      BY <1>3, <2>1, <3>1 DEF MayVerify
  <2>2. CASE Reply(r, 401)
    <3>1. PICK y : y = 401
      OBVIOUS
    <3>2. Reply(r, y) /\ y \in Nat
      BY <2>2, <3>1
    <3>3. Became(r, Rec(x, "replied", x.token, x.since, x.legs, x.loops, y, x.status))
      BY <1>1, <3>2, Moves DEF Reply, AccessInv
    <3> QED
      BY <3>2, <3>3
  <2> QED
    BY <1>1, <2>1, <2>2, Zenon DEF Middleware
<1>5. PICK c : c = Rec(x, s, x.token, x.since, x.legs, x.loops, p, x.status)
  OBVIOUS
<1>6. /\ c \in RequestState /\ c.kind = x.kind /\ c.step = s
      /\ c.who = x.who /\ c.route = x.route /\ c.token = x.token /\ c.since = x.since
      /\ c.reply = p /\ c.status = Blank
  <2>1. s \in Steps
    BY <1>4 DEF Steps
  <2> QED
    BY <1>3, <1>4, <1>5, <2>1, RecFacts
<1>7. Sound(c, now)
  BY <1>3, <1>4, <1>6, NoAnswer
     DEF Sound, Placed, HookSound, HttpSound, SocketSound, Holding, Pumping
<1> QED
  BY <1>1, <1>2, <1>3, <1>4, <1>5, <1>6, <1>7, ClientStep
     DEF AccessInv, gatewayVars, Pumping

\* A client keeps what it is given.
LEMMA Given ==
    ASSUME AccessInv, NEW w \in Clients, NEW k \in Token
    PROVE  /\ wallet' = [wallet EXCEPT ![w].session = k] /\ Session(k) => WalletsSound'
           /\ wallet' = [wallet EXCEPT ![w].ticket = k] /\ Ticket(k) => WalletsSound'
<1>1. WalletsSound
  BY DEF AccessInv
<1>2. ASSUME wallet' = [wallet EXCEPT ![w].session = k], Session(k)
      PROVE  WalletsSound'
  <2>1. /\ wallet' \in [Clients -> [session : Token, ticket : Token \cup {NoToken}]]
        /\ wallet'[w].session = k /\ wallet'[w].ticket = wallet[w].ticket
        /\ \A c \in Clients \ {w} : wallet'[c] = wallet[c]
    BY <1>1, <1>2 DEF WalletsSound
  <2>2. \A c \in Clients :
          /\ Session(wallet'[c].session)
          /\ wallet'[c].ticket # NoToken => Ticket(wallet'[c].ticket)
    BY <1>1, <1>2, <2>1 DEF WalletsSound
  <2> QED
    BY <2>1, <2>2 DEF WalletsSound, Session, Ticket, Token, Claims
<1>3. ASSUME wallet' = [wallet EXCEPT ![w].ticket = k], Ticket(k)
      PROVE  WalletsSound'
  <2>1. /\ wallet' \in [Clients -> [session : Token, ticket : Token \cup {NoToken}]]
        /\ wallet'[w].ticket = k /\ wallet'[w].session = wallet[w].session
        /\ \A c \in Clients \ {w} : wallet'[c] = wallet[c]
    BY <1>1, <1>3 DEF WalletsSound
  <2>2. \A c \in Clients :
          /\ Session(wallet'[c].session)
          /\ wallet'[c].ticket # NoToken => Ticket(wallet'[c].ticket)
    BY <1>1, <1>3, <2>1 DEF WalletsSound
  <2> QED
    BY <2>1, <2>2 DEF WalletsSound, Session, Ticket, Token, Claims
<1> QED
  BY <1>2, <1>3

\* What the gateway let pass without a token the service does not refuse for
\* want of one.
LEMMA BackendStep ==
    ASSUME AccessInv, NEW r \in Requests, Backend(r), UNCHANGED serviceVars
    PROVE  AccessInv'
<1>1. PICK x : x = req[r]
  OBVIOUS
<1>2. PICK rpc : rpc = RPC(x.route.method, x.route.path)
  OBVIOUS
<1>3. /\ x.kind = "rest" /\ x.step = "handler"
      /\ UNCHANGED <<mix, now, faults, gateway, tracked, closing, serviceVars>>
  BY <1>1, Zenon DEF Backend, At
<1>4. /\ x \in RequestState /\ x.token \in Token \cup {NoToken} /\ x.since \in Nat
      /\ x.legs \in SUBSET Legs /\ x.loops \in SUBSET Legs
      /\ x.reply \in Nat /\ x.status \in Statuses /\ x.since <= now /\ HttpSound(x, now)
      /\ x.status = Blank /\ x.who \in Clients /\ x.route \in Routes
  BY <1>1, <1>3, RequestFacts DEF Placed
<1>5. now \in Nat
  BY Time
<1>6. PICK p, u :
        /\ ReplyTo(r, p, u) \/ (Reply(r, p) /\ u = x.status)
        /\ p \in Nat /\ u \in Statuses
        /\ u = "OK" => rpc \in TenantctxExemptMethods \/ x.token # NoToken
        /\ u = "Unauthenticated" =>
              rpc \notin TenantctxExemptMethods /\ MayRefuse(x.token, SessionKey)
  <2>1. CASE /\ rpc \in TenantctxExemptMethods \/ MayVerify(x.token, SessionKey)
             /\ ReplyTo(r, 200, "OK")
    <3>1. PICK p : p = 200
      OBVIOUS
    <3>2. PICK u : u = "OK"
      OBVIOUS
    <3>3. ReplyTo(r, p, u) /\ p \in Nat /\ u \in Statuses /\ u # "Unauthenticated"
      BY <2>1, <3>1, <3>2 DEF Statuses
    <3>4. rpc \in TenantctxExemptMethods \/ x.token # NoToken
      BY <2>1 DEF MayVerify
    <3> QED
      BY <3>3, <3>4
  <2>2. CASE /\ rpc \notin TenantctxExemptMethods /\ MayRefuse(x.token, SessionKey)
             /\ ReplyTo(r, 401, "Unauthenticated")
    <3>1. PICK p : p = 401
      OBVIOUS
    <3>2. PICK u : u = "Unauthenticated"
      OBVIOUS
    <3>3. ReplyTo(r, p, u) /\ p \in Nat /\ u \in Statuses /\ u # "OK"
      BY <2>2, <3>1, <3>2 DEF Statuses
    <3>4. rpc \notin TenantctxExemptMethods /\ MayRefuse(x.token, SessionKey)
      BY <2>2
    <3> QED
      BY <3>3, <3>4, Zenon
  <2>3. CASE Reply(r, 401)
    <3>1. PICK p : p = 401
      OBVIOUS
    <3>2. Reply(r, p) /\ p \in Nat
      BY <2>3, <3>1
    <3> QED
      BY <1>4, <3>2, NoAnswer
  <2> QED
    BY <1>1, <1>2, <2>1, <2>2, <2>3, Zenon DEF Backend
<1>7. PICK c : c = Rec(x, "replied", x.token, x.since, x.legs, x.loops, p, u)
  OBVIOUS
<1>8. Became(r, c)
  <2>1. ReplyTo(r, p, u) => Became(r, c)
    BY <1>1, <1>7, Moves DEF ReplyTo, AccessInv
  <2>2. Reply(r, p) /\ u = x.status => Became(r, c)
    BY <1>1, <1>7, Moves DEF Reply, AccessInv
  <2> QED
    BY <1>6, <2>1, <2>2
<1>9. /\ c \in RequestState /\ c.kind = "rest" /\ c.step = "replied"
      /\ c.who = x.who /\ c.route = x.route /\ c.token = x.token /\ c.since = x.since
      /\ c.reply = p /\ c.status = u
  <2>1. "replied" \in Steps
    BY DEF Steps
  <2> QED
    BY <1>3, <1>4, <1>6, <1>7, <2>1, RecFacts
<1>10. u = "Unauthenticated" => x.token # NoToken /\ x.token.exp <= now + Skew
  <2>1. IsExempt(x.route.method, x.route.path) <=> rpc \in TenantctxExemptMethods
    BY <1>2, <1>4, RoutesAssumption, ExemptListsAgree
  <2>2. u = "Unauthenticated" => x.token # NoToken
    BY <1>3, <1>4, <1>6, <2>1 DEF HttpSound
  <2> QED
    BY <1>3, <1>4, <1>6, <2>2 DEF HttpSound, Session, MayRefuse
<1>11. Sound(c, now)
  BY <1>2, <1>3, <1>4, <1>6, <1>9, <1>10
     DEF Sound, Placed, HookSound, HttpSound, SocketSound, Holding, Pumping
<1>12. /\ Clock' /\ AllSound' /\ SourcesSound' /\ TasksSound' /\ MutexSound'
       /\ ConnsSound' /\ (wallet' = wallet => WalletsSound')
  BY <1>1, <1>3, <1>8, <1>9, <1>11, ClientStep DEF Pumping
<1>13. WalletsSound'
  <2>1. PICK k : k = IssueToken(x.who)
    OBVIOUS
  <2>2. Session(k) /\ k \in Token
    BY <1>4, <1>5, <2>1, Issued DEF Session
  <2>3. wallet' = wallet \/ wallet' = [wallet EXCEPT ![x.who].session = k]
    BY <1>1, <2>1, Zenon DEF Backend
  <2> QED
    BY <1>4, <1>12, <2>2, <2>3, Given
<1> QED
  BY <1>12, <1>13 DEF AccessInv

\* A ticket is minted for a session.
LEMMA WsTicketStep ==
    ASSUME AccessInv, NEW r \in Requests, WsTicket(r), UNCHANGED serviceVars
    PROVE  AccessInv'
<1>1. PICK x : x = req[r]
  OBVIOUS
<1>2. /\ x.kind = "ticket" /\ x.step = "handler"
      /\ UNCHANGED <<mix, now, faults, gateway, tracked, closing, serviceVars>>
  BY <1>1, Zenon DEF WsTicket, At
<1>3. /\ x \in RequestState /\ x.token \in Token \cup {NoToken} /\ x.since \in Nat
      /\ x.legs \in SUBSET Legs /\ x.loops \in SUBSET Legs
      /\ x.reply \in Nat /\ x.status \in Statuses /\ x.since <= now /\ HttpSound(x, now)
      /\ x.status = Blank /\ x.who \in Clients
  BY <1>1, <1>2, RequestFacts DEF Placed
<1>4. PICK p \in Nat : Reply(r, p)
  <2>1. Reply(r, 200) \/ Reply(r, 401)
    BY Zenon DEF WsTicket
  <2> QED
    BY <2>1
<1>5. PICK c : c = Rec(x, "replied", x.token, x.since, x.legs, x.loops, p, x.status)
  OBVIOUS
<1>6. Became(r, c)
  BY <1>1, <1>4, <1>5, Moves DEF Reply, AccessInv
<1>7. /\ c \in RequestState /\ c.kind = "ticket" /\ c.step = "replied"
      /\ c.who = x.who /\ c.token = x.token /\ c.since = x.since /\ c.status = Blank
  <2>1. "replied" \in Steps
    BY DEF Steps
  <2> QED
    BY <1>2, <1>3, <1>5, <2>1, RecFacts
<1>8. Sound(c, now)
  BY <1>2, <1>3, <1>7, NoAnswer
     DEF Sound, Placed, HookSound, HttpSound, SocketSound, Holding, Pumping
<1>9. /\ Clock' /\ AllSound' /\ SourcesSound' /\ TasksSound' /\ MutexSound'
      /\ ConnsSound' /\ (wallet' = wallet => WalletsSound')
  BY <1>1, <1>2, <1>6, <1>7, <1>8, ClientStep DEF Pumping
<1>10. WalletsSound'
  <2>1. PICK k : k = Mint(x.token)
    OBVIOUS
  <2>2. \/ wallet' = wallet
        \/ /\ wallet' = [wallet EXCEPT ![x.who].ticket = k]
           /\ MayVerify(x.token, SessionKey)
    BY <1>1, <2>1, Zenon DEF WsTicket
  <2>3. MayVerify(x.token, SessionKey) => Session(x.token)
    BY <1>2, <1>3 DEF HttpSound, MayVerify
  <2>4. MayVerify(x.token, SessionKey) => Ticket(k) /\ k \in Token
    BY <2>1, <2>3, Minted, Time DEF AccessInv, Clock, Ticket
  <2> QED
    BY <1>3, <1>9, <2>2, <2>4, Given
<1> QED
  BY <1>9, <1>10 DEF AccessInv

---------------------------------------------------------------------------
\* WebSockets.

SocketSteps == {"verify", "dial", "accept", "track", "pump", "untrack", "replied"}

\* A change of one is sound if the time it was opened is.
LEMMA SocketSame ==
    ASSUME AccessInv, NEW r \in Requests, NEW x, x = req[r], x.kind = "ws",
           NEW c \in RequestState, c.kind = "ws", c.token = x.token,
           c.status = x.status, c.since <= now, c.step \in SocketSteps,
           c.step # "replied" => c.reply = 0 /\ x.step # "replied",
           c.legs # {} \/ c.step = "accept" =>
             c.since + 1 < x.token.login + (SessionTTL + Skew) + (TicketTTL + Skew)
    PROVE  Sound(c, now)
<1>1. Placed(x) /\ SocketSound(x)
  BY RequestFacts
<1>2. Placed(c)
  BY <1>1 DEF Placed, Holding, Pumping, SocketSteps
<1> QED
  BY <1>1, <1>2 DEF Sound, HookSound, HttpSound, SocketSound

\* What is known of a WebSocket.
LEMMA SocketFacts ==
    ASSUME AccessInv, NEW r \in Requests, NEW x, x = req[r], x.kind = "ws"
    PROVE  /\ x \in RequestState /\ x.since \in Nat /\ x.since <= now
           /\ x.token \in Token \cup {NoToken} /\ x.legs \in SUBSET Legs
           /\ x.loops \in SUBSET Legs /\ x.reply \in Nat /\ x.status \in Statuses
           /\ x.step \in Steps /\ (x.step # "replied" => x.reply = 0)
           /\ x.token # NoToken => Ticket(x.token)
           /\ x.legs # {} \/ x.step = "accept" =>
                 x.since + 1 < x.token.login + (SessionTTL + Skew) + (TicketTTL + Skew)
BY RequestFacts DEF Placed, SocketSound

\* The gateway checks a ticket before anything is opened.
LEMMA VerifyTicketStep ==
    ASSUME AccessInv, NEW r \in Requests, VerifyTicket(r), UNCHANGED serviceVars
    PROVE  AccessInv'
<1>1. PICK x : x = req[r]
  OBVIOUS
<1>2. /\ x.kind = "ws" /\ x.step = "verify"
      /\ UNCHANGED <<mix, now, faults, gatewayVars, serviceVars>>
  BY <1>1, Zenon DEF VerifyTicket, At
<1>3. /\ x \in RequestState /\ x.since <= now /\ x.reply = 0
      /\ x.legs # {} =>
            x.since + 1 < x.token.login + (SessionTTL + Skew) + (TicketTTL + Skew)
  BY <1>1, <1>2, SocketFacts
<1>4. PICK s, p :
        /\ Became(r, Rec(x, s, x.token, x.since, x.legs, x.loops, p, x.status))
        /\ s \in {"dial", "replied"} /\ p \in Nat /\ (s # "replied" => p = 0)
  <2>1. CASE Goto(r, "dial")
    <3>1. Became(r, Rec(x, "dial", x.token, x.since, x.legs, x.loops, x.reply, x.status))
      BY <1>1, <2>1, Moves DEF Goto, AccessInv
    <3> QED
      BY <1>3, <3>1
  <2>2. CASE Reply(r, 401)
    <3>1. PICK y : y = 401
      OBVIOUS
    <3>2. Reply(r, y) /\ y \in Nat
      BY <2>2, <3>1
    <3>3. Became(r, Rec(x, "replied", x.token, x.since, x.legs, x.loops, y, x.status))
      BY <1>1, <3>2, Moves DEF Reply, AccessInv
    <3> QED
      BY <3>2, <3>3
  <2> QED
    BY <2>1, <2>2, Zenon DEF VerifyTicket
<1>5. PICK c : c = Rec(x, s, x.token, x.since, x.legs, x.loops, p, x.status)
  OBVIOUS
<1>6. /\ c.kind = "ws" /\ c.step = s /\ c.who = x.who /\ c.token = x.token
      /\ c.since = x.since /\ c.legs = x.legs /\ c.reply = p /\ c.status = x.status
  BY <1>2, <1>5 DEF Rec
<1>7. c \in RequestState
  BY <1>3, <1>4, <1>5 DEF Rec, RequestState, Steps
<1>8. Sound(c, now)
  BY <1>1, <1>2, <1>3, <1>4, <1>6, <1>7, SocketSame DEF SocketSteps
<1> QED
  BY <1>1, <1>2, <1>4, <1>5, <1>6, <1>8, ClientStep DEF AccessInv, gatewayVars, Pumping

\* The gateway dials presence, and fails without a trace.
LEMMA DialStep ==
    ASSUME AccessInv, NEW r \in Requests, Dial(r), UNCHANGED serviceVars
    PROVE  AccessInv'
<1>1. PICK x : x = req[r]
  OBVIOUS
<1>2. /\ x.kind = "ws" /\ x.step = "dial"
      /\ UNCHANGED <<mix, now, faults, gatewayVars, serviceVars>>
  BY <1>1, Zenon DEF Dial, At
<1>3. /\ x \in RequestState /\ x.since <= now /\ x.since \in Nat /\ x.reply = 0
      /\ x.token # NoToken => Ticket(x.token)
      /\ x.legs \in SUBSET Legs
      /\ x.legs # {} =>
            x.since + 1 < x.token.login + (SessionTTL + Skew) + (TicketTTL + Skew)
  BY <1>1, <1>2, SocketFacts
<1>4. now \in Nat
  BY Time
<1>5. PICK s, n, l, p :
        /\ Became(r, Rec(x, s, x.token, n, l, x.loops, p, x.status))
        /\ s \in {"accept", "replied"} /\ p \in Nat /\ (s # "replied" => p = 0)
        /\ n \in Nat /\ n <= now /\ l \in SUBSET Legs
        /\ l # {} \/ s = "accept" =>
              n + 1 < x.token.login + (SessionTTL + Skew) + (TicketTTL + Skew)
  <2>1. CASE MayVerify(x.token, presence.key) /\
             req' = [req EXCEPT ![r].step = "accept", ![r].legs = {"upstream"},
                                ![r].since = now]
    <3>1. now + 1 < x.token.login + (SessionTTL + Skew) + (TicketTTL + Skew)
      <4>1. x.token # NoToken /\ now - Skew < x.token.exp
        BY <2>1, Zenon DEF MayVerify
      <4>2. /\ x.token.exp < x.token.login + (SessionTTL + Skew) + TicketTTL
            /\ x.token.exp \in Nat /\ x.token.login \in Nat
        BY <1>3, <4>1 DEF Ticket, Token
      <4> QED
        BY <1>4, <4>1, <4>2, Numbers
    <3>2. PICK l : l = {"upstream"}
      OBVIOUS
    <3>3. req' = [req EXCEPT ![r].step = "accept", ![r].legs = l, ![r].since = now]
      BY <2>1, <3>2, Zenon
    <3>4. Became(r, Rec(x, "accept", x.token, now, l, x.loops, x.reply, x.status))
      BY <1>1, <3>3, Moves DEF AccessInv
    <3>5. l \in SUBSET Legs
      BY <3>2 DEF Legs
    <3> QED
      BY <1>3, <1>4, <3>1, <3>4, <3>5
  <2>2. CASE Reply(r, 502)
    <3>1. PICK y : y = 502
      OBVIOUS
    <3>2. Reply(r, y) /\ y \in Nat
      BY <2>2, <3>1
    <3>3. Became(r, Rec(x, "replied", x.token, x.since, x.legs, x.loops, y, x.status))
      BY <1>1, <3>2, Moves DEF Reply, AccessInv
    <3> QED
      BY <1>3, <3>2, <3>3
  <2> QED
    BY <1>1, <2>1, <2>2, Zenon DEF Dial
<1>6. PICK c : c = Rec(x, s, x.token, n, l, x.loops, p, x.status)
  OBVIOUS
<1>7. /\ c.kind = "ws" /\ c.step = s /\ c.who = x.who /\ c.token = x.token
      /\ c.since = n /\ c.legs = l /\ c.reply = p /\ c.status = x.status
  BY <1>2, <1>6 DEF Rec
<1>8. c \in RequestState
  BY <1>3, <1>5, <1>6 DEF Rec, RequestState, Steps
<1>9. Sound(c, now)
  BY <1>1, <1>2, <1>5, <1>7, <1>8, SocketSame DEF SocketSteps
<1> QED
  BY <1>1, <1>2, <1>5, <1>6, <1>7, <1>9, ClientStep DEF AccessInv, gatewayVars, Pumping

\* The client's side is upgraded, or the upstream side is closed again.
LEMMA AcceptStep ==
    ASSUME AccessInv, NEW r \in Requests, Accept(r), UNCHANGED serviceVars
    PROVE  AccessInv'
<1>1. PICK x : x = req[r]
  OBVIOUS
<1>2. /\ x.kind = "ws" /\ x.step = "accept"
      /\ UNCHANGED <<mix, now, faults, gatewayVars, serviceVars>>
  BY <1>1, Zenon DEF Accept, At
<1>3. /\ x \in RequestState /\ x.since <= now /\ x.reply = 0 /\ x.legs \in SUBSET Legs
      /\ x.since + 1 < x.token.login + (SessionTTL + Skew) + (TicketTTL + Skew)
  BY <1>1, <1>2, SocketFacts
<1>4. PICK s, l :
        /\ Became(r, Rec(x, s, x.token, x.since, l, x.loops, x.reply, x.status))
        /\ s \in {"track", "replied"} /\ l \in SUBSET Legs
  <2>1. CASE req' = [req EXCEPT ![r].step = "track", ![r].legs = @ \cup {"client"}]
    <3>1. PICK l : l = x.legs \cup {"client"}
      OBVIOUS
    <3>2. req' = [req EXCEPT ![r].step = "track", ![r].legs = l]
      BY <1>1, <2>1, <3>1 DEF AccessInv, AllSound
    <3>3. Became(r, Rec(x, "track", x.token, x.since, l, x.loops, x.reply, x.status))
      BY <1>1, <3>2, Moves DEF AccessInv
    <3>4. l \in SUBSET Legs
      BY <1>3, <3>1 DEF Legs
    <3> QED
      BY <3>3, <3>4
  <2>2. CASE req' = [req EXCEPT ![r].step = "replied", ![r].legs = {}]
    <3>1. PICK l : l = {}
      OBVIOUS
    <3>2. req' = [req EXCEPT ![r].step = "replied", ![r].legs = l]
      BY <2>2, <3>1, Zenon
    <3>3. Became(r, Rec(x, "replied", x.token, x.since, l, x.loops, x.reply, x.status))
      BY <1>1, <3>2, Moves DEF AccessInv
    <3> QED
      BY <3>1, <3>3
  <2> QED
    BY <1>1, <2>1, <2>2, Zenon DEF Accept
<1>5. PICK c : c = Rec(x, s, x.token, x.since, l, x.loops, x.reply, x.status)
  OBVIOUS
<1>6. /\ c.kind = "ws" /\ c.step = s /\ c.who = x.who /\ c.token = x.token
      /\ c.since = x.since /\ c.legs = l /\ c.reply = 0 /\ c.status = x.status
  BY <1>2, <1>3, <1>5 DEF Rec
<1>7. c \in RequestState
  BY <1>3, <1>4, <1>5 DEF Rec, RequestState, Steps
<1>8. Sound(c, now)
  BY <1>1, <1>2, <1>3, <1>4, <1>6, <1>7, SocketSame DEF SocketSteps
<1> QED
  BY <1>1, <1>2, <1>4, <1>5, <1>6, <1>8, ClientStep DEF AccessInv, gatewayVars, Pumping

\* track and untrack keep Handler.conns in step with the handlers.
LEMMA TrackStep ==
    ASSUME AccessInv, NEW r \in Requests, Track(r), UNCHANGED serviceVars
    PROVE  AccessInv'
<1>1. PICK x : x = req[r]
  OBVIOUS
<1>2. PICK o : o = {"client", "upstream"}
  OBVIOUS
<1>3. /\ x.kind = "ws" /\ x.step = "track" /\ tracked' = tracked \cup {r}
      /\ UNCHANGED <<mix, now, faults, gateway, wallet, closing, serviceVars>>
  BY <1>1, Zenon DEF Track, At
<1>4. req' = [req EXCEPT ![r].step = "pump", ![r].loops = o]
  BY <1>2, Zenon DEF Track
<1>5. /\ x \in RequestState /\ x.since <= now /\ x.reply = 0 /\ x.legs \in SUBSET Legs
      /\ x.legs # {} =>
            x.since + 1 < x.token.login + (SessionTTL + Skew) + (TicketTTL + Skew)
  BY <1>1, <1>3, SocketFacts
<1>6. PICK c : c = Rec(x, "pump", x.token, x.since, x.legs, o, x.reply, x.status)
  OBVIOUS
<1>7. Became(r, c)
  BY <1>1, <1>4, <1>6, Moves DEF AccessInv
<1>8. /\ c.kind = "ws" /\ c.step = "pump" /\ c.who = x.who /\ c.token = x.token
      /\ c.since = x.since /\ c.legs = x.legs /\ c.reply = 0 /\ c.status = x.status
  BY <1>3, <1>5, <1>6 DEF Rec
<1>9. c \in RequestState
  BY <1>2, <1>5, <1>6 DEF Rec, RequestState, Steps, Legs
<1>10. Sound(c, now)
  BY <1>1, <1>3, <1>5, <1>8, <1>9, SocketSame DEF SocketSteps
<1>11. /\ Clock' /\ AllSound' /\ SourcesSound' /\ TasksSound' /\ MutexSound'
       /\ req'[r] = c /\ (\A q \in Requests \ {r} : req'[q] = req[q]) /\ WalletsSound'
  BY <1>1, <1>3, <1>7, <1>8, <1>10, ClientStep
<1>12. ConnsSound'
  BY <1>3, <1>8, <1>11 DEF AccessInv, ConnsSound, Pumping
<1> QED
  BY <1>11, <1>12 DEF AccessInv

\* Once one of the two goroutines has ended, the handler closes both legs.
LEMMA PumpStep ==
    ASSUME AccessInv, NEW r \in Requests, Pump(r), UNCHANGED serviceVars
    PROVE  AccessInv'
<1>1. PICK x : x = req[r]
  OBVIOUS
<1>2. PICK l : l = {}
  OBVIOUS
<1>3. /\ x.kind = "ws" /\ x.step = "pump"
      /\ UNCHANGED <<mix, now, faults, gatewayVars, serviceVars>>
  BY <1>1, Zenon DEF Pump, At
<1>4. req' = [req EXCEPT ![r].step = "untrack", ![r].legs = l]
  BY <1>2, Zenon DEF Pump
<1>5. x \in RequestState /\ x.since <= now /\ x.reply = 0
  BY <1>1, <1>3, SocketFacts
<1>6. PICK c : c = Rec(x, "untrack", x.token, x.since, l, x.loops, x.reply, x.status)
  OBVIOUS
<1>7. Became(r, c)
  BY <1>1, <1>4, <1>6, Moves DEF AccessInv
<1>8. /\ c.kind = "ws" /\ c.step = "untrack" /\ c.who = x.who /\ c.token = x.token
      /\ c.since = x.since /\ c.legs = {} /\ c.reply = 0 /\ c.status = x.status
  BY <1>2, <1>3, <1>5, <1>6 DEF Rec
<1>9. c \in RequestState
  BY <1>2, <1>5, <1>6 DEF Rec, RequestState, Steps, Legs
<1>10. Sound(c, now)
  BY <1>1, <1>3, <1>5, <1>8, <1>9, SocketSame DEF SocketSteps
<1> QED
  BY <1>1, <1>3, <1>7, <1>8, <1>10, ClientStep DEF AccessInv, gatewayVars, Pumping

\* The handler forgets a connection that it has closed.
LEMMA UntrackStep ==
    ASSUME AccessInv, NEW r \in Requests, Untrack(r), UNCHANGED serviceVars
    PROVE  AccessInv'
<1>1. PICK x : x = req[r]
  OBVIOUS
<1>2. /\ x.kind = "ws" /\ x.step = "untrack" /\ tracked' = tracked \ {r}
      /\ Goto(r, "replied")
      /\ UNCHANGED <<mix, now, faults, gateway, wallet, closing, serviceVars>>
  BY <1>1, Zenon DEF Untrack, At
<1>3. /\ x \in RequestState /\ x.since <= now /\ x.reply = 0
      /\ x.legs # {} =>
            x.since + 1 < x.token.login + (SessionTTL + Skew) + (TicketTTL + Skew)
  BY <1>1, <1>2, SocketFacts
<1>4. PICK c : c = Rec(x, "replied", x.token, x.since, x.legs, x.loops, x.reply, x.status)
  OBVIOUS
<1>5. Became(r, c)
  BY <1>1, <1>2, <1>4, Moves DEF Goto, AccessInv
<1>6. /\ c.kind = "ws" /\ c.step = "replied" /\ c.who = x.who /\ c.token = x.token
      /\ c.since = x.since /\ c.legs = x.legs /\ c.reply = 0 /\ c.status = x.status
  BY <1>2, <1>3, <1>4 DEF Rec
<1>7. c \in RequestState
  BY <1>3, <1>4 DEF Rec, RequestState, Steps
<1>8. Sound(c, now)
  BY <1>1, <1>2, <1>3, <1>6, <1>7, SocketSame DEF SocketSteps
<1>9. /\ Clock' /\ AllSound' /\ SourcesSound' /\ TasksSound' /\ MutexSound'
      /\ req'[r] = c /\ (\A q \in Requests \ {r} : req'[q] = req[q]) /\ WalletsSound'
  BY <1>1, <1>2, <1>5, <1>6, <1>8, ClientStep
<1>10. ConnsSound'
  BY <1>2, <1>6, <1>9 DEF AccessInv, ConnsSound, Pumping
<1> QED
  BY <1>9, <1>10 DEF AccessInv

\* Losing or closing legs and ending loops never opens anything.
LEMMA FewerLegs ==
    ASSUME AccessInv, NEW r \in Requests, NEW x, x = req[r],
           NEW l \in SUBSET x.legs, NEW o \in SUBSET x.loops,
           Became(r, Rec(x, x.step, x.token, x.since, l, o, x.reply, x.status)),
           UNCHANGED <<mix, now, faults, gateway, wallet, tracked, serviceVars>>,
           closing' \subseteq closing
    PROVE  AccessInv'
<1>1. PICK c : c = Rec(x, x.step, x.token, x.since, l, o, x.reply, x.status)
  OBVIOUS
<1>2. /\ x \in RequestState /\ x.legs \in SUBSET Legs /\ x.loops \in SUBSET Legs
      /\ x.since <= now /\ Placed(x) /\ HookSound(x, now) /\ HttpSound(x, now)
      /\ SocketSound(x)
  BY RequestFacts
<1>3. /\ c.kind = x.kind /\ c.step = x.step /\ c.who = x.who /\ c.route = x.route
      /\ c.token = x.token /\ c.since = x.since /\ c.legs = l
      /\ c.reply = x.reply /\ c.status = x.status
  BY <1>1 DEF Rec
<1>4. c \in RequestState
  BY <1>1, <1>2 DEF Rec, RequestState
<1>5. c.legs # {} => x.legs # {}
  BY <1>3
<1>6. Placed(c) /\ HookSound(c, now) /\ HttpSound(c, now)
  BY <1>2, <1>3 DEF Placed, HookSound, HttpSound
<1>7. SocketSound(c)
  BY <1>2, <1>3, <1>5 DEF SocketSound
<1>8. Sound(c, now)
  BY <1>2, <1>3, <1>4, <1>6, <1>7 DEF Sound
<1>9. now' = now /\ tasks' = tasks /\ source' = source
  BY DEF serviceVars
<1>10. AllSound' /\ TasksSound' /\ MutexSound' /\ ConnsSound'
  BY <1>1, <1>3, <1>8, <1>9, Keeps
<1>11. Clock' /\ SourcesSound' /\ WalletsSound'
  BY <1>9, Rests
<1> QED
  BY <1>10, <1>11 DEF AccessInv

\* A leg is lost, or a goroutine ends because its read or write fails.
LEMMA LegsStep ==
    ASSUME AccessInv, NEW r \in Requests, NEW leg \in {"client", "upstream"},
           LegLost(r, leg) \/ WriteFails(r, leg) \/ ReadFails(r, leg),
           UNCHANGED serviceVars
    PROVE  AccessInv'
<1>1. PICK x : x = req[r]
  OBVIOUS
<1>2. /\ UNCHANGED <<mix, now, faults, gateway, wallet, tracked, serviceVars>>
      /\ closing' = closing
  BY DEF LegLost, WriteFails, ReadFails, gatewayVars
<1>3. CASE LegLost(r, leg)
  <2>1. PICK l : l = x.legs \ {leg}
    OBVIOUS
  <2>2. req' = [req EXCEPT ![r].legs = l]
    BY <1>1, <1>3, <2>1 DEF LegLost
  <2>3. Became(r, Rec(x, x.step, x.token, x.since, l, x.loops, x.reply, x.status))
    BY <1>1, <2>2, Moves DEF AccessInv
  <2> QED
    BY <1>1, <1>2, <2>1, <2>3, FewerLegs
<1>4. CASE WriteFails(r, leg) \/ ReadFails(r, leg)
  <2>1. PICK o : o = x.loops \ {leg}
    OBVIOUS
  <2>2. req' = [req EXCEPT ![r].loops = o]
    BY <1>1, <1>4, <2>1 DEF WriteFails, ReadFails
  <2>3. Became(r, Rec(x, x.step, x.token, x.since, x.legs, o, x.reply, x.status))
    BY <1>1, <2>2, Moves DEF AccessInv
  <2> QED
    BY <1>1, <1>2, <2>1, <2>3, FewerLegs
<1> QED
  BY <1>3, <1>4

\* Shutdown closes the connections of its copy one after the other.
LEMMA CloseNextStep ==
    ASSUME AccessInv, NEW r \in Requests, CloseNext(r), UNCHANGED serviceVars
    PROVE  AccessInv'
<1>1. PICK x : x = req[r]
  OBVIOUS
<1>2. PICK l : l = {}
  OBVIOUS
<1>3. req' = [req EXCEPT ![r].legs = l]
  BY <1>2, Zenon DEF CloseNext
<1>4. /\ UNCHANGED <<mix, now, faults, gateway, wallet, tracked, serviceVars>>
      /\ closing' \subseteq closing
  BY DEF CloseNext
<1>5. Became(r, Rec(x, x.step, x.token, x.since, l, x.loops, x.reply, x.status))
  BY <1>1, <1>3, Moves DEF AccessInv
<1> QED
  BY <1>1, <1>2, <1>4, <1>5, FewerLegs

---------------------------------------------------------------------------
\* The processes.

\* Steps of many requests that keep who each is.
LEMMA Together ==
    ASSUME AccessInv, now' = now, req' = [q \in Requests |-> req'[q]],
           \A q \in Requests :
              /\ Sound(req'[q], now)
              /\ req'[q].kind = req[q].kind /\ req'[q].who = req[q].who
              /\ req'[q].reply = req[q].reply
    PROVE  AllSound' /\ (tasks' = tasks => TasksSound')
<1>1. DOMAIN req' = Requests
  OBVIOUS
<1>2. \A q \in Requests : Sound(req'[q], now')
  OBVIOUS
<1>3. AllSound'
  BY <1>1, <1>2 DEF AllSound, Sound, Placed, HookSound, HttpSound, SocketSound,
     Session, OfService, Ticket
<1>4. tasks' = tasks => TasksSound'
  BY DEF AccessInv, TasksSound
<1> QED
  BY <1>3, <1>4

\* The digital channels gateway stops: every webhook is over, every mutex free.
LEMMA DigitalStopsStep ==
    ASSUME AccessInv, DigitalStops, UNCHANGED gatewayVars
    PROVE  AccessInv'
<1>1. /\ Fault /\ source' = [t \in Tenants |-> NewTokenSource]
      /\ req' = [q \in Requests |->
                   IF req[q].kind = "webhook" THEN [req[q] EXCEPT !.step = "replied"]
                   ELSE req[q]]
      /\ mix' = mix /\ now' = now /\ tasks' = tasks
  BY DEF DigitalStops
<1>2. ASSUME NEW q \in Requests
      PROVE  /\ Sound(req'[q], now)
             /\ req'[q].kind = req[q].kind /\ req'[q].who = req[q].who
             /\ req'[q].reply = req[q].reply
             /\ req'[q].step \notin Holding
             /\ req'[q].step \in Pumping <=> req[q].step \in Pumping
  <2>1. PICK x : x = req[q]
    OBVIOUS
  <2>2. /\ x \in RequestState /\ x.since <= now /\ Placed(x) /\ HookSound(x, now)
        /\ HttpSound(x, now) /\ SocketSound(x) /\ Sound(x, now)
    BY <2>1, RequestFacts DEF AccessInv, AllSound
  <2>3. CASE x.kind = "webhook"
    <3>1. PICK c : c = [x EXCEPT !.step = "replied"]
      OBVIOUS
    <3>2. req'[q] = c
      BY <1>1, <2>1, <2>3, <3>1
    <3>3. /\ c \in RequestState /\ c.kind = x.kind /\ c.step = "replied"
          /\ c.who = x.who /\ c.route = x.route /\ c.since = x.since
          /\ c.token = x.token /\ c.legs = x.legs /\ c.reply = x.reply
          /\ c.status = x.status
      BY <2>2, <3>1 DEF RequestState, Steps
    <3>4. Sound(c, now)
      BY <2>2, <2>3, <3>3
         DEF Sound, Placed, HookSound, HttpSound, SocketSound, Holding, Pumping
    <3> QED
      BY <2>1, <2>2, <2>3, <3>2, <3>3, <3>4 DEF Placed, Holding, Pumping
  <2>4. CASE x.kind # "webhook"
    <3>1. req'[q] = x
      BY <1>1, <2>1, <2>4
    <3> QED
      BY <2>1, <2>2, <2>4, <3>1 DEF Placed, Holding, Pumping
  <2> QED
    BY <2>3, <2>4
<1>3. req' = [q \in Requests |-> req'[q]]
  BY <1>1
<1>4. AllSound' /\ TasksSound'
  BY <1>1, <1>2, <1>3, Together
<1>5. Clock' /\ WalletsSound'
  BY <1>1, Rests DEF gatewayVars
<1>6. \A t \in Tenants : source'[t].holder = NoRequest /\ source'[t].token = NoToken
  BY <1>1 DEF NewTokenSource
<1>7. SourcesSound'
  <2>1. source' \in [Tenants -> [holder : Requests \cup {NoRequest},
                                 token : Token \cup {NoToken}]]
    BY <1>1 DEF NewTokenSource
  <2> QED
    BY <1>6, <2>1 DEF SourcesSound, OfService, Token, Claims
<1>8. MutexSound'
  BY <1>2, <1>6 DEF MutexSound, Holding
<1>9. ConnsSound'
  BY <1>2 DEF AccessInv, ConnsSound, Pumping, gatewayVars
<1> QED
  BY <1>4, <1>5, <1>7, <1>8, <1>9 DEF AccessInv

\* The API gateway goes down: no connection is left.
LEMMA GatewayDownStep ==
    ASSUME AccessInv, GatewayDown, faults' = faults \/ Fault, UNCHANGED serviceVars
    PROVE  AccessInv'
<1>1. /\ gateway' = [gateway EXCEPT !.phase = "down"]
      /\ tracked' = {} /\ closing' = {}
      /\ mix' = mix /\ now' = now /\ wallet' = wallet /\ tasks' = tasks
      /\ source' = source
  BY Zenon DEF GatewayDown, serviceVars
<1>2. req' = [q \in Requests |->
                 IF req[q].kind \in {"rest", "ticket", "ws"}
                 THEN [req[q] EXCEPT !.step = "replied", !.legs = {}, !.loops = {}]
                 ELSE req[q]]
  BY Zenon DEF GatewayDown
<1>3. ASSUME NEW q \in Requests
      PROVE  /\ Sound(req'[q], now)
             /\ req'[q].kind = req[q].kind /\ req'[q].who = req[q].who
             /\ req'[q].reply = req[q].reply
             /\ req'[q].step \in Holding <=> req[q].step \in Holding
             /\ req'[q].step \notin Pumping
  <2>1. PICK x : x = req[q]
    OBVIOUS
  <2>2. /\ x \in RequestState /\ x.since <= now /\ Placed(x) /\ HookSound(x, now)
        /\ HttpSound(x, now) /\ SocketSound(x) /\ Sound(x, now)
    BY <2>1, RequestFacts DEF AccessInv, AllSound
  <2>3. CASE x.kind \in {"rest", "ticket", "ws"}
    <3>1. PICK a : a = [x EXCEPT !.step = "replied"]
      OBVIOUS
    <3>2. a = Rec(x, "replied", x.token, x.since, x.legs, x.loops, x.reply, x.status)
      BY <2>2, <3>1 DEF Rec, RequestState
    <3>3. PICK b : b = [a EXCEPT !.legs = {}]
      OBVIOUS
    <3>4. b = Rec(x, "replied", x.token, x.since, {}, x.loops, x.reply, x.status)
      BY <3>2, <3>3 DEF Rec
    <3>5. PICK c : c = [b EXCEPT !.loops = {}]
      OBVIOUS
    <3>6. c = Rec(x, "replied", x.token, x.since, {}, {}, x.reply, x.status)
      BY <3>4, <3>5 DEF Rec
    <3>7. c = [x EXCEPT !.step = "replied", !.legs = {}, !.loops = {}]
      BY <3>1, <3>3, <3>5, Zenon
    <3>8. req'[q] = [req[q] EXCEPT !.step = "replied", !.legs = {}, !.loops = {}]
      BY <1>2, <2>1, <2>3, Zenon
    <3>9. req'[q] = c
      BY <2>1, <3>7, <3>8, Zenon
    <3>10. /\ c \in RequestState /\ c.kind = x.kind /\ c.step = "replied"
           /\ c.who = x.who /\ c.route = x.route /\ c.since = x.since
           /\ c.token = x.token /\ c.legs = {} /\ c.reply = x.reply
           /\ c.status = x.status
      BY <2>2, <3>6 DEF RequestState, Steps, Rec
    <3>11. Sound(c, now)
      BY <2>2, <2>3, <3>10
         DEF Sound, Placed, HookSound, HttpSound, SocketSound, Holding, Pumping
    <3> QED
      BY <2>1, <2>2, <2>3, <3>9, <3>10, <3>11 DEF Placed, Holding, Pumping
  <2>4. CASE x.kind \notin {"rest", "ticket", "ws"}
    <3>1. req'[q] = x
      BY <1>2, <2>1, <2>4, Zenon
    <3> QED
      BY <2>1, <2>2, <2>4, <3>1 DEF Placed, Holding, Pumping
  <2> QED
    BY <2>3, <2>4
<1>4. req' = [q \in Requests |-> req'[q]]
  BY <1>2
<1>5. AllSound' /\ TasksSound'
  BY <1>1, <1>3, <1>4, Together
<1>6. gateway' \in GatewayState
  BY <1>1 DEF AccessInv, Clock, GatewayState
<1>7. Clock' /\ WalletsSound' /\ SourcesSound'
  BY <1>1, <1>6, Rests
<1>8. MutexSound'
  <2>1. \A t \in Tenants : source[t].holder # NoRequest => source[t].holder \in Requests
    BY DEF AccessInv, SourcesSound
  <2> QED
    BY <1>1, <1>3, <2>1 DEF AccessInv, MutexSound, Holding
<1>9. ConnsSound'
  BY <1>1, <1>3 DEF ConnsSound, Pumping
<1> QED
  BY <1>5, <1>7, <1>8, <1>9 DEF AccessInv

\* Agent presence stops: its side of every connection is closed.
LEMMA PresenceStopsStep ==
    ASSUME AccessInv, PresenceStops, UNCHANGED serviceVars
    PROVE  AccessInv'
<1>1. /\ Fault /\ mix' = mix /\ now' = now /\ wallet' = wallet /\ tasks' = tasks
      /\ source' = source /\ gateway' = gateway /\ tracked' = tracked
      /\ closing' = closing
      /\ req' = [q \in Requests |-> [req[q] EXCEPT !.legs = @ \ {"upstream"}]]
  BY DEF PresenceStops, serviceVars
<1>2. ASSUME NEW q \in Requests
      PROVE  /\ Sound(req'[q], now)
             /\ req'[q].kind = req[q].kind /\ req'[q].who = req[q].who
             /\ req'[q].reply = req[q].reply /\ req'[q].step = req[q].step
  <2>1. PICK x : x = req[q]
    OBVIOUS
  <2>2. /\ x \in RequestState /\ x.since <= now /\ Placed(x) /\ HookSound(x, now)
        /\ HttpSound(x, now) /\ SocketSound(x) /\ x.legs \in SUBSET Legs
    BY <2>1, RequestFacts
  <2>3. PICK c : c = [x EXCEPT !.legs = x.legs \ {"upstream"}]
    OBVIOUS
  <2>4. req'[q] = c
    BY <1>1, <2>1, <2>3
  <2>5. /\ c \in RequestState /\ c.kind = x.kind /\ c.step = x.step /\ c.who = x.who
        /\ c.route = x.route /\ c.since = x.since /\ c.token = x.token
        /\ c.legs = x.legs \ {"upstream"} /\ c.reply = x.reply /\ c.status = x.status
    BY <2>2, <2>3 DEF RequestState
  <2>6. Placed(c) /\ HookSound(c, now) /\ HttpSound(c, now)
    BY <2>2, <2>5 DEF Placed, HookSound, HttpSound
  <2>7. SocketSound(c)
    <3>1. c.legs # {} => x.legs # {}
      BY <2>5
    <3> QED
      BY <2>2, <2>5, <3>1 DEF SocketSound
  <2>8. Sound(c, now)
    BY <2>2, <2>5, <2>6, <2>7 DEF Sound
  <2> QED
    BY <2>1, <2>4, <2>5, <2>8
<1>3. req' = [q \in Requests |-> req'[q]]
  BY <1>1
<1>4. AllSound' /\ TasksSound'
  BY <1>1, <1>2, <1>3, Together
<1>5. Clock' /\ WalletsSound' /\ SourcesSound'
  BY <1>1, Rests
<1>6. MutexSound'
  <2>1. \A t \in Tenants : source[t].holder # NoRequest => source[t].holder \in Requests
    BY DEF AccessInv, SourcesSound
  <2>2. /\ source' = source
        /\ \A q \in Requests : req'[q].step = req[q].step /\ req'[q].who = req[q].who
    BY <1>1, <1>2, Zenon
  <2> QED
    BY <2>1, <2>2 DEF AccessInv, MutexSound, Holding
<1>7. ConnsSound'
  BY <1>1, <1>2 DEF AccessInv, ConnsSound, Pumping
<1> QED
  BY <1>4, <1>5, <1>6, <1>7 DEF AccessInv

\* A step that leaves the requests and their tokens alone.
LEMMA Idle ==
    ASSUME AccessInv, UNCHANGED <<mix, now, req, wallet, tracked, serviceVars>>,
           faults' = faults \/ Fault, gateway' \in GatewayState,
           closing' \subseteq Requests
    PROVE  AccessInv'
<1>1. source' = source /\ tasks' = tasks
  BY DEF serviceVars
<1>2. req' = [q \in Requests |-> req'[q]]
  BY DEF AccessInv, AllSound
<1>3. \A q \in Requests : Sound(req'[q], now)
  BY DEF AccessInv, AllSound
<1>4. AllSound' /\ TasksSound'
  BY <1>1, <1>2, <1>3, Together
<1>5. Clock' /\ WalletsSound' /\ SourcesSound'
  BY <1>1, Rests
<1>6. MutexSound' /\ ConnsSound'
  BY <1>1 DEF AccessInv, MutexSound, ConnsSound, Holding, Pumping
<1> QED
  BY <1>4, <1>5, <1>6 DEF AccessInv

\* The gateway and presence stop, die and start.
LEMMA ProcessesStep ==
    ASSUME AccessInv, Processes, UNCHANGED serviceVars
    PROVE  AccessInv'
<1>0. gateway \in GatewayState /\ tracked \subseteq Requests /\ closing \subseteq Requests
  BY DEF AccessInv, Clock, ConnsSound
<1>1. CASE BeginShutdown
  <2>1. gateway' \in GatewayState
    BY <1>0, <1>1 DEF BeginShutdown, GatewayState
  <2> QED
    BY <1>0, <1>1, <2>1, Idle DEF BeginShutdown
<1>2. CASE StopListening
  <2>1. gateway' \in GatewayState
    BY <1>0, <1>2 DEF StopListening, GatewayState
  <2> QED
    BY <1>0, <1>2, <2>1, Idle DEF StopListening
<1>3. CASE GatewayExits \/ GatewayCrashes
  <2>1. GatewayDown /\ (faults' = faults \/ Fault)
    BY <1>3, Zenon DEF GatewayExits, GatewayCrashes
  <2> QED
    BY <2>1, GatewayDownStep
<1>4. CASE GatewayStarts
  <2>1. gateway' \in GatewayState
    BY <1>0, <1>4 DEF GatewayStarts, GatewayState
  <2> QED
    BY <1>0, <1>4, <2>1, Idle DEF GatewayStarts
<1>5. CASE DistributeTicketKey
  BY <1>0, <1>5, Idle DEF DistributeTicketKey
<1>6. CASE PresenceStops
  BY <1>6, PresenceStopsStep
<1>7. CASE PresenceStarts
  BY <1>0, <1>7, Idle DEF PresenceStarts
<1>8. CASE \E r \in Requests : CloseNext(r)
  BY <1>8, CloseNextStep
<1> QED
  BY <1>1, <1>2, <1>3, <1>4, <1>5, <1>6, <1>7, <1>8 DEF Processes

\* Time passes: what has run out has run out.
LEMMA TickStep ==
    ASSUME AccessInv, Tick
    PROVE  AccessInv'
<1>1. /\ now \in Nat /\ now < MaxTime[mix] /\ now' = now + 1 /\ MaxTime[mix] \in Nat
      /\ mix' = mix /\ req' = req /\ faults' = faults /\ source' = source
      /\ tasks' = tasks /\ gateway' = gateway /\ wallet' = wallet
      /\ tracked' = tracked /\ closing' = closing
  BY Time, TokensConstants DEF Tick, AccessInv, Clock, serviceVars, gatewayVars
<1>2. Clock'
  BY <1>1 DEF AccessInv, Clock, GatewayState
<1>3. \A q \in Requests : Sound(req[q], now')
  <2> SUFFICES ASSUME NEW q \in Requests
               PROVE  Sound(req[q], now')
    OBVIOUS
  <2>1. PICK x : x = req[q]
    OBVIOUS
  <2>2. /\ x \in RequestState /\ x.since \in Nat /\ x.since <= now /\ Placed(x)
        /\ HookSound(x, now) /\ HttpSound(x, now) /\ SocketSound(x)
        /\ x.token \in Token \cup {NoToken}
    BY <2>1, RequestFacts
  <2>3. HookSound(x, now')
    BY <1>1, <2>2, Numbers DEF HookSound
  <2>4. HttpSound(x, now')
    <3>1. x.token # NoToken => x.token.exp \in Nat
      BY <2>2 DEF Token
    <3> QED
      BY <1>1, <2>2, <3>1, Numbers DEF HttpSound
  <2>5. x.since <= now'
    BY <1>1, <2>2
  <2> QED
    BY <2>1, <2>2, <2>3, <2>4, <2>5 DEF Sound
<1>4. AllSound'
  <2>1. \A q \in Requests : Sound(req'[q], now')
    BY <1>1, <1>3
  <2> QED
    BY <1>1, <2>1 DEF AccessInv, AllSound, Sound, Placed, HookSound, HttpSound,
       SocketSound, Session, OfService, Ticket
<1>5. SourcesSound' /\ WalletsSound'
  BY <1>1 DEF AccessInv, SourcesSound, WalletsSound, Session, Ticket, OfService
<1>6. TasksSound' /\ MutexSound' /\ ConnsSound'
  BY <1>1 DEF AccessInv, TasksSound, MutexSound, ConnsSound, Holding, Pumping
<1> QED
  BY <1>2, <1>4, <1>5, <1>6 DEF AccessInv

---------------------------------------------------------------------------
\* The theorems.

\* At the start there are no tokens and no requests.
LEMMA InitSound ==
    ASSUME Init
    PROVE  AccessInv
<1>1. /\ mix \in Mixes /\ now = 0 /\ faults = 0 /\ req = [r \in Requests |-> New]
      /\ source = [t \in Tenants |-> NewTokenSource] /\ tasks = {}
      /\ gateway = [phase |-> "up", key |-> 1]
      /\ wallet = [c \in Clients |-> [session |-> IssueToken(c), ticket |-> NoToken]]
      /\ tracked = {} /\ closing = {}
  BY Zenon DEF Init, TokensInit, ServiceInit, GatewayInit
<1>2. Clock
  <2>1. MaxTime[mix] \in Nat /\ MaxFaults[mix] \in Nat
    BY <1>1, TokensConstants
  <2> QED
    BY <1>1, <2>1 DEF Clock, GatewayState
<1>3. PICK c : c = New
  OBVIOUS
<1>4. /\ c \in RequestState /\ c.kind = "none" /\ c.step = "new" /\ c.since = 0
      /\ c.token = NoToken /\ c.legs = {} /\ c.reply = 0 /\ c.status = Blank
  <2>1. c = Come("none", "new", Blank, Blank, NoToken)
    BY <1>3, Zenon DEF New, Come, Blank
  <2> QED
    BY <2>1 DEF Come, RequestState, Kinds, Steps, Statuses
<1>5. Sound(c, now)
  BY <1>1, <1>4, NoAnswer
     DEF Sound, Placed, HookSound, HttpSound, SocketSound, Holding, Pumping
<1>6. req = [r \in Requests |-> c]
  BY <1>1, <1>3, Zenon
<1>7. AllSound
  BY <1>5, <1>6 DEF AllSound
<1>8. SourcesSound
  BY <1>1 DEF SourcesSound, NewTokenSource
<1>9. WalletsSound
  <2>1. \A u \in Clients : Session(IssueToken(u))
    BY <1>1, Issued
  <2>2. \A u \in Clients : IssueToken(u) \in Token
    BY <2>1 DEF Session
  <2> QED
    BY <1>1, <2>1, <2>2 DEF WalletsSound
<1>10. TasksSound
  BY <1>1, <1>4, <1>6 DEF TasksSound
<1>11. MutexSound
  BY <1>1, <1>4, <1>6 DEF MutexSound, Holding, NewTokenSource
<1>12. ConnsSound
  BY <1>1, <1>4, <1>6 DEF ConnsSound, Pumping
<1> QED
  BY <1>2, <1>7, <1>8, <1>9, <1>10, <1>11, <1>12 DEF AccessInv

\* Every step keeps the invariant.
LEMMA StepSound ==
    ASSUME AccessInv, [Next]_vars
    PROVE  AccessInv'
<1>1. CASE Tick
  BY <1>1, TickStep
<1>2. CASE \E r \in Requests, t \in Tenants, complete \in BOOLEAN :
              Webhook(r, t, complete) /\ UNCHANGED gatewayVars
  BY <1>2, WebhookStep, Zenon
<1>3. CASE DigitalStops /\ UNCHANGED gatewayVars
  BY <1>3, DigitalStopsStep
<1>4. ASSUME NEW r \in Requests, Work(r)
      PROVE  AccessInv'
  <2>1. CASE Hook(r)
    BY <2>1, LockStep, CheckStep, IssueServiceTokenStep, RefreshStep,
       RefreshFailsStep, EnqueueTaskStep, Zenon DEF Hook, ServeWebhook
  <2>2. CASE Http(r)
    BY <2>2, MiddlewareStep, BackendStep, WsTicketStep, VerifyTicketStep, DialStep,
       AcceptStep, TrackStep, PumpStep, UntrackStep, Zenon DEF Http, ServeHTTP
  <2>3. CASE Loop(r)
    BY <2>3, LegsStep, Zenon DEF Loop
  <2> QED
    BY <1>4, <2>1, <2>2, <2>3 DEF Work
<1>5. CASE /\ \E r \in Requests, u \in Clients :
                 \/ TicketRequest(r, u) \/ WebSocket(r, u)
                 \/ \E route \in Routes : Rest(r, u, route)
           /\ UNCHANGED serviceVars
  BY <1>5, TicketRequestStep, WebSocketStep, RestStep, Zenon
<1>6. CASE /\ \E r \in Requests, leg \in {"client", "upstream"} :
                 LegLost(r, leg) \/ WriteFails(r, leg)
           /\ UNCHANGED serviceVars
  BY <1>6, LegsStep, Zenon
<1>7. CASE Processes /\ UNCHANGED serviceVars
  BY <1>7, ProcessesStep
<1>8. CASE UNCHANGED vars
  <2>1. /\ UNCHANGED <<mix, now, req, wallet, tracked, serviceVars, faults, gateway>>
        /\ closing' = closing
    BY <1>8 DEF vars, tokensVars, serviceVars, gatewayVars
  <2>2. gateway' \in GatewayState /\ closing' \subseteq Requests
    BY <2>1 DEF AccessInv, Clock, ConnsSound
  <2> QED
    BY <2>1, <2>2, Idle
<1> QED
  BY <1>1, <1>2, <1>3, <1>4, <1>5, <1>6, <1>7, <1>8, Zenon DEF Next

\* What the two gateways keep of requests, tokens, tasks, mutexes and
\* connections is sound, for any lifetimes, clocks and number of requests:
\* the inductive invariant.
THEOREM AccessSound == Spec => []AccessInv
<1>1. Init => AccessInv
  BY InitSound
<1>2. AccessInv /\ [Next]_vars => AccessInv'
  BY StepSound
<1> QED
  BY <1>1, <1>2, PTL DEF Spec

\* Every variable has its type, a source's mutex is with the request that works
\* with it, and Handler.conns is what pump serves (TokenSource.Token, track).
THEOREM AccessTypeCorrect == Spec => []TypeOK
<1>1. AccessInv => TypeOK
  <2> SUFFICES ASSUME AccessInv PROVE TypeOK
    OBVIOUS
  <2>1. \A r \in Requests : /\ req[r].step \in Steps
                            /\ req[r].legs \in SUBSET Legs
                            /\ req[r].loops \in SUBSET Legs /\ req[r].since <= now
    BY RequestFacts
  <2> QED
    BY <2>1 DEF AccessInv, Clock, MutexSound, ConnsSound, Holding, Pumping, Legs, TypeOK
<1> QED
  BY <1>1, AccessSound, PTL

\* The task router finds a service's token expired only if the call took
\* longer than the margin it was handed out with (TokenSource.Token).
THEOREM SlowCallsOnly == Spec => []RejectedOnlyIfSlow
<1>1. AccessInv => RejectedOnlyIfSlow
  <2> SUFFICES ASSUME AccessInv, NEW r \in Requests, At(r, "webhook", "replied"),
                      req[r].status = "Unauthenticated"
               PROVE  now + Skew > req[r].since + RefreshBefore
    BY DEF RejectedOnlyIfSlow
  <2>1. req[r].since + RefreshBefore < now + Skew /\ req[r].since \in Nat /\ now \in Nat
    BY RequestFacts, Time DEF HookSound, At
  <2> QED
    BY <2>1, Numbers
<1> QED
  BY <1>1, AccessSound, PTL

\* A webhook's task is the task of the tenant in its path, and a 201 says that
\* there is one (ServeHTTP, tokenSourceFor).
THEOREM WebhookTasksAreOwn == Spec => []TasksAreOwn
<1>1. AccessInv => TasksAreOwn
  BY DEF AccessInv, TasksSound, TasksAreOwn
<1> QED
  BY <1>1, AccessSound, PTL

\* A WebSocket is opened only while the login it goes back to is less than a
\* session and a ticket old, give or take the two clocks (Mint, Dial).
THEOREM SocketsWithinLifetime == Spec => []OpenedWithinLifetime
<1>1. AccessInv => OpenedWithinLifetime
  BY RequestFacts DEF OpenedWithinLifetime, SocketSound
<1> QED
  BY <1>1, AccessSound, PTL

\* What a service refuses after the gateway let it pass had a token that ran
\* out on the way, and what it serves without one is exempt (Middleware, the
\* interceptor).
THEOREM LayersAlwaysAgree == Spec => []LayersAgree
<1>1. AccessInv => LayersAgree
  BY RequestFacts DEF LayersAgree, HttpSound, At
<1> QED
  BY <1>1, AccessSound, PTL
=============================================================================
