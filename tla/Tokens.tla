------------------------------- MODULE Tokens -------------------------------
(***************************************************************************)
(* The signed tokens that let requests in, the time by which they expire,  *)
(* and the requests themselves.  ServiceTokens handles the webhooks of the *)
(* digital channels gateway, Gateway what comes to the API gateway; Access *)
(* puts them side by side.                                                 *)
(*                                                                         *)
(* Time is counted in ticks.  Clocks differ: a process that verifies a     *)
(* token may be Skew ticks ahead of, or behind, the one that issued it.    *)
(***************************************************************************)
EXTENDS Integers, FiniteSets

CONSTANTS
    Requests,    \* requests, numbered in the order in which they come
    Mixes,       \* what kinds of requests may come together
    SessionTTL,  \* TENANT_IDENTITY_JWT_TTL_SECONDS
    Skew,        \* the most that two clocks differ
    NoToken,
    MaxTime,     \* bound, for each mix: ticks
    MaxFaults    \* bound, for each mix: crashes, stops and failing calls

ASSUME TokensConstants ==
    /\ Requests \subseteq Nat
    /\ Mixes \subseteq [Requests -> {"webhook", "rest", "ticket", "ws", "none"}]
    /\ SessionTTL \in Nat /\ Skew \in Nat
    /\ MaxTime \in [Mixes -> Nat] /\ MaxFaults \in [Mixes -> Nat]

VARIABLES
    mix,     \* the kinds of the requests, which never change
    now,     \* the time
    req,     \* each request and how far its handler is
    faults   \* faults so far

tokensVars == <<mix, now, req, faults>>

---------------------------------------------------------------------------
\* The key tenant identity signs with; the API gateway's have numbers.
SessionKey == 0

\* Signer.Issue.  login, for the properties: when the holder last proved
\* who it is.
Issue(key, claims, ttl, login) ==
    [key |-> key, claims |-> claims, exp |-> now + ttl, login |-> login]

\* TokenIssuer.IssueToken.
IssueToken(claims) == Issue(SessionKey, claims, SessionTTL, now)

\* Verify, on a clock that is off by at most Skew: it may succeed, it may
\* fail, and close to the expiry either can happen.
MayVerify(token, key) ==
    token # NoToken /\ token.key = key /\ now - Skew < token.exp
MayRefuse(token, key) ==
    token # NoToken => (token.key # key \/ token.exp <= now + Skew)

---------------------------------------------------------------------------
\* A request.  who: the tenant of a webhook's path, the client of another.
\* since: when the token it carries was looked up, or the connection was
\* opened.  legs, loops: of a proxied WebSocket, what is open and running.
\* reply: the HTTP status; status: that of the gRPC call made for it.
New == [kind |-> "none", step |-> "new", who |-> "", route |-> "",
        token |-> NoToken, since |-> 0, legs |-> {}, loops |-> {}, reply |-> 0,
        status |-> ""]

\* Requests are alike, so they come in the order of their numbers.
Arrive(r, kind, step, who, route, token) ==
    /\ req[r] = New /\ kind = mix[r]
    /\ \A q \in Requests : q < r => req[q] # New
    /\ req' = [req EXCEPT ![r] =
          [New EXCEPT !.kind = kind, !.step = step, !.who = who, !.route = route,
                      !.token = token]]

At(r, kind, step) == req[r].kind = kind /\ req[r].step = step
Goto(r, step) == req' = [req EXCEPT ![r].step = step]
Reply(r, code) == req' = [req EXCEPT ![r].step = "replied", ![r].reply = code]
ReplyTo(r, code, status) ==
    req' = [req EXCEPT ![r].step = "replied", ![r].reply = code,
                       ![r].status = status]

Fault == faults < MaxFaults[mix] /\ faults' = faults + 1

TokensInit ==
    /\ mix \in Mixes
    /\ now = 0
    /\ req = [r \in Requests |-> New]
    /\ faults = 0
=============================================================================
