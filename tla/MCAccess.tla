------------------------------ MODULE MCAccess ------------------------------
(* One user of a tenant, two tenants that exist and one that does not, and  *)
(* requests with and without a token to each kind of route.                 *)
EXTENDS Access, TLC

MCClients == {[tenant |-> "t1", sub |-> "u1"]}
Route(method, path) == [method |-> method, path |-> path]
\* What comes together, and how many faults and ticks there are then.
Bounds ==
    <<"webhook", "webhook", "webhook">> :> <<0, 2>> @@
    <<"webhook", "webhook", "none">> :> <<1, 3>> @@
    <<"webhook", "rest", "none">> :> <<0, 2>> @@
    <<"rest", "ticket", "none">> :> <<0, 4>> @@
    <<"ticket", "ws", "none">> :> <<1, 6>> @@
    <<"ticket", "ws", "ws">> :> <<0, 3>>
MCMixes == DOMAIN Bounds
MCMaxFaults == [m \in MCMixes |-> Bounds[m][1]]
MCMaxTime == [m \in MCMixes |-> Bounds[m][2]]

MCRoutes ==
    {Route("POST", <<"v1", "auth", "login">>),
     Route("GET", <<"v1", "users">>),
     Route("GET", <<"v1", "tenants", "t1">>),
     Route("POST", <<"v1", "tenants", "t1", "users">>),
     Route("POST", <<"v1", "tasks">>)}
=============================================================================
