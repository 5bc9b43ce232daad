-------------------------- MODULE PresenceRegistry --------------------------
(***************************************************************************)
(* The connections of the agent presence service: the WebSocket handlers   *)
(* of every replica, the in-memory registry they share with the relay, and *)
(* the shutdown of a replica.  One step is one use of the registry's or    *)
(* the server's mutex.                                                     *)
(***************************************************************************)
EXTENDS Naturals

CONSTANTS
    Replicas,  \* processes of agent-presence
    Tenants, Agents,
    Conns,     \* connections that can be made (a bound on reconnects)
    NoConn     \* an empty entry of the registry

ASSUME PresenceConstants ==
    /\ NoConn \notin Conns
    /\ Replicas # {} /\ Tenants # {} /\ Agents # {}

VARIABLES
    phase,    \* up, draining (Shutdown has begun) or down
    conn,     \* each connection and where its ServeHTTP is
    reg,      \* Registry.conns of each replica
    tracked,  \* Server.conn of each replica
    closing,  \* connections Shutdown has still to close
    clock     \* registrations so far (history)

registryVars == <<phase, conn, reg, tracked, closing, clock>>

---------------------------------------------------------------------------
\* The key of an agent's connection: two tenants may use one agent id.
Slots == Tenants \X Agents

\* open: the socket.  ord: when it was registered, 0 if never.
Connection ==
    [at: {"unused", "accepted", "registered", "serving", "unregistered",
          "gone"},
     open: BOOLEAN, on: Replicas, slot: Slots, ord: Nat]
Unused == [at |-> "unused", open |-> FALSE,
           on |-> CHOOSE r \in Replicas : TRUE,
           slot |-> CHOOSE s \in Slots : TRUE, ord |-> 0]
EmptyRegistry == [s \in Slots |-> NoConn]

RegistryTypeOK ==
    /\ phase \in [Replicas -> {"up", "draining", "down"}]
    /\ conn \in [Conns -> Connection]
    /\ reg \in [Replicas -> [Slots -> Conns \cup {NoConn}]]
    /\ tracked \in [Replicas -> SUBSET Conns]
    /\ closing \in [Replicas -> SUBSET Conns]
    /\ clock \in Nat

RegistryInit ==
    /\ phase = [r \in Replicas |-> "up"]
    /\ conn = [c \in Conns |-> Unused]
    /\ reg = [r \in Replicas |-> EmptyRegistry]
    /\ tracked = [r \in Replicas |-> {}]
    /\ closing = [r \in Replicas |-> {}]
    /\ clock = 0

\* The entry of a connection's own slot on its own replica.
Entry(c) == reg[conn[c].on][conn[c].slot]

---------------------------------------------------------------------------
\* ServeHTTP, from the upgrade to its deferred function.

\* authenticate took tenant and agent from a verified token, and the
\* upgrade succeeded.  The listener outlives the beginning of a shutdown.
Accept(c, r, s) ==
    /\ conn[c].at = "unused" /\ phase[r] # "down"
    /\ conn' = [conn EXCEPT ![c] =
           [at |-> "accepted", open |-> TRUE, on |-> r, slot |-> s,
            ord |-> 0]]
    /\ UNCHANGED <<phase, reg, tracked, closing, clock>>

\* The newest connection takes the slot; the one it replaces is not told.
Register(c) ==
    /\ conn[c].at = "accepted"
    /\ reg' = [reg EXCEPT ![conn[c].on][conn[c].slot] = c]
    /\ clock' = clock + 1
    /\ conn' = [conn EXCEPT ![c].at = "registered", ![c].ord = clock + 1]
    /\ UNCHANGED <<phase, tracked, closing>>

\* trackConn(wc, true); the read loop begins.
Track(c) ==
    /\ conn[c].at = "registered"
    /\ conn' = [conn EXCEPT ![c].at = "serving"]
    /\ tracked' = [tracked EXCEPT ![conn[c].on] = @ \cup {c}]
    /\ UNCHANGED <<phase, reg, closing, clock>>

\* The peer closes, the network fails, or a write fails and the library
\* closes the socket.
Disconnect(c) ==
    /\ conn[c].open
    /\ conn' = [conn EXCEPT ![c].open = FALSE]
    /\ UNCHANGED <<phase, reg, tracked, closing, clock>>

\* Variants named Bug... are faults the properties must detect.
BugUnregister(c) ==
    /\ conn[c].at = "serving" /\ ~conn[c].open
    /\ conn' = [conn EXCEPT ![c].at = "unregistered"]
    /\ reg' = [reg EXCEPT ![conn[c].on][conn[c].slot] = NoConn]
    /\ UNCHANGED <<phase, tracked, closing, clock>>

\* The read loop has returned: give up the slot unless a newer connection
\* has it.
UnregisterIfCurrent(c) ==
    /\ conn[c].at = "serving" /\ ~conn[c].open
    /\ conn' = [conn EXCEPT ![c].at = "unregistered"]
    /\ reg' = IF Entry(c) = c
              THEN [reg EXCEPT ![conn[c].on][conn[c].slot] = NoConn]
              ELSE reg
    /\ UNCHANGED <<phase, tracked, closing, clock>>

\* trackConn(wc, false); the handler returns.
Untrack(c) ==
    /\ conn[c].at = "unregistered"
    /\ conn' = [conn EXCEPT ![c].at = "gone"]
    /\ tracked' = [tracked EXCEPT ![conn[c].on] = @ \ {c}]
    /\ UNCHANGED <<phase, reg, closing, clock>>

---------------------------------------------------------------------------
\* The process.

\* A signal: Shutdown copies the set of tracked connections.
BeginShutdown(r) ==
    /\ phase[r] = "up"
    /\ phase' = [phase EXCEPT ![r] = "draining"]
    /\ closing' = [closing EXCEPT ![r] = tracked[r]]
    /\ UNCHANGED <<conn, reg, tracked, clock>>

\* It closes them one after the other, without the mutex.
CloseNext(r, c) ==
    /\ c \in closing[r]
    /\ conn' = [conn EXCEPT ![c].open = FALSE]
    /\ closing' = [closing EXCEPT ![r] = @ \ {c}]
    /\ UNCHANGED <<phase, reg, tracked, clock>>

\* Nothing of a process survives it.
Dies(r) ==
    /\ phase' = [phase EXCEPT ![r] = "down"]
    /\ conn' = [c \in Conns |->
           IF conn[c].on = r /\ conn[c].at # "unused"
           THEN [conn[c] EXCEPT !.at = "gone", !.open = FALSE]
           ELSE conn[c]]
    /\ reg' = [reg EXCEPT ![r] = EmptyRegistry]
    /\ tracked' = [tracked EXCEPT ![r] = {}]
    /\ closing' = [closing EXCEPT ![r] = {}]
    /\ UNCHANGED clock

\* main returns once Shutdown has, and the servers have stopped; a
\* hijacked connection is not waited for.
Exit(r) == phase[r] = "draining" /\ closing[r] = {} /\ Dies(r)
Crash(r) == phase[r] # "down" /\ Dies(r)

Start(r) ==
    /\ phase[r] = "down"
    /\ phase' = [phase EXCEPT ![r] = "up"]
    /\ UNCHANGED <<conn, reg, tracked, closing, clock>>

---------------------------------------------------------------------------
Serve(c) == Register(c) \/ Track(c) \/ UnregisterIfCurrent(c) \/ Untrack(c)

RegistryNext ==
    \/ \E c \in Conns, r \in Replicas, s \in Slots : Accept(c, r, s)
    \/ \E c \in Conns : Serve(c) \/ Disconnect(c)
    \/ \E r \in Replicas : BeginShutdown(r) \/ Exit(r) \/ Crash(r) \/ Start(r)
    \/ \E r \in Replicas, c \in Conns : CloseNext(r, c)

RegistrySpec == RegistryInit /\ [][RegistryNext]_registryVars

---------------------------------------------------------------------------
(***************************************************************************)
(* Properties.                                                             *)
(***************************************************************************)

Holding(c) == conn[c].at \in {"registered", "serving"}
Newest(c) ==
    \A d \in Conns : /\ conn[d].on = conn[c].on
                     /\ conn[d].slot = conn[c].slot
                     => conn[d].ord <= conn[c].ord

\* Register and UnregisterIfCurrent: an entry is the newest connection its
\* agent registered with this replica, and that connection keeps the entry
\* until its own handler gives it up, however the handlers of older ones,
\* a shutdown and a crash interleave with it.
RegistryExact ==
    /\ \A c \in Conns : Holding(c) /\ Newest(c) => Entry(c) = c
    /\ \A r \in Replicas, s \in Slots, c \in Conns : reg[r][s] = c =>
          Holding(c) /\ Newest(c) /\ conn[c].on = r /\ conn[c].slot = s
=============================================================================
