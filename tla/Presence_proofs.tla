--------------------------- MODULE Presence_proofs ---------------------------
(***************************************************************************)
(* Proofs for the presence service, for any number of replicas, agents,    *)
(* connections and events: the registry is exact, the relay acks only what *)
(* it has published, loses nothing that is due to a connection, and writes *)
(* a copy of an event at most once.                                        *)
(***************************************************************************)
EXTENDS PresenceRelay, FiniteSets, FiniteSetTheorems, TLAPS

---------------------------------------------------------------------------
(***************************************************************************)
(* The registry.  Registrations are numbered: this is what makes "newest"  *)
(* a single connection.                                                    *)
(***************************************************************************)

Numbered ==
    /\ \A c \in Conns : conn[c].ord <= clock
    /\ \A c \in Conns : conn[c].at \in {"unused", "accepted"} => conn[c].ord = 0
    /\ \A c \in Conns : Holding(c) => conn[c].ord > 0
    /\ \A c, d \in Conns : conn[c].ord = conn[d].ord /\ conn[c].ord > 0 => c = d

RegistryInv == RegistryTypeOK /\ Numbered /\ RegistryExact

\* The record of a connection that has not been made is well typed.
LEMMA UnusedType == Unused \in Connection
<1>1. (CHOOSE r \in Replicas : TRUE) \in Replicas
  BY PresenceConstants
<1>2. PICK t \in Tenants, a \in Agents : TRUE
  BY PresenceConstants
<1>3. <<t, a>> \in Slots
  BY DEF Slots
<1>4. (CHOOSE s \in Slots : TRUE) \in Slots
  BY <1>3
<1> QED
  BY <1>1, <1>4 DEF Unused, Connection

\* At the start nothing is registered.
LEMMA RegistryInitInv == RegistryInit => RegistryInv
<1> SUFFICES ASSUME RegistryInit PROVE RegistryInv
  OBVIOUS
<1>1. RegistryTypeOK
  BY UnusedType DEF RegistryInit, RegistryTypeOK, EmptyRegistry
<1>2. \A c \in Conns : conn[c].at = "unused" /\ conn[c].ord = 0
  BY DEF RegistryInit, Unused
<1>3. Numbered
  BY <1>2 DEF Numbered, Holding, RegistryInit
<1>4. RegistryExact
  BY <1>2, PresenceConstants
     DEF RegistryExact, Holding, RegistryInit, EmptyRegistry
<1> QED
  BY <1>1, <1>3, <1>4 DEF RegistryInv

\* Steps that leave alone what the registry is judged by: who holds a slot,
\* where, since when.
SameHolders ==
    /\ reg' = reg /\ clock' = clock
    /\ \A c \in Conns :
          /\ conn'[c].on = conn[c].on /\ conn'[c].slot = conn[c].slot
          /\ conn'[c].ord = conn[c].ord
          /\ \/ conn'[c].at = conn[c].at
             \/ conn[c].at = "registered" /\ conn'[c].at = "serving"
             \/ conn[c].at = "unregistered" /\ conn'[c].at = "gone"

\* Such steps keep the invariant.
LEMMA SameHoldersKeep ==
    ASSUME RegistryInv, RegistryTypeOK', SameHolders PROVE RegistryInv'
<1>1. \A c \in Conns : Holding(c)' <=> Holding(c)
  BY DEF SameHolders, Holding
<1>2. \A c \in Conns : Newest(c)' <=> Newest(c)
  BY DEF SameHolders, Newest
<1>3. \A c \in Conns : Entry(c)' = Entry(c)
  BY DEF SameHolders, Entry
<1>4. Numbered'
  BY <1>1 DEF RegistryInv, Numbered, SameHolders
<1>5. \A r \in Replicas, s \in Slots : reg[r][s] \in Conns \cup {NoConn}
  BY DEF RegistryInv, RegistryTypeOK
<1>6. RegistryExact'
  BY <1>1, <1>2, <1>3, <1>5 DEF RegistryInv, RegistryExact, SameHolders
<1> QED
  BY <1>4, <1>6 DEF RegistryInv

\* The steps that keep all holders.
LEMMA QuietStep ==
    ASSUME RegistryInv,
           \/ UNCHANGED registryVars
           \/ \E c \in Conns : Track(c) \/ Untrack(c) \/ Disconnect(c)
           \/ \E r \in Replicas : BeginShutdown(r) \/ Start(r)
           \/ \E r \in Replicas, c \in Conns : CloseNext(r, c)
    PROVE  RegistryInv'
<1>0. RegistryTypeOK
  BY DEF RegistryInv
<1>1. CASE UNCHANGED registryVars
  <2>1. RegistryTypeOK' /\ SameHolders
    BY <1>0, <1>1 DEF RegistryTypeOK, SameHolders, registryVars
  <2> QED
    BY <2>1, SameHoldersKeep
<1>2. ASSUME NEW c \in Conns, Track(c) PROVE RegistryInv'
  <2>1. RegistryTypeOK' /\ SameHolders
    BY <1>0, <1>2 DEF RegistryTypeOK, SameHolders, Track, Connection
  <2> QED
    BY <2>1, SameHoldersKeep
<1>3. ASSUME NEW c \in Conns, Untrack(c) PROVE RegistryInv'
  <2>1. RegistryTypeOK' /\ SameHolders
    BY <1>0, <1>3 DEF RegistryTypeOK, SameHolders, Untrack, Connection
  <2> QED
    BY <2>1, SameHoldersKeep
<1>4. ASSUME NEW c \in Conns, Disconnect(c) PROVE RegistryInv'
  <2>1. RegistryTypeOK' /\ SameHolders
    BY <1>0, <1>4 DEF RegistryTypeOK, SameHolders, Disconnect, Connection
  <2> QED
    BY <2>1, SameHoldersKeep
<1>5. ASSUME NEW r \in Replicas, BeginShutdown(r) PROVE RegistryInv'
  <2>1. RegistryTypeOK' /\ SameHolders
    BY <1>0, <1>5 DEF RegistryTypeOK, SameHolders, BeginShutdown
  <2> QED
    BY <2>1, SameHoldersKeep
<1>6. ASSUME NEW r \in Replicas, Start(r) PROVE RegistryInv'
  <2>1. RegistryTypeOK' /\ SameHolders
    BY <1>0, <1>6 DEF RegistryTypeOK, SameHolders, Start
  <2> QED
    BY <2>1, SameHoldersKeep
<1>7. ASSUME NEW r \in Replicas, NEW c \in Conns, CloseNext(r, c)
      PROVE  RegistryInv'
  <2>1. RegistryTypeOK'
    <3>1. conn' \in [Conns -> Connection]
      <4>1. conn' = [conn EXCEPT ![c] = [conn[c] EXCEPT !.open = FALSE]]
        BY <1>7 DEF CloseNext
      <4>2. conn[c] \in Connection
        BY <1>0 DEF RegistryTypeOK
      <4>3. [conn[c] EXCEPT !.open = FALSE] \in Connection
        BY <4>2 DEF Connection
      <4> QED
        BY <4>1, <4>3, <1>0 DEF RegistryTypeOK
    <3>2. closing' \in [Replicas -> SUBSET Conns]
      BY <1>0, <1>7 DEF RegistryTypeOK, CloseNext
    <3> QED
      BY <3>1, <3>2, <1>0, <1>7 DEF RegistryTypeOK, CloseNext
  <2>2. SameHolders
    BY <1>0, <1>7 DEF RegistryTypeOK, SameHolders, CloseNext, Connection
  <2> QED
    BY <2>1, <2>2, SameHoldersKeep
<1> QED
  BY <1>1, <1>2, <1>3, <1>4, <1>5, <1>6, <1>7

\* A new connection is nobody's entry and has no number.
LEMMA AcceptStep ==
    ASSUME RegistryInv, NEW c \in Conns, NEW r \in Replicas, NEW s \in Slots,
           Accept(c, r, s)
    PROVE  RegistryInv'
<1> USE DEF RegistryInv, RegistryTypeOK
<1>1. RegistryTypeOK'
  BY DEF Accept, Connection
<1>2. conn'[c] = [at |-> "accepted", open |-> TRUE, on |-> r, slot |-> s,
                  ord |-> 0]
  BY DEF Accept
<1>3. \A d \in Conns : d # c => conn'[d] = conn[d]
  BY DEF Accept
<1>4. conn[c].at = "unused" /\ conn[c].ord = 0 /\ ~Holding(c)
  BY DEF Accept, Numbered, Holding
<1>5. \A d \in Conns : /\ Holding(d)' <=> Holding(d)
                       /\ Holding(d) => d # c
  BY <1>2, <1>3, <1>4 DEF Holding
<1>6. Numbered'
  <2>1. \A d \in Conns : conn'[d].ord = conn[d].ord /\ clock' = clock
    BY <1>2, <1>3, <1>4 DEF Accept
  <2>2. \A d \in Conns : conn'[d].at \in {"unused", "accepted"} =>
           conn'[d].ord = 0
    BY <1>2, <1>3 DEF Numbered
  <2>3. \A d \in Conns : Holding(d)' => conn'[d].ord > 0
    BY <2>1, <1>5 DEF Numbered
  <2> QED
    BY <2>1, <2>2, <2>3 DEF Numbered
<1>7. \A d \in Conns : Holding(d) => conn[d].ord \in Nat /\ conn[d].ord > 0
  BY DEF Numbered, Connection
<1>8. ASSUME NEW d \in Conns, Holding(d) PROVE Newest(d)' <=> Newest(d)
  <2>1. d # c /\ conn'[d] = conn[d] /\ conn[d].ord \in Nat
    BY <1>3, <1>5, <1>7, <1>8
  <2>2. conn'[c].ord = 0 /\ conn[c].ord = 0
    BY <1>2, <1>4
  <2>3. ASSUME NEW x \in Conns
        PROVE  /\ x # c => conn'[x] = conn[x]
               /\ x = c => /\ conn'[x].ord <= conn'[d].ord
                           /\ conn[x].ord <= conn[d].ord
    BY <2>1, <2>2, <1>3
  <2> QED
    BY <2>1, <2>3 DEF Newest
<1>9. \A d \in Conns : Holding(d) => Entry(d)' = Entry(d)
  BY <1>3, <1>5 DEF Entry, Accept
<1>10. \A q \in Replicas, z \in Slots : reg[q][z] \in Conns \cup {NoConn}
  OBVIOUS
<1>11. RegistryExact'
  BY <1>3, <1>5, <1>8, <1>9, <1>10 DEF RegistryExact, Accept
<1> QED
  BY <1>1, <1>6, <1>11

\* The newest connection takes the slot, and whoever had it is no longer
\* the newest.
LEMMA RegisterStep ==
    ASSUME RegistryInv, NEW c \in Conns, Register(c) PROVE RegistryInv'
<1> USE DEF RegistryInv, RegistryTypeOK
<1> DEFINE r == conn[c].on
           s == conn[c].slot
<1>1. r \in Replicas /\ s \in Slots
  BY DEF Connection
<1>2. RegistryTypeOK'
  <2>1. conn' \in [Conns -> Connection]
    <3>1. conn' = [conn EXCEPT ![c] =
                     [conn[c] EXCEPT !.at = "registered", !.ord = clock + 1]]
      BY DEF Register
    <3>2. conn[c] \in Connection /\ clock + 1 \in Nat
      OBVIOUS
    <3>3. [conn[c] EXCEPT !.at = "registered", !.ord = clock + 1]
              \in Connection
      BY <3>2 DEF Connection
    <3> QED
      BY <3>1, <3>3
  <2>2. reg' \in [Replicas -> [Slots -> Conns \cup {NoConn}]]
    BY <1>1 DEF Register
  <2> QED
    BY <2>1, <2>2 DEF Register
<1>3. /\ conn'[c].at = "registered" /\ conn'[c].ord = clock + 1
      /\ conn'[c].on = r /\ conn'[c].slot = s
  BY DEF Register, Connection
<1>4. \A d \in Conns : d # c => conn'[d] = conn[d]
  BY DEF Register
<1>5. \A q \in Replicas, z \in Slots :
         reg'[q][z] = IF q = r /\ z = s THEN c ELSE reg[q][z]
  BY <1>1 DEF Register
<1>6. \A d \in Conns : conn[d].ord \in Nat /\ conn[d].ord <= clock
  BY DEF Numbered, Connection
<1>7. clock' = clock + 1 /\ clock \in Nat
  BY DEF Register
<1>8. Numbered'
  BY <1>3, <1>4, <1>6, <1>7 DEF Numbered, Holding
<1>9. Newest(c)' /\ Holding(c)' /\ Entry(c)' = c
  BY <1>1, <1>3, <1>4, <1>5, <1>6, <1>7 DEF Newest, Holding, Entry
<1>10. ASSUME NEW d \in Conns, d # c, conn[d].on = r, conn[d].slot = s
       PROVE  ~Newest(d)'
  BY <1>3, <1>4, <1>6, <1>7, <1>10 DEF Newest
<1>11. ASSUME NEW d \in Conns, d # c, ~(conn[d].on = r /\ conn[d].slot = s)
       PROVE  /\ Newest(d)' <=> Newest(d)
              /\ Holding(d)' <=> Holding(d)
              /\ Entry(d)' = Entry(d)
  <2>1. conn[d].on \in Replicas /\ conn[d].slot \in Slots
    BY DEF Connection
  <2>2. conn'[d] = conn[d]
    BY <1>4, <1>11
  <2>3. Newest(d)' <=> Newest(d)
    BY <2>2, <1>3, <1>4, <1>11 DEF Newest
  <2>4. Entry(d)' = Entry(d)
    BY <2>1, <2>2, <1>5, <1>11 DEF Entry
  <2> QED
    BY <2>2, <2>3, <2>4 DEF Holding
<1>12. \A d \in Conns : Holding(d)' /\ Newest(d)' => Entry(d)' = d
  BY <1>9, <1>10, <1>11 DEF RegistryExact
<1>13. ASSUME NEW q \in Replicas, NEW z \in Slots, NEW d \in Conns,
              reg'[q][z] = d
       PROVE  Holding(d)' /\ Newest(d)' /\ conn'[d].on = q /\ conn'[d].slot = z
  <2>1. CASE q = r /\ z = s
    <3>1. d = c
      BY <2>1, <1>5, <1>13
    <3> QED
      BY <2>1, <3>1, <1>3, <1>9
  <2>2. CASE ~(q = r /\ z = s)
    <3>1. reg[q][z] = d
      BY <2>2, <1>5, <1>13
    <3>2. Holding(d) /\ Newest(d) /\ conn[d].on = q /\ conn[d].slot = z
      BY <3>1 DEF RegistryExact
    <3>3. d # c
      BY <3>2 DEF Register, Holding
    <3> QED
      BY <2>2, <3>2, <3>3, <1>4, <1>11
  <2> QED
    BY <2>1, <2>2
<1>14. RegistryExact'
  BY <1>12, <1>13 DEF RegistryExact
<1> QED
  BY <1>2, <1>8, <1>14

\* A handler gives up its own entry, or leaves another's alone.
LEMMA UnregisterStep ==
    ASSUME RegistryInv, NEW c \in Conns, UnregisterIfCurrent(c)
    PROVE  RegistryInv'
<1> USE DEF RegistryInv, RegistryTypeOK
<1>1. conn[c].on \in Replicas /\ conn[c].slot \in Slots
  BY DEF Connection
<1>2. RegistryTypeOK'
  BY <1>1 DEF UnregisterIfCurrent, Connection
<1>3. /\ \A d \in Conns : /\ conn'[d].on = conn[d].on
                          /\ conn'[d].slot = conn[d].slot
                          /\ conn'[d].ord = conn[d].ord
                          /\ d # c => conn'[d].at = conn[d].at
      /\ conn'[c].at = "unregistered" /\ clock' = clock
  BY DEF UnregisterIfCurrent, Connection
<1>4. \A q \in Replicas, z \in Slots :
         \/ reg'[q][z] = reg[q][z] /\ reg[q][z] # c
         \/ reg'[q][z] = NoConn /\ reg[q][z] = c
            /\ q = conn[c].on /\ z = conn[c].slot
  <2>1. \A q \in Replicas, z \in Slots : reg[q][z] = c =>
           q = conn[c].on /\ z = conn[c].slot
    BY PresenceConstants DEF RegistryExact
  <2>2. CASE Entry(c) = c
    BY <2>1, <2>2, <1>1 DEF UnregisterIfCurrent, Entry
  <2>3. CASE Entry(c) # c
    BY <2>1, <2>3, <1>1 DEF UnregisterIfCurrent, Entry
  <2> QED
    BY <2>2, <2>3
<1>5. Numbered'
  BY <1>3 DEF Numbered, Holding
<1>6. \A d \in Conns : Newest(d)' <=> Newest(d)
  BY <1>3 DEF Newest
<1>7. \A d \in Conns : Holding(d)' <=> Holding(d) /\ d # c
  BY <1>3 DEF Holding
<1>8. ASSUME NEW d \in Conns, Holding(d)', Newest(d)' PROVE Entry(d)' = d
  <2>1. d # c /\ Entry(d) = d
    BY <1>6, <1>7, <1>8 DEF RegistryExact
  <2>2. conn[d].on \in Replicas /\ conn[d].slot \in Slots
    BY DEF Connection
  <2> QED
    BY <2>1, <2>2, <1>3, <1>4 DEF Entry
<1>9. ASSUME NEW q \in Replicas, NEW z \in Slots, NEW d \in Conns,
             reg'[q][z] = d
      PROVE  Holding(d)' /\ Newest(d)' /\ conn'[d].on = q /\ conn'[d].slot = z
  <2>1. reg[q][z] = d /\ d # c
    BY <1>4, <1>9, PresenceConstants
  <2> QED
    BY <2>1, <1>3, <1>6, <1>7 DEF RegistryExact
<1>10. RegistryExact'
  BY <1>8, <1>9 DEF RegistryExact
<1> QED
  BY <1>2, <1>5, <1>10

\* A process takes its connections and its registry with it.
LEMMA DiesStep ==
    ASSUME RegistryInv, NEW r \in Replicas, Dies(r) PROVE RegistryInv'
<1> USE DEF RegistryInv, RegistryTypeOK
<1>1. RegistryTypeOK'
  BY DEF Dies, Connection, EmptyRegistry
<1>2. \A d \in Conns : /\ conn'[d].on = conn[d].on
                       /\ conn'[d].slot = conn[d].slot
                       /\ conn'[d].ord = conn[d].ord
                       /\ conn[d].on # r => conn'[d].at = conn[d].at
                       /\ conn[d].on = r => conn'[d].at \in {"gone", "unused"}
                       /\ conn'[d].at = "unused" <=> conn[d].at = "unused"
                       /\ conn'[d].at = "accepted" => conn[d].at = "accepted"
  BY DEF Dies, Connection
<1>3. \A q \in Replicas, z \in Slots :
         reg'[q][z] = IF q = r THEN NoConn ELSE reg[q][z]
  BY DEF Dies, EmptyRegistry
<1>4. \A d \in Conns : /\ Newest(d)' <=> Newest(d)
                       /\ Holding(d)' <=> Holding(d) /\ conn[d].on # r
  BY <1>2 DEF Newest, Holding
<1>5. Numbered'
  <2>1. clock' = clock
    BY DEF Dies
  <2>2. \A d \in Conns : conn'[d].at \in {"unused", "accepted"} =>
           conn'[d].ord = 0
    BY <1>2 DEF Numbered
  <2>3. \A d \in Conns : Holding(d)' => conn'[d].ord > 0
    BY <1>2, <1>4 DEF Numbered
  <2> QED
    BY <2>1, <2>2, <2>3, <1>2 DEF Numbered
<1>6. \A d \in Conns : conn[d].on \in Replicas /\ conn[d].slot \in Slots
  BY DEF Connection
<1>7. \A d \in Conns : Holding(d)' /\ Newest(d)' => Entry(d)' = d
  BY <1>2, <1>3, <1>4, <1>6 DEF RegistryExact, Entry
<1>8. \A q \in Replicas, z \in Slots : reg[q][z] \in Conns \cup {NoConn}
  OBVIOUS
<1>9. RegistryExact'
  BY <1>2, <1>3, <1>4, <1>7, <1>8, PresenceConstants DEF RegistryExact
<1> QED
  BY <1>1, <1>5, <1>9

\* Every step of the registry keeps its invariant.
LEMMA RegistryStepInv ==
    ASSUME RegistryInv, [RegistryNext]_registryVars PROVE RegistryInv'
<1>1. CASE UNCHANGED registryVars
  BY <1>1, QuietStep
<1>2. ASSUME NEW c \in Conns, NEW r \in Replicas, NEW s \in Slots,
             Accept(c, r, s)
      PROVE  RegistryInv'
  BY <1>2, AcceptStep
<1>3. ASSUME NEW c \in Conns, Serve(c) \/ Disconnect(c) PROVE RegistryInv'
  BY <1>3, RegisterStep, UnregisterStep, QuietStep DEF Serve
<1>4. ASSUME NEW r \in Replicas,
             BeginShutdown(r) \/ Exit(r) \/ Crash(r) \/ Start(r)
      PROVE  RegistryInv'
  BY <1>4, DiesStep, QuietStep DEF Exit, Crash
<1>5. ASSUME NEW r \in Replicas, NEW c \in Conns, CloseNext(r, c)
      PROVE  RegistryInv'
  BY <1>5, QuietStep
<1> QED
  BY <1>1, <1>2, <1>3, <1>4, <1>5 DEF RegistryNext

---------------------------------------------------------------------------
(***************************************************************************)
(* The relay on top of the registry.                                       *)
(***************************************************************************)

\* The steps of the relay that do not touch connections.
RelayStep ==
    \/ \E s \in Slots, k \in Kinds : PublishEvent(s, k)
    \/ \E r \in Replicas, k \in Kinds, e \in Stored : Handle(r, k, e)
    \/ \E r \in Replicas, k \in Kinds : Relay(r, k)
    \/ \E r \in Replicas, t \in Tenants :
          \/ SubscribeTakesEffect(r, t) \/ Unsubscribe(r, t)
          \/ DeliverIfLocal(r, t) \/ Send(r, t)

\* The steps of connections and processes.
ConnStep ==
    \/ RegistryNext /\ UNCHANGED relayVars
    \/ \E r \in Replicas :
          /\ BeginShutdown(r)
          /\ UNCHANGED <<stream, acked, callback, seen, asked, live, inbox,
                         delivering, got, sent, copies, published,
                         due>>
          /\ faults' \in {faults, faults + 1}
    \/ \E r \in Replicas :
          (Exit(r) \/ Crash(r)) /\ Forget(r) /\ faults' \in {faults, faults + 1}

\* Every step is one or the other, and a step of the registry or none.
LEMMA StepKinds ==
    ASSUME Next
    PROVE  \/ RelayStep /\ UNCHANGED registryVars
           \/ ConnStep /\ RegistryNext
<1>1. ASSUME RelayStep PROVE UNCHANGED registryVars
  BY <1>1 DEF RelayStep, PublishEvent, Handle, Relay, Publish, PublishFails,
              Ack, SubscribeTakesEffect, Unsubscribe, DeliverIfLocal,
              Send
<1>2. ASSUME NEW c \in Conns, NEW r \in Replicas, NEW s \in Slots,
             Connect(c, r, s)
      PROVE  ConnStep /\ RegistryNext
  BY <1>2 DEF Connect, ConnStep, RegistryNext
<1>3. ASSUME NEW c \in Conns, Handler(c) \/ Lose(c)
      PROVE  ConnStep /\ RegistryNext
  BY <1>3 DEF Handler, Lose, ConnStep, RegistryNext
<1>4. ASSUME NEW r \in Replicas, NEW c \in Conns, Close(r, c)
      PROVE  ConnStep /\ RegistryNext
  BY <1>4 DEF Close, ConnStep, RegistryNext
<1>5. ASSUME NEW r \in Replicas, Signal(r) PROVE ConnStep /\ RegistryNext
  BY <1>5 DEF Signal, Fault, ConnStep, RegistryNext
<1>6. ASSUME NEW r \in Replicas, Stop(r) PROVE ConnStep /\ RegistryNext
  BY <1>6 DEF Stop, ConnStep, RegistryNext
<1>7. ASSUME NEW r \in Replicas, Fail(r) PROVE ConnStep /\ RegistryNext
  BY <1>7 DEF Fail, Fault, ConnStep, RegistryNext
<1>8. ASSUME NEW r \in Replicas, Restart(r) PROVE ConnStep /\ RegistryNext
  BY <1>8 DEF Restart, ConnStep, RegistryNext
<1> QED
  BY <1>1, <1>2, <1>3, <1>4, <1>5, <1>6, <1>7, <1>8 DEF Next, RelayStep

\* The invariant of the registry holds throughout.
LEMMA RegistryInvariant == Spec => []RegistryInv
<1>1. Init => RegistryInv
  BY RegistryInitInv DEF Init
<1>2. RegistryInv /\ [Next]_vars => RegistryInv'
  <2> SUFFICES ASSUME RegistryInv, [Next]_vars PROVE RegistryInv'
    OBVIOUS
  <2>1. CASE UNCHANGED vars
    BY <2>1, RegistryStepInv DEF vars
  <2>2. CASE Next
    BY <2>2, StepKinds, RegistryStepInv
  <2> QED
    BY <2>1, <2>2
<1> QED
  BY <1>1, <1>2, PTL DEF Spec

\* Register, UnregisterIfCurrent, Shutdown: with any number of replicas,
\* agents and connections the registry holds exactly the newest connection
\* of each agent that is still being served.
THEOREM RegistrySound == Spec => []RegistryExact
<1>1. RegistryInv => RegistryExact
  BY DEF RegistryInv
<1> QED
  BY <1>1, RegistryInvariant, PTL

---------------------------------------------------------------------------
(***************************************************************************)
(* Acks.  An event is acked by the callback that published it: the         *)
(* invariant follows the event from the stream through the callback.       *)
(***************************************************************************)

CallbackState ==
    [at: {"Idle"}] \cup [at: {"Publishing", "Acking"}, ev: Events]

AckTypeOK ==
    /\ stream \in Seq(Event) /\ Len(stream) <= MaxEvents
    /\ acked \in [Replicas -> SUBSET Events]
    /\ callback \in [Replicas -> [Kinds -> CallbackState]]
    /\ published \in [Replicas -> SUBSET Events]
    /\ copies \in [Events -> Nat]

\* A callback about to ack an event is of the process that published it.
AckingIsPublished ==
    \A r \in Replicas, k \in Kinds :
        callback[r][k].at = "Acking" => callback[r][k].ev \in published[r]

AckInv == AckTypeOK /\ AckingIsPublished /\ AckedIsPublished

\* The states a callback goes through.
LEMMA CallbackStates ==
    ASSUME NEW e \in Events
    PROVE  /\ Idle \in CallbackState /\ Idle.at = "Idle"
           /\ Publishing(e) \in CallbackState
           /\ Publishing(e).at = "Publishing"
           /\ Acking(e) \in CallbackState
           /\ Acking(e).at = "Acking" /\ Acking(e).ev = e
  BY DEF Idle, Publishing, Acking, CallbackState

\* A callback that is not idle has an event.
LEMMA CallbackEvent ==
    ASSUME NEW w \in CallbackState, w.at # "Idle"
    PROVE  w.ev \in Events
  BY DEF CallbackState

\* One callback moves and nothing published is forgotten.
LEMMA OneCallback ==
    ASSUME AckInv, NEW r \in Replicas, NEW k \in Kinds,
           NEW w \in CallbackState,
           callback' = [callback EXCEPT ![r][k] = w],
           \A q \in Replicas : published[q] \subseteq published'[q],
           w.at = "Acking" => w.ev \in published'[r]
    PROVE  /\ callback' \in [Replicas -> [Kinds -> CallbackState]]
           /\ AckingIsPublished'
<1> USE DEF AckInv, AckTypeOK
<1>1. callback' \in [Replicas -> [Kinds -> CallbackState]]
  OBVIOUS
<1>2. \A q \in Replicas, j \in Kinds :
         callback'[q][j] = IF q = r /\ j = k THEN w ELSE callback[q][j]
  OBVIOUS
<1>3. ASSUME NEW q \in Replicas, NEW j \in Kinds,
             callback[q][j].at = "Acking"
      PROVE  callback[q][j].ev \in published'[q]
  BY <1>3 DEF AckingIsPublished
<1>4. AckingIsPublished'
  BY <1>2, <1>3 DEF AckingIsPublished
<1> QED
  BY <1>1, <1>4

\* At the start nothing is published and nothing acked.
LEMMA AckInitInv == Init => AckInv
<1> SUFFICES ASSUME Init PROVE AckInv
  OBVIOUS
<1>1. Idle \in CallbackState /\ Idle.at = "Idle"
  BY DEF Idle, CallbackState
<1>2. AckTypeOK
  BY <1>1, RelayConstants DEF Init, AckTypeOK
<1>3. AckingIsPublished
  BY <1>1 DEF Init, AckingIsPublished
<1>4. AckedIsPublished
  BY DEF Init, AckedIsPublished
<1> QED
  BY <1>2, <1>3, <1>4 DEF AckInv

\* A callback takes an event of the stream.
LEMMA HandleAcks ==
    ASSUME AckInv, NEW r \in Replicas, NEW k \in Kinds, NEW e \in Stored,
           Handle(r, k, e)
    PROVE  AckInv'
<1>1. AckTypeOK /\ AckedIsPublished
  BY DEF AckInv
<1>2. UNCHANGED <<stream, acked, published, copies>>
  BY DEF Handle
<1>3. callback' = [callback EXCEPT ![r][k] = Publishing(e)]
  BY DEF Handle
<1>4. e \in Events
  BY <1>1, RelayConstants DEF AckTypeOK, Stored, Events
<1>5. Publishing(e) \in CallbackState /\ Publishing(e).at # "Acking"
  BY <1>4, CallbackStates
<1>6. \A q \in Replicas : published[q] \subseteq published'[q]
  BY <1>1, <1>2
<1>7. /\ callback' \in [Replicas -> [Kinds -> CallbackState]]
      /\ AckingIsPublished'
  BY <1>3, <1>5, <1>6, OneCallback
<1>8. AckedIsPublished'
  BY <1>1, <1>2 DEF AckedIsPublished
<1> QED
  BY <1>1, <1>2, <1>7, <1>8 DEF AckInv, AckTypeOK

\* A failed publish acks nothing.
LEMMA PublishFailsAcks ==
    ASSUME AckInv, NEW r \in Replicas, NEW k \in Kinds, PublishFails(r, k)
    PROVE  AckInv'
<1>1. AckTypeOK /\ AckedIsPublished
  BY DEF AckInv
<1>2. UNCHANGED <<stream, acked, published, copies>>
  BY DEF PublishFails
<1>3. callback' = [callback EXCEPT ![r][k] = Idle]
  BY DEF PublishFails
<1>4. Idle \in CallbackState /\ Idle.at # "Acking"
  BY DEF Idle, CallbackState
<1>5. \A q \in Replicas : published[q] \subseteq published'[q]
  BY <1>1, <1>2
<1>6. /\ callback' \in [Replicas -> [Kinds -> CallbackState]]
      /\ AckingIsPublished'
  BY <1>3, <1>4, <1>5, OneCallback
<1>7. AckedIsPublished'
  BY <1>1, <1>2 DEF AckedIsPublished
<1> QED
  BY <1>1, <1>2, <1>6, <1>7 DEF AckInv, AckTypeOK

\* A publish counts before the callback may ack.
LEMMA PublishAcks ==
    ASSUME AckInv, NEW r \in Replicas, NEW k \in Kinds, Publish(r, k)
    PROVE  AckInv'
<1> DEFINE e == callback[r][k].ev
<1>1. AckTypeOK /\ AckedIsPublished
  BY DEF AckInv
<1>2. callback[r][k] \in CallbackState /\ callback[r][k].at = "Publishing"
  BY <1>1 DEF AckTypeOK, Publish
<1>3. e \in Events
  BY <1>2, CallbackEvent
<1>4. stream' = stream /\ acked' = acked
  BY DEF Publish
<1>5. /\ published' = [published EXCEPT ![r] = @ \cup {e}]
      /\ copies' = [copies EXCEPT ![e] = @ + 1]
  BY DEF Publish, Spread
<1>6. callback' = [callback EXCEPT ![r][k] = Acking(e)]
  BY DEF Publish
<1>7. published \in [Replicas -> SUBSET Events] /\ copies \in [Events -> Nat]
  BY <1>1 DEF AckTypeOK
<1> HIDE DEF e
<1>8. /\ published' \in [Replicas -> SUBSET Events] /\ e \in published'[r]
      /\ \A q \in Replicas : published[q] \subseteq published'[q]
      /\ copies' \in [Events -> Nat]
  BY <1>3, <1>5, <1>7
<1>9. /\ Acking(e) \in CallbackState
      /\ Acking(e).at = "Acking" => Acking(e).ev \in published'[r]
  BY <1>3, <1>8, CallbackStates
<1>10. /\ callback' \in [Replicas -> [Kinds -> CallbackState]]
       /\ AckingIsPublished'
  BY <1>6, <1>8, <1>9, OneCallback
<1>11. AckedIsPublished'
  BY <1>1, <1>4, <1>8 DEF AckedIsPublished
<1> QED
  BY <1>1, <1>4, <1>8, <1>10, <1>11 DEF AckInv, AckTypeOK

\* The ack is of the event the callback has published.
LEMMA AckAcks ==
    ASSUME AckInv, NEW r \in Replicas, NEW k \in Kinds, Ack(r, k)
    PROVE  AckInv'
<1> DEFINE e == callback[r][k].ev
<1>1. AckTypeOK /\ AckedIsPublished /\ AckingIsPublished
  BY DEF AckInv
<1>2. callback[r][k] \in CallbackState /\ callback[r][k].at = "Acking"
  BY <1>1 DEF AckTypeOK, Ack
<1>3. e \in Events /\ e \in published[r]
  BY <1>1, <1>2, CallbackEvent DEF AckingIsPublished
<1>4. UNCHANGED <<stream, published, copies>>
  BY DEF Ack
<1>5. callback' = [callback EXCEPT ![r][k] = Idle]
  BY DEF Ack
<1>6. acked' = acked \/ acked' = [acked EXCEPT ![r] = @ \cup {e}]
  BY DEF Ack
<1> HIDE DEF e
<1>7. Idle \in CallbackState /\ Idle.at # "Acking"
  BY DEF Idle, CallbackState
<1>8. \A q \in Replicas : published[q] \subseteq published'[q]
  BY <1>1, <1>4
<1>9. /\ callback' \in [Replicas -> [Kinds -> CallbackState]]
      /\ AckingIsPublished'
  BY <1>5, <1>7, <1>8, OneCallback
<1>10. /\ acked' \in [Replicas -> SUBSET Events]
       /\ \A q \in Replicas :
             acked'[q] \subseteq acked[q] \cup (IF q = r THEN {e} ELSE {})
  BY <1>1, <1>3, <1>6 DEF AckTypeOK
<1>11. AckedIsPublished'
  BY <1>1, <1>3, <1>4, <1>10 DEF AckedIsPublished
<1> QED
  BY <1>1, <1>4, <1>9, <1>10, <1>11 DEF AckInv, AckTypeOK

\* A process that ends takes its callbacks and its consumers' acks along.
LEMMA ForgetAcks ==
    ASSUME AckInv, NEW r \in Replicas, Forget(r) PROVE AckInv'
<1>1. AckTypeOK /\ AckedIsPublished /\ AckingIsPublished
  BY DEF AckInv
<1>2. UNCHANGED <<stream, copies>>
  BY DEF Forget
<1>3. /\ acked' = [acked EXCEPT ![r] = {}]
      /\ published' = [published EXCEPT ![r] = {}]
  BY DEF Forget
<1>4. callback' = [callback EXCEPT ![r] = [k \in Kinds |-> Idle]]
  BY DEF Forget
<1>5. Idle \in CallbackState /\ Idle.at # "Acking"
  BY DEF Idle, CallbackState
<1>6. callback' \in [Replicas -> [Kinds -> CallbackState]]
  BY <1>1, <1>4, <1>5 DEF AckTypeOK
<1>7. \A q \in Replicas, k \in Kinds :
         callback'[q][k] = IF q = r THEN Idle ELSE callback[q][k]
  BY <1>1, <1>4 DEF AckTypeOK
<1>8. /\ acked' \in [Replicas -> SUBSET Events]
      /\ published' \in [Replicas -> SUBSET Events]
      /\ \A q \in Replicas : acked'[q] = IF q = r THEN {} ELSE acked[q]
      /\ \A q \in Replicas :
            published'[q] = IF q = r THEN {} ELSE published[q]
  BY <1>1, <1>3 DEF AckTypeOK
<1>9. AckingIsPublished'
  BY <1>1, <1>5, <1>7, <1>8 DEF AckingIsPublished
<1>10. AckedIsPublished'
  BY <1>1, <1>8 DEF AckedIsPublished
<1> QED
  BY <1>1, <1>2, <1>6, <1>8, <1>9, <1>10 DEF AckInv, AckTypeOK

\* Steps that leave the callbacks and what they published alone.
LEMMA OtherAcks ==
    ASSUME AckInv, UNCHANGED <<acked, callback, published, copies>>,
           \/ stream' = stream
           \/ \E s \in Slots, k \in Kinds : PublishEvent(s, k)
    PROVE  AckInv'
<1>1. AckTypeOK
  BY DEF AckInv
<1>2. stream' \in Seq(Event) /\ Len(stream') <= MaxEvents
  <2>1. CASE stream' = stream
    BY <1>1, <2>1 DEF AckTypeOK
  <2>2. ASSUME NEW s \in Slots, NEW k \in Kinds, PublishEvent(s, k)
        PROVE  stream' \in Seq(Event) /\ Len(stream') <= MaxEvents
    <3>1. [slot |-> s, kind |-> k] \in Event /\ stream \in Seq(Event)
      BY <1>1 DEF Event, AckTypeOK
    <3>2. /\ stream' = Append(stream, [slot |-> s, kind |-> k])
          /\ Len(stream) < MaxEvents
      BY <2>2 DEF PublishEvent
    <3> QED
      BY <3>1, <3>2, RelayConstants
  <2> QED
    BY <2>1, <2>2
<1> QED
  BY <1>1, <1>2 DEF AckInv, AckTypeOK, AckingIsPublished, AckedIsPublished

\* The invariant of the acks holds throughout.
LEMMA AckInvariant == Spec => []AckInv
<1>1. AckInv /\ [Next]_vars => AckInv'
  <2> SUFFICES ASSUME AckInv, [Next]_vars PROVE AckInv'
    OBVIOUS
  <2>1. CASE UNCHANGED vars
    BY <2>1, OtherAcks DEF vars, relayVars
  <2>2. ASSUME NEW s \in Slots, NEW k \in Kinds, PublishEvent(s, k)
        PROVE  AckInv'
    BY <2>2, OtherAcks DEF PublishEvent
  <2>3. ASSUME NEW r \in Replicas, NEW k \in Kinds, Relay(r, k)
        PROVE  AckInv'
    BY <2>3, PublishAcks, PublishFailsAcks, AckAcks DEF Relay
  <2>4. ASSUME NEW r \in Replicas, NEW t \in Tenants,
               \/ SubscribeTakesEffect(r, t) \/ Unsubscribe(r, t)
               \/ DeliverIfLocal(r, t) \/ Send(r, t)
        PROVE  AckInv'
    BY <2>4, OtherAcks
       DEF SubscribeTakesEffect, Unsubscribe, DeliverIfLocal, Send
  <2>5. CASE ConnStep
    <3>1. \/ UNCHANGED <<stream, acked, callback, published, copies>>
          \/ \E r \in Replicas : Forget(r)
      BY <2>5 DEF ConnStep, relayVars
    <3> QED
      BY <3>1, ForgetAcks, OtherAcks
  <2> QED
    BY <2>1, <2>2, <2>3, <2>4, <2>5, HandleAcks, StepKinds DEF RelayStep
<1> QED
  BY <1>1, AckInitInv, PTL DEF Spec

\* handle acks an event only once Publish has succeeded: with any number of
\* replicas, kinds and events, and whatever fails or stops in between, what
\* a replica's consumers have acked that replica itself published.
THEOREM AcksSound == Spec => []AckedIsPublished
<1>1. AckInv => AckedIsPublished
  BY DEF AckInv
<1> QED
  BY <1>1, AckInvariant, PTL

---------------------------------------------------------------------------
(***************************************************************************)
(* Delivery.  What is due to a connection is followed from the publish,    *)
(* through the subscription's channel, to the write; the registry being    *)
(* exact is what makes the lookup find the connection it is due to.        *)
(***************************************************************************)

DeliveryState == [at: {"Idle"}] \cup [at: {"Writing"}, ev: Nat, to: Conns]

DueTypeOK ==
    /\ live \in [Replicas -> [Tenants -> Nat]]
    /\ inbox \in [Replicas -> [Tenants -> Seq(Nat)]]
    /\ delivering \in [Replicas -> [Tenants -> DeliveryState]]
    /\ due \in [Conns -> SUBSET Nat]

\* What callbacks and subscriptions handle is in the stream.
HandledIsStored ==
    /\ \A r \in Replicas, k \in Kinds :
          callback[r][k].at # "Idle" => callback[r][k].ev \in Stored
    /\ \A r \in Replicas, t \in Tenants : \A i \in 1..Len(inbox[r][t]) :
          inbox[r][t][i] \in Stored

\* An event is due to a connection of its agent that has been registered.
DueIsOwn ==
    \A c \in Conns : \A e \in due[c] :
        /\ e \in Stored /\ conn[c].slot = stream[e].slot
        /\ conn[c].at \notin {"unused", "accepted"}

\* A process that is down serves nothing.
DownIsEmpty ==
    \A c \in Conns :
        phase[conn[c].on] = "down" => conn[c].at \in {"unused", "gone"}

DueInv ==
    /\ DueTypeOK /\ HandledIsStored /\ DueIsOwn /\ DownIsEmpty
    /\ DueIsDelivered

\* What an event in the stream says.
LEMMA StoredEvent ==
    ASSUME AckTypeOK, NEW e \in Stored
    PROVE  /\ stream[e] \in Event /\ stream[e].slot \in Slots
           /\ TenantOf(e) \in Tenants /\ e \in Nat
<1>1. stream \in Seq(Event) /\ e \in 1..Len(stream)
  BY DEF AckTypeOK, Stored
<1>2. stream[e] \in Event
  BY <1>1
<1>3. stream[e].slot \in Slots
  BY <1>2 DEF Event
<1>4. TenantOf(e) \in Tenants
  BY <1>3 DEF TenantOf, Slots
<1> QED
  BY <1>1, <1>2, <1>3, <1>4

\* At the start nothing is due.
LEMMA DueInitInv == Init => DueInv
<1> SUFFICES ASSUME Init PROVE DueInv
  OBVIOUS
<1>1. Idle \in DeliveryState /\ Idle.at = "Idle"
  BY DEF Idle, DeliveryState
<1>2. DueTypeOK
  BY <1>1 DEF Init, DueTypeOK
<1>3. HandledIsStored
  BY <1>1 DEF Init, HandledIsStored
<1>4. DueIsOwn /\ DueIsDelivered
  BY DEF Init, DueIsOwn, DueIsDelivered
<1>5. DownIsEmpty
  BY DEF Init, RegistryInit, DownIsEmpty, Unused
<1> QED
  BY <1>2, <1>3, <1>4, <1>5 DEF DueInv

---------------------------------------------------------------------------
\* Connections and processes.

\* A connection that has been registered stays where it is and comes by
\* nothing: it is not opened again, does not get its entry back, and its
\* process does not come up again under it.
Settles(c) ==
    conn[c].at \notin {"unused", "accepted"} =>
        /\ conn'[c].on = conn[c].on /\ conn'[c].slot = conn[c].slot
        /\ conn'[c].at \notin {"unused", "accepted"}
        /\ phase'[conn[c].on] = "up" /\ conn'[c].open /\ Entry(c)' = c =>
              phase[conn[c].on] = "up" /\ conn[c].open /\ Entry(c) = c

\* So it is in every step of the handlers and of Shutdown.
LEMMA HandlersSettle ==
    ASSUME RegistryInv, DownIsEmpty, NEW d \in Conns,
           \/ \E r \in Replicas, s \in Slots : Accept(d, r, s)
           \/ Serve(d) \/ Disconnect(d)
           \/ \E r \in Replicas : CloseNext(r, d)
    PROVE  (\A c \in Conns : Settles(c)) /\ DownIsEmpty'
<1>1. RegistryTypeOK
  BY DEF RegistryInv
<1>2. \A c \in Conns : conn[c] \in Connection /\ conn[c].on \in Replicas
                       /\ conn[c].slot \in Slots
  BY <1>1 DEF RegistryTypeOK, Connection
<1>3. ASSUME NEW r \in Replicas, NEW s \in Slots, Accept(d, r, s)
      PROVE  (\A c \in Conns : Settles(c)) /\ DownIsEmpty'
  <2>1. /\ \A c \in Conns : c # d => conn'[c] = conn[c]
        /\ conn'[d].on = r /\ conn[d].at = "unused"
        /\ phase' = phase /\ reg' = reg /\ phase[r] # "down"
    BY <1>1, <1>3 DEF Accept, RegistryTypeOK
  <2>2. DownIsEmpty'
    BY <2>1 DEF DownIsEmpty
  <2> QED
    BY <2>1, <2>2 DEF Settles, Entry
<1>4. CASE Register(d)
  <2>1. /\ \A c \in Conns : c # d => conn'[c] = conn[c]
        /\ conn'[d].on = conn[d].on /\ conn[d].at = "accepted"
        /\ phase' = phase
    BY <1>1, <1>2, <1>4 DEF Register, RegistryTypeOK, Connection
  <2>2. \A q \in Replicas, z \in Slots : reg'[q][z] \in {d, reg[q][z]}
    BY <1>1, <1>2, <1>4 DEF Register, RegistryTypeOK
  <2>3. \A c \in Conns : Settles(c)
    BY <2>1, <2>2, <1>2 DEF Settles, Entry
  <2>4. DownIsEmpty'
    BY <2>1 DEF DownIsEmpty
  <2> QED
    BY <2>3, <2>4
<1>5. CASE Track(d) \/ UnregisterIfCurrent(d) \/ Untrack(d) \/ Disconnect(d)
           \/ \E r \in Replicas : CloseNext(r, d)
  <2>1. /\ \A c \in Conns : c # d => conn'[c] = conn[c]
        /\ conn'[d].on = conn[d].on /\ conn'[d].slot = conn[d].slot
        /\ conn'[d].open => conn[d].open
        /\ \/ conn'[d].at = conn[d].at
           \/ /\ conn[d].at \in {"registered", "serving", "unregistered"}
              /\ conn'[d].at \in {"serving", "unregistered", "gone"}
        /\ phase' = phase
    BY <1>1, <1>2, <1>5
       DEF Track, UnregisterIfCurrent, Untrack, Disconnect, CloseNext,
           RegistryTypeOK, Connection
  <2>2. \A q \in Replicas, z \in Slots : reg'[q][z] \in {NoConn, reg[q][z]}
    <3>1. \/ reg' = reg
          \/ reg' = [reg EXCEPT ![conn[d].on][conn[d].slot] = NoConn]
      BY <1>5
         DEF Track, UnregisterIfCurrent, Untrack, Disconnect, CloseNext
    <3> QED
      BY <3>1, <1>1, <1>2 DEF RegistryTypeOK
  <2>3. \A c \in Conns : Settles(c)
    BY <2>1, <2>2, <1>2, PresenceConstants DEF Settles, Entry
  <2>4. DownIsEmpty'
    BY <2>1 DEF DownIsEmpty
  <2> QED
    BY <2>3, <2>4
<1> QED
  BY <1>3, <1>4, <1>5 DEF Serve

\* A process that begins to stop, ends or starts.
LEMMA ProcessesSettle ==
    ASSUME RegistryInv, DownIsEmpty, NEW r \in Replicas,
           BeginShutdown(r) \/ Dies(r) \/ Start(r)
    PROVE  (\A c \in Conns : Settles(c)) /\ DownIsEmpty'
<1>1. RegistryTypeOK /\ RegistryExact
  BY DEF RegistryInv
<1>2. \A c \in Conns : conn[c] \in Connection /\ conn[c].on \in Replicas
                       /\ conn[c].slot \in Slots
  BY <1>1 DEF RegistryTypeOK, Connection
<1>3. CASE BeginShutdown(r)
  <2>1. /\ conn' = conn /\ reg' = reg
        /\ \A q \in Replicas : phase'[q] = IF q = r THEN "draining"
                                           ELSE phase[q]
    BY <1>1, <1>3 DEF BeginShutdown, RegistryTypeOK
  <2>2. \A c \in Conns : Settles(c)
    BY <2>1, <1>2 DEF Settles, Entry
  <2>3. DownIsEmpty'
    BY <2>1, <1>2 DEF DownIsEmpty
  <2> QED
    BY <2>2, <2>3
<1>4. CASE Start(r)
  <2>1. /\ conn' = conn /\ reg' = reg /\ phase[r] = "down"
        /\ \A q \in Replicas : phase'[q] = IF q = r THEN "up" ELSE phase[q]
    BY <1>1, <1>4 DEF Start, RegistryTypeOK
  <2>2. \A c \in Conns : Entry(c) = c => Holding(c)
    BY <1>1, <1>2 DEF RegistryExact, Entry
  <2>3. \A c \in Conns : Settles(c)
    BY <2>1, <2>2, <1>2 DEF Settles, Entry, DownIsEmpty, Holding
  <2>4. DownIsEmpty'
    BY <2>1, <1>2 DEF DownIsEmpty
  <2> QED
    BY <2>3, <2>4
<1>5. CASE Dies(r)
  <2>1. \A c \in Conns :
           IF conn[c].on = r /\ conn[c].at # "unused"
           THEN conn'[c] = [conn[c] EXCEPT !.at = "gone", !.open = FALSE]
           ELSE conn'[c] = conn[c]
    BY <1>5 DEF Dies
  <2>2. \A c \in Conns :
           /\ conn'[c].on = conn[c].on /\ conn'[c].slot = conn[c].slot
           /\ conn[c].on = r => conn'[c].at \in {"unused", "gone"}
           /\ conn[c].at # "unused" => conn'[c].at \in {"gone", conn[c].at}
           /\ conn[c].on # r => conn'[c] = conn[c]
    BY <2>1, <1>2 DEF Connection
  <2>3. /\ \A q \in Replicas : phase'[q] = IF q = r THEN "down" ELSE phase[q]
        /\ \A q \in Replicas : q # r => reg'[q] = reg[q]
    BY <1>1, <1>5 DEF Dies, RegistryTypeOK
  <2>4. \A c \in Conns : Settles(c)
    BY <2>2, <2>3, <1>2 DEF Settles, Entry
  <2>5. DownIsEmpty'
    BY <2>2, <2>3, <1>2 DEF DownIsEmpty
  <2> QED
    BY <2>4, <2>5
<1> QED
  BY <1>3, <1>4, <1>5

\* What is due to settled connections stays on its way when only those
\* queues are lost whose process does not run.
LEMMA SettledDue ==
    ASSUME RegistryInv, AckTypeOK, DueInv,
           \A c \in Conns : Settles(c),
           stream' = stream, due' = due,
           \A q \in Replicas : phase'[q] = "up" =>
              inbox'[q] = inbox[q] /\ delivering'[q] = delivering[q]
    PROVE  DueIsOwn' /\ DueIsDelivered'
<1>1. DueIsOwn /\ DueIsDelivered
  BY DEF DueInv
<1>2. \A c \in Conns : conn[c].on \in Replicas
  BY DEF RegistryInv, RegistryTypeOK, Connection
<1>3. ASSUME NEW c \in Conns, NEW e \in due[c]
      PROVE  /\ e \in Stored /\ conn[c].slot = stream[e].slot
             /\ conn[c].at \notin {"unused", "accepted"}
  BY <1>1, <1>3 DEF DueIsOwn
<1>4. DueIsOwn'
  BY <1>3 DEF DueIsOwn, Settles, Stored
<1>5. ASSUME NEW c \in Conns, NEW e \in due[c],
             phase'[conn'[c].on] = "up", conn'[c].open, Entry(c)' = c
      PROVE  LET r == conn'[c].on
                 t == TenantOf(e)
             IN  \/ \E i \in 1..Len(inbox'[r][t]) : inbox'[r][t][i] = e
                 \/ delivering'[r][t] = Writing(e, c)
  <2>1. conn'[c].on = conn[c].on /\ phase[conn[c].on] = "up" /\ conn[c].open
        /\ Entry(c) = c
    BY <1>3, <1>5 DEF Settles
  <2>2. /\ inbox'[conn[c].on] = inbox[conn[c].on]
        /\ delivering'[conn[c].on] = delivering[conn[c].on]
    BY <2>1, <1>2, <1>5
  <2> QED
    BY <2>1, <2>2, <1>1 DEF DueIsDelivered
<1>6. DueIsDelivered'
  BY <1>5 DEF DueIsDelivered, TenantOf
<1> QED
  BY <1>4, <1>6

\* Connections and processes keep the invariant.
LEMMA ConnDue ==
    ASSUME RegistryInv, AckTypeOK, DueInv, ConnStep
    PROVE  DueInv'
<1>1. /\ DueTypeOK /\ HandledIsStored /\ DownIsEmpty
      /\ RegistryTypeOK
  BY DEF DueInv, RegistryInv
<1>2. Idle \in DeliveryState /\ Idle.at = "Idle"
  BY DEF Idle, DeliveryState
<1>3. ASSUME UNCHANGED <<stream, callback, live, inbox, delivering, due>>
      PROVE  /\ DueTypeOK' /\ HandledIsStored'
             /\ (\A c \in Conns : Settles(c)) => DueIsOwn' /\ DueIsDelivered'
  BY <1>1, <1>3, SettledDue DEF DueTypeOK, HandledIsStored, Stored
<1>4. ASSUME RegistryNext, UNCHANGED relayVars PROVE DueInv'
  <2>1. (\A c \in Conns : Settles(c)) /\ DownIsEmpty'
    BY <1>1, <1>4, HandlersSettle, ProcessesSettle
       DEF RegistryNext, Exit, Crash
  <2> QED
    BY <2>1, <1>3, <1>4 DEF DueInv, relayVars
<1>5. ASSUME NEW r \in Replicas, BeginShutdown(r),
             UNCHANGED <<stream, acked, callback, seen, asked, live, inbox,
                         delivering, got, sent, copies, published,
                         due>>
      PROVE  DueInv'
  <2>1. (\A c \in Conns : Settles(c)) /\ DownIsEmpty'
    BY <1>1, <1>5, ProcessesSettle
  <2> QED
    BY <2>1, <1>3, <1>5 DEF DueInv
<1>6. ASSUME NEW r \in Replicas, Dies(r), Forget(r) PROVE DueInv'
  <2>1. (\A c \in Conns : Settles(c)) /\ DownIsEmpty'
    BY <1>1, <1>6, ProcessesSettle
  <2>2. stream' = stream /\ due' = due
    BY <1>6 DEF Forget
  <2>3. /\ callback' = [callback EXCEPT ![r] = [k \in Kinds |-> Idle]]
        /\ live' = [live EXCEPT ![r] = [t \in Tenants |-> 0]]
        /\ inbox' = [inbox EXCEPT ![r] = [t \in Tenants |-> <<>>]]
        /\ delivering' = [delivering EXCEPT ![r] = [t \in Tenants |-> Idle]]
    BY <1>6 DEF Forget
  <2>4. DueTypeOK'
    BY <2>2, <2>3, <1>1, <1>2 DEF DueTypeOK
  <2>5. \A q \in Replicas : phase'[q] = "up" => q # r
    BY <1>1, <1>6 DEF Dies, RegistryTypeOK
  <2>6. DueIsOwn' /\ DueIsDelivered'
    <3>1. \A q \in Replicas : q # r =>
             inbox'[q] = inbox[q] /\ delivering'[q] = delivering[q]
      BY <2>3, <1>1 DEF DueTypeOK
    <3> QED
      BY <3>1, <2>1, <2>2, <2>5, SettledDue
  <2>7. HandledIsStored'
    <3>1. \A q \in Replicas, k \in Kinds :
             callback'[q][k].at # "Idle" => callback'[q][k] = callback[q][k]
      BY <2>3, <1>2 DEF AckTypeOK
    <3>2. \A q \in Replicas, t \in Tenants :
             inbox'[q][t] = inbox[q][t] \/ inbox'[q][t] = <<>>
      BY <2>3, <1>1 DEF DueTypeOK
    <3>3. \A q \in Replicas, t \in Tenants : \A i \in 1..Len(inbox'[q][t]) :
             inbox'[q][t][i] \in Stored
      BY <3>2, <1>1 DEF HandledIsStored
    <3>4. Stored' = Stored
      BY <2>2 DEF Stored
    <3> QED
      BY <3>1, <3>3, <3>4, <1>1 DEF HandledIsStored
  <2> QED
    BY <2>1, <2>4, <2>6, <2>7 DEF DueInv
<1> QED
  BY <1>4, <1>5, <1>6 DEF ConnStep, Exit, Crash

---------------------------------------------------------------------------
\* The relay.

\* The stream only grows: what is stored stays as it is.
LEMMA StreamGrows ==
    ASSUME AckTypeOK, NEW s \in Slots, NEW k \in Kinds, PublishEvent(s, k)
    PROVE  Stored \subseteq Stored' /\ \A e \in Stored : stream'[e] = stream[e]
<1>1. stream \in Seq(Event) /\ [slot |-> s, kind |-> k] \in Event
  BY DEF AckTypeOK, Event
<1>2. PICK v \in Event : stream' = Append(stream, v)
  BY <1>1 DEF PublishEvent
<1> QED
  BY <1>1, <1>2 DEF Stored

\* The steps before and after a publish leave the way of an event alone.
LEMMA QuietDue ==
    ASSUME RegistryInv, AckTypeOK, DueInv, UNCHANGED registryVars,
           UNCHANGED <<inbox, delivering, due>>,
           live' \in [Replicas -> [Tenants -> Nat]],
           Stored \subseteq Stored', \A e \in Stored : stream'[e] = stream[e],
           \A r \in Replicas, k \in Kinds :
              callback'[r][k].at # "Idle" => callback'[r][k].ev \in Stored
    PROVE  DueInv'
<1>1. /\ DueTypeOK /\ HandledIsStored /\ DueIsOwn /\ DownIsEmpty
      /\ DueIsDelivered
  BY DEF DueInv
<1>2. DueTypeOK'
  BY <1>1 DEF DueTypeOK
<1>3. HandledIsStored'
  BY <1>1 DEF HandledIsStored
<1>4. phase' = phase /\ conn' = conn /\ reg' = reg
  BY DEF registryVars
<1>5. DueIsOwn'
  BY <1>1, <1>4 DEF DueIsOwn
<1>6. DownIsEmpty'
  BY <1>1, <1>4 DEF DownIsEmpty
<1>7. \A c \in Conns : \A e \in due[c] : TenantOf(e)' = TenantOf(e)
  BY <1>1 DEF DueIsOwn, TenantOf
<1>8. DueIsDelivered'
  BY <1>1, <1>4, <1>7 DEF DueIsDelivered, Entry
<1> QED
  BY <1>2, <1>3, <1>5, <1>6, <1>8 DEF DueInv

\* An event is published, taken by a callback, nak'd or acked, or a
\* SUBSCRIBE takes effect.
LEMMA CallbackDue ==
    ASSUME RegistryInv, AckTypeOK, DueInv,
           \/ \E s \in Slots, k \in Kinds : PublishEvent(s, k)
           \/ \E r \in Replicas, k \in Kinds, e \in Stored : Handle(r, k, e)
           \/ \E r \in Replicas, k \in Kinds : PublishFails(r, k) \/ Ack(r, k)
           \/ \E r \in Replicas, t \in Tenants : SubscribeTakesEffect(r, t)
    PROVE  DueInv'
<1>1. DueTypeOK /\ HandledIsStored
  BY DEF DueInv
<1>2. Idle.at = "Idle"
  BY DEF Idle
<1>3. ASSUME NEW s \in Slots, NEW k \in Kinds, PublishEvent(s, k)
      PROVE  DueInv'
  <2>1. UNCHANGED registryVars /\ UNCHANGED <<inbox, delivering, due>>
        /\ live' = live /\ callback' = callback
    BY <1>3 DEF PublishEvent
  <2>2. Stored \subseteq Stored' /\ \A e \in Stored : stream'[e] = stream[e]
    BY <1>3, StreamGrows
  <2> QED
    BY <2>1, <2>2, <1>1, QuietDue DEF DueTypeOK, HandledIsStored
<1>4. ASSUME NEW r \in Replicas, NEW k \in Kinds, NEW e \in Stored,
             Handle(r, k, e)
      PROVE  DueInv'
  <2>1. UNCHANGED registryVars /\ UNCHANGED <<inbox, delivering, due>>
        /\ live' = live /\ stream' = stream
        /\ callback' = [callback EXCEPT ![r][k] = Publishing(e)]
    BY <1>4 DEF Handle
  <2>2. Publishing(e).ev = e
    BY DEF Publishing
  <2>3. \A q \in Replicas, j \in Kinds :
           callback'[q][j].at # "Idle" => callback'[q][j].ev \in Stored
    BY <2>1, <2>2, <1>1 DEF HandledIsStored, AckTypeOK
  <2> QED
    BY <2>1, <2>3, <1>1, QuietDue DEF DueTypeOK, Stored
<1>5. ASSUME NEW r \in Replicas, NEW k \in Kinds,
             PublishFails(r, k) \/ Ack(r, k)
      PROVE  DueInv'
  <2>1. UNCHANGED registryVars /\ UNCHANGED <<inbox, delivering, due>>
        /\ live' = live /\ stream' = stream
        /\ callback' = [callback EXCEPT ![r][k] = Idle]
    BY <1>5 DEF PublishFails, Ack
  <2>2. \A q \in Replicas, j \in Kinds :
           callback'[q][j].at # "Idle" => callback'[q][j].ev \in Stored
    BY <2>1, <1>1, <1>2 DEF HandledIsStored, AckTypeOK
  <2> QED
    BY <2>1, <2>2, <1>1, QuietDue DEF DueTypeOK, Stored
<1>6. ASSUME NEW r \in Replicas, NEW t \in Tenants, SubscribeTakesEffect(r, t)
      PROVE  DueInv'
  <2>1. UNCHANGED registryVars /\ UNCHANGED <<inbox, delivering, due>>
        /\ stream' = stream /\ callback' = callback
        /\ live' = [live EXCEPT ![r][t] = @ + 1]
    BY <1>6 DEF SubscribeTakesEffect
  <2>2. live' \in [Replicas -> [Tenants -> Nat]]
    BY <2>1, <1>1 DEF DueTypeOK
  <2> QED
    BY <2>1, <2>2, <1>1, QuietDue DEF HandledIsStored, Stored
<1> QED
  BY <1>3, <1>4, <1>5, <1>6

\* Where DueIsDelivered has an event be, and when.
OnItsWay(c, e) ==
    LET r == conn[c].on
        t == TenantOf(e)
    IN  \/ \E i \in 1..Len(inbox[r][t]) : inbox[r][t][i] = e
        \/ delivering[r][t] = Writing(e, c)
Reachable(c) == phase[conn[c].on] = "up" /\ conn[c].open /\ Entry(c) = c

\* With the registry and the stream as they are, it is enough to follow the
\* events due to connections of processes that run.
LEMMA RelayedDue ==
    ASSUME RegistryInv, AckTypeOK, DueInv,
           UNCHANGED registryVars, stream' = stream,
           DueTypeOK', HandledIsStored',
           \A c \in Conns : \A e \in due'[c] :
              /\ e \in Stored /\ conn[c].slot = stream[e].slot
              /\ conn[c].at \notin {"unused", "accepted"}
              /\ Reachable(c) => OnItsWay(c, e)'
    PROVE  DueInv'
<1>1. phase' = phase /\ conn' = conn /\ reg' = reg
  BY DEF registryVars
<1>2. DueIsOwn'
  BY <1>1 DEF DueIsOwn, Stored
<1>3. DownIsEmpty'
  BY <1>1 DEF DueInv, DownIsEmpty
<1>4. DueIsDelivered'
  BY <1>1 DEF DueIsDelivered, Entry, Reachable, OnItsWay
<1> QED
  BY <1>2, <1>3, <1>4 DEF DueInv

\* What the invariant says of one event that is due.
LEMMA DueEvent ==
    ASSUME RegistryInv, AckTypeOK, DueInv, NEW c \in Conns, NEW e \in due[c]
    PROVE  /\ e \in Stored /\ conn[c].slot = stream[e].slot
           /\ conn[c].at \notin {"unused", "accepted"}
           /\ Reachable(c) => OnItsWay(c, e)
           /\ conn[c].on \in Replicas /\ TenantOf(e) \in Tenants
<1>1. /\ e \in Stored /\ conn[c].slot = stream[e].slot
      /\ conn[c].at \notin {"unused", "accepted"}
  BY DEF DueInv, DueIsOwn
<1>2. Reachable(c) => OnItsWay(c, e)
  BY DEF DueInv, DueIsDelivered, Reachable, OnItsWay
<1>3. conn[c].on \in Replicas
  BY DEF RegistryInv, RegistryTypeOK, Connection
<1> QED
  BY <1>1, <1>2, <1>3, StoredEvent

\* A queue after n messages e: what was there, then the messages.
LEMMA Queued ==
    ASSUME NEW b \in Seq(Nat), NEW m \in Seq(Nat), NEW n \in Nat, NEW e,
           Len(m) = n, \A i \in 1..n : m[i] = e
    PROVE  /\ b \o m \in Seq(Nat) /\ Len(b \o m) = Len(b) + n
           /\ \A i \in 1..Len(b) : (b \o m)[i] = b[i]
           /\ \A i \in Len(b) + 1 .. Len(b) + n : (b \o m)[i] = e
<1>1. b \o m \in Seq(Nat) /\ Len(b \o m) = Len(b) + n
  OBVIOUS
<1>2. ASSUME NEW i \in 1..Len(b) PROVE (b \o m)[i] = b[i]
  OBVIOUS
<1>3. ASSUME NEW i \in Len(b) + 1 .. Len(b) + n PROVE (b \o m)[i] = e
  <2>1. Len(b) \in Nat /\ i \in Nat /\ i - Len(b) \in 1..n
    OBVIOUS
  <2>2. (b \o m)[i] = m[i - Len(b)]
    BY <2>1
  <2> QED
    BY <2>1, <2>2
<1> QED
  BY <1>1, <1>2, <1>3

\* Redis gives a message to every subscription in effect: a connection that
\* comes to expect an event has it in the queue of its process.
LEMMA PublishDue ==
    ASSUME RegistryInv, AckTypeOK, DueInv, NEW r \in Replicas,
           NEW k \in Kinds, Publish(r, k)
    PROVE  DueInv'
<1>1. DueTypeOK /\ HandledIsStored
  BY DEF DueInv
<1>2. PICK e : e = callback[r][k].ev
  OBVIOUS
<1>3. callback[r][k].at = "Publishing" /\ e \in Stored
  BY <1>1, <1>2 DEF Publish, HandledIsStored
<1>4. TenantOf(e) \in Tenants /\ e \in Nat
  BY <1>3, StoredEvent
<1>5. UNCHANGED registryVars /\ stream' = stream /\ live' = live
      /\ delivering' = delivering
      /\ callback' = [callback EXCEPT ![r][k] = Acking(e)]
  BY <1>2 DEF Publish
<1>6. due' = [c \in Conns |-> IF Expects(c, e) THEN due[c] \cup {e}
                              ELSE due[c]]
  BY <1>2 DEF Publish, Spread
<1>7. inbox' = [q \in Replicas |-> [t \in Tenants |->
           IF t = TenantOf(e)
           THEN inbox[q][t] \o [i \in 1..live[q][t] |-> e]
           ELSE inbox[q][t]]]
  BY <1>2 DEF Publish, Spread
<1>8. ASSUME NEW q \in Replicas, NEW t \in Tenants
      PROVE  /\ inbox'[q][t] \in Seq(Nat)
             /\ Len(inbox'[q][t]) >= Len(inbox[q][t])
             /\ \A i \in 1..Len(inbox[q][t]) : inbox'[q][t][i] = inbox[q][t][i]
             /\ \A i \in 1..Len(inbox'[q][t]) :
                   inbox'[q][t][i] = e \/ inbox'[q][t][i] \in Stored
             /\ t = TenantOf(e) /\ live[q][t] > 0 =>
                   \E i \in 1..Len(inbox'[q][t]) : inbox'[q][t][i] = e
  <2>1. /\ inbox[q][t] \in Seq(Nat) /\ live[q][t] \in Nat
        /\ \A i \in 1..Len(inbox[q][t]) : inbox[q][t][i] \in Stored
    BY <1>1 DEF DueTypeOK, HandledIsStored
  <2>2. PICK b : b = inbox[q][t]
    OBVIOUS
  <2>3. PICK n : n = live[q][t]
    OBVIOUS
  <2>4. PICK m : m = [i \in 1..n |-> e]
    OBVIOUS
  <2>5. m \in Seq(Nat) /\ Len(m) = n /\ \A i \in 1..n : m[i] = e
    BY <2>1, <2>3, <2>4, <1>4
  <2>6. CASE t = TenantOf(e)
    <3>1. inbox'[q][t] = b \o m
      BY <2>2, <2>3, <2>4, <2>6, <1>7
    <3>2. b \in Seq(Nat) /\ n \in Nat /\ \A i \in 1..Len(b) : b[i] \in Stored
      BY <2>1, <2>2, <2>3
    <3>3. /\ b \o m \in Seq(Nat) /\ Len(b \o m) = Len(b) + n
          /\ \A i \in 1..Len(b) : (b \o m)[i] = b[i]
          /\ \A i \in Len(b) + 1 .. Len(b) + n : (b \o m)[i] = e
      BY <2>5, <3>2, Queued
    <3>4. \A i \in 1..Len(b) + n :
             i \in 1..Len(b) \/ i \in Len(b) + 1 .. Len(b) + n
      BY <3>2
    <3>5. n > 0 => Len(b) + 1 \in 1..Len(b) + n
                   /\ Len(b) + 1 \in Len(b) + 1 .. Len(b) + n
      BY <3>2
    <3>6. \A i \in 1..Len(b) + n : (b \o m)[i] = e \/ (b \o m)[i] \in Stored
      BY <3>2, <3>3, <3>4
    <3>7. n > 0 => \E i \in 1..Len(b) + n : (b \o m)[i] = e
      BY <3>3, <3>5
    <3>8. Len(b) + n >= Len(b)
      BY <3>2
    <3> QED
      BY <3>1, <3>3, <3>6, <3>7, <3>8, <2>2, <2>3
  <2>7. CASE t # TenantOf(e)
    BY <2>7, <2>1, <1>7
  <2> QED
    BY <2>6, <2>7
<1>9. DueTypeOK'
  <2>1. due' \in [Conns -> SUBSET Nat]
    BY <1>1, <1>4, <1>6 DEF DueTypeOK
  <2>2. inbox' \in [Replicas -> [Tenants -> Seq(Nat)]]
    <3>1. PICK f : f = [q \in Replicas |-> [t \in Tenants |-> inbox'[q][t]]]
      OBVIOUS
    <3>2. inbox' = f
      BY <3>1, <1>7
    <3>3. f \in [Replicas -> [Tenants -> Seq(Nat)]]
      BY <3>1, <1>8
    <3> QED
      BY <3>2, <3>3
  <2> QED
    BY <2>1, <2>2, <1>1, <1>5 DEF DueTypeOK
<1>10. HandledIsStored'
  <2>1. Stored' = Stored
    BY <1>5 DEF Stored
  <2>2. Acking(e).ev = e
    BY DEF Acking
  <2>3. \A q \in Replicas, j \in Kinds :
           callback'[q][j].at # "Idle" => callback'[q][j].ev \in Stored
    BY <2>2, <1>1, <1>3, <1>5 DEF HandledIsStored, AckTypeOK
  <2>4. \A q \in Replicas, t \in Tenants : \A i \in 1..Len(inbox'[q][t]) :
           inbox'[q][t][i] \in Stored
    BY <1>3, <1>8
  <2> QED
    BY <2>1, <2>3, <2>4 DEF HandledIsStored
<1>11. ASSUME NEW c \in Conns, NEW f \in due'[c]
       PROVE  /\ f \in Stored /\ conn[c].slot = stream[f].slot
              /\ conn[c].at \notin {"unused", "accepted"}
              /\ Reachable(c) => OnItsWay(c, f)'
  <2>1. conn' = conn /\ TenantOf(f)' = TenantOf(f)
    BY <1>5 DEF registryVars, TenantOf
  <2>2. CASE f \in due[c]
    <3>1. /\ f \in Stored /\ conn[c].slot = stream[f].slot
          /\ conn[c].at \notin {"unused", "accepted"}
          /\ Reachable(c) => OnItsWay(c, f)
          /\ conn[c].on \in Replicas /\ TenantOf(f) \in Tenants
      BY <2>2, DueEvent
    <3>2. PICK q \in Replicas : q = conn[c].on
      BY <3>1
    <3>3. PICK t \in Tenants : t = TenantOf(f)
      BY <3>1
    <3>4. \A i \in 1..Len(inbox[q][t]) :
             i \in 1..Len(inbox'[q][t]) /\ inbox'[q][t][i] = inbox[q][t][i]
      <4>1. inbox[q][t] \in Seq(Nat)
        BY <1>1 DEF DueTypeOK
      <4> QED
        BY <4>1, <1>8
    <3>5. OnItsWay(c, f) => OnItsWay(c, f)'
      BY <3>2, <3>3, <3>4, <2>1, <1>5 DEF OnItsWay
    <3> QED
      BY <3>1, <3>5
  <2>3. CASE f \notin due[c]
    <3>1. f = e /\ Expects(c, e)
      BY <2>3, <1>6
    <3>2. PICK q : q = conn[c].on
      OBVIOUS
    <3>3. PICK t : t = TenantOf(e)
      OBVIOUS
    <3>4. /\ conn[c].slot = stream[e].slot /\ Entry(c) = c
          /\ live[q][t] > 0
      BY <3>1, <3>2, <3>3 DEF Expects
    <3>5. q \in Replicas /\ conn[c].slot \in Slots
      BY <3>2 DEF RegistryInv, RegistryTypeOK, Connection
    <3>6. Holding(c)
      BY <3>2, <3>4, <3>5 DEF RegistryInv, RegistryExact, Entry
    <3>7. \E i \in 1..Len(inbox'[q][t]) : inbox'[q][t][i] = e
      BY <3>3, <3>4, <3>5, <1>4, <1>8
    <3>8. OnItsWay(c, f)'
      BY <3>1, <3>2, <3>3, <3>7, <2>1 DEF OnItsWay
    <3> QED
      BY <3>1, <3>4, <3>6, <3>8, <1>3 DEF Holding
  <2> QED
    BY <2>2, <2>3
<1> QED
  BY <1>5, <1>9, <1>10, <1>11, RelayedDue

\* deliverIfLocal: the registry is exact, so the lookup of an event that is
\* due to the connection in the slot finds that connection.
LEMMA DeliverDue ==
    ASSUME RegistryInv, AckTypeOK, DueInv, NEW r \in Replicas,
           NEW t \in Tenants, DeliverIfLocal(r, t)
    PROVE  DueInv'
<1>1. DueTypeOK /\ HandledIsStored /\ RegistryTypeOK
  BY DEF DueInv, RegistryInv
<1>2. PICK b : b = inbox[r][t]
  OBVIOUS
<1>3. /\ b \in Seq(Nat) /\ b # <<>>
      /\ \A i \in 1..Len(b) : b[i] \in Stored
  BY <1>1, <1>2 DEF DeliverIfLocal, DueTypeOK, HandledIsStored
<1>4. PICK h : h = Head(b)
  OBVIOUS
<1>5. PICK d : d = reg[r][stream[h].slot]
  OBVIOUS
<1>6. /\ h = b[1] /\ h \in Nat /\ Len(b) >= 1
      /\ Tail(b) \in Seq(Nat) /\ Len(Tail(b)) = Len(b) - 1
      /\ \A i \in 1..Len(Tail(b)) : Tail(b)[i] = b[i + 1]
  BY <1>3, <1>4
<1>7. h \in Stored
  BY <1>3, <1>6
<1>8. d \in Conns \cup {NoConn}
  <2>1. stream[h].slot \in Slots
    BY <1>7, StoredEvent
  <2> QED
    BY <2>1, <1>1, <1>5 DEF RegistryTypeOK
<1>9. /\ UNCHANGED registryVars
      /\ stream' = stream /\ live' = live /\ due' = due
      /\ callback' = callback
      /\ inbox' = [inbox EXCEPT ![r][t] = Tail(b)]
      /\ delivering' = IF d = NoConn THEN delivering
                       ELSE [delivering EXCEPT ![r][t] = Writing(h, d)]
      /\ delivering[r][t] = Idle
  BY <1>2, <1>4, <1>5 DEF DeliverIfLocal, Lookup
<1>10. d # NoConn => Writing(h, d) \in DeliveryState
  BY <1>6, <1>8 DEF Writing, DeliveryState
<1>11. DueTypeOK'
  <2>1. inbox' \in [Replicas -> [Tenants -> Seq(Nat)]]
    BY <1>1, <1>6, <1>9 DEF DueTypeOK
  <2>2. delivering' \in [Replicas -> [Tenants -> DeliveryState]]
    <3>1. CASE d = NoConn
      BY <3>1, <1>1, <1>9 DEF DueTypeOK
    <3>2. CASE d # NoConn
      <4>1. PICK w \in DeliveryState : w = Writing(h, d)
        BY <3>2, <1>10
      <4>2. delivering' = [delivering EXCEPT ![r][t] = w]
        BY <4>1, <3>2, <1>9
      <4> QED
        BY <4>2, <1>1 DEF DueTypeOK
    <3> QED
      BY <3>1, <3>2
  <2> QED
    BY <2>1, <2>2, <1>1, <1>9 DEF DueTypeOK
<1>12. \A q \in Replicas, u \in Tenants :
          inbox'[q][u] = IF q = r /\ u = t THEN Tail(b) ELSE inbox[q][u]
  BY <1>1, <1>9 DEF DueTypeOK
<1>13. HandledIsStored'
  <2>1. Stored' = Stored
    BY <1>9 DEF Stored
  <2>2. \A i \in 1..Len(Tail(b)) : Tail(b)[i] \in Stored
    BY <1>3, <1>6
  <2> QED
    BY <2>1, <2>2, <1>1, <1>9, <1>12 DEF HandledIsStored
<1>14. ASSUME NEW c \in Conns, NEW e \in due'[c]
       PROVE  /\ e \in Stored /\ conn[c].slot = stream[e].slot
              /\ conn[c].at \notin {"unused", "accepted"}
              /\ Reachable(c) => OnItsWay(c, e)'
  <2>1. /\ e \in Stored /\ conn[c].slot = stream[e].slot
        /\ conn[c].at \notin {"unused", "accepted"}
        /\ Reachable(c) => OnItsWay(c, e)
        /\ conn[c].on \in Replicas /\ TenantOf(e) \in Tenants
    BY <1>9, DueEvent
  <2>2. conn' = conn /\ TenantOf(e)' = TenantOf(e)
    BY <1>9 DEF registryVars, TenantOf
  <2>3. ASSUME Reachable(c) PROVE OnItsWay(c, e)'
    <3>1. OnItsWay(c, e)
      BY <2>1, <2>3
    <3>2. CASE ~(conn[c].on = r /\ TenantOf(e) = t)
      <4>1. /\ inbox'[conn[c].on][TenantOf(e)] = inbox[conn[c].on][TenantOf(e)]
            /\ delivering'[conn[c].on][TenantOf(e)]
                 = delivering[conn[c].on][TenantOf(e)]
        BY <3>2, <2>1, <1>1, <1>9, <1>12 DEF DueTypeOK
      <4> QED
        BY <4>1, <3>1, <2>2 DEF OnItsWay
    <3>3. CASE conn[c].on = r /\ TenantOf(e) = t
      <4>1. Idle # Writing(e, c)
        <5>1. Idle.at = "Idle" /\ Writing(e, c).at = "Writing"
          BY DEF Idle, Writing
        <5> QED
          BY <5>1
      <4>2. PICK i \in 1..Len(b) : b[i] = e
        BY <4>1, <3>1, <3>3, <1>2, <1>9 DEF OnItsWay
      <4>3. CASE i = 1
        <5>1. h = e
          BY <4>2, <4>3, <1>6
        <5>2. d = c
          BY <5>1, <2>1, <2>3, <3>3, <1>5 DEF Reachable, Entry
        <5>3. d # NoConn
          BY <5>2, PresenceConstants
        <5>4. delivering'[r][t] = Writing(e, c)
          BY <5>1, <5>2, <5>3, <1>1, <1>9 DEF DueTypeOK
        <5> QED
          BY <5>4, <3>3, <2>2 DEF OnItsWay
      <4>4. CASE i # 1
        <5>1. i - 1 \in 1..Len(Tail(b)) /\ Tail(b)[i - 1] = e
          BY <4>2, <4>4, <1>3, <1>6
        <5>2. \E j \in 1..Len(inbox'[r][t]) : inbox'[r][t][j] = e
          BY <5>1, <1>12
        <5> QED
          BY <5>2, <3>3, <2>2 DEF OnItsWay
      <4> QED
        BY <4>3, <4>4
    <3> QED
      BY <3>2, <3>3
  <2> QED
    BY <2>1, <2>3
<1> QED
  BY <1>9, <1>11, <1>13, <1>14, RelayedDue

\* Send: what was being written to an open connection is written; only a
\* closed connection loses it.
LEMMA SendDue ==
    ASSUME RegistryInv, AckTypeOK, DueInv, NEW r \in Replicas,
           NEW t \in Tenants, Send(r, t)
    PROVE  DueInv'
<1>1. DueTypeOK /\ HandledIsStored
  BY DEF DueInv
<1>2. PICK w : w = delivering[r][t]
  OBVIOUS
<1>3. w.at = "Writing" /\ w.to \in Conns /\ w.ev \in Nat
  BY <1>1, <1>2 DEF Send, DueTypeOK, DeliveryState
<1>4. Idle \in DeliveryState
  BY DEF Idle, DeliveryState
<1>5. /\ UNCHANGED registryVars
      /\ stream' = stream /\ live' = live /\ inbox' = inbox
      /\ callback' = callback
      /\ delivering' = [delivering EXCEPT ![r][t] = Idle]
      /\ due' = IF conn[w.to].open
                THEN [due EXCEPT ![w.to] = due[w.to] \ {w.ev}]
                ELSE due
  BY <1>2 DEF Send
<1>6. DueTypeOK'
  <2>1. delivering' \in [Replicas -> [Tenants -> DeliveryState]]
    BY <1>1, <1>4, <1>5 DEF DueTypeOK
  <2>2. due' \in [Conns -> SUBSET Nat]
    BY <1>1, <1>3, <1>5 DEF DueTypeOK
  <2> QED
    BY <2>1, <2>2, <1>1, <1>5 DEF DueTypeOK
<1>7. HandledIsStored'
  BY <1>1, <1>5 DEF HandledIsStored, Stored
<1>8. ASSUME NEW c \in Conns, NEW e \in due'[c]
      PROVE  /\ e \in Stored /\ conn[c].slot = stream[e].slot
             /\ conn[c].at \notin {"unused", "accepted"}
             /\ Reachable(c) => OnItsWay(c, e)'
  <2>1. /\ e \in due[c]
        /\ w.to = c /\ w.ev = e => ~conn[c].open
    BY <1>1, <1>3, <1>5 DEF DueTypeOK
  <2>2. /\ e \in Stored /\ conn[c].slot = stream[e].slot
        /\ conn[c].at \notin {"unused", "accepted"}
        /\ Reachable(c) => OnItsWay(c, e)
        /\ conn[c].on \in Replicas /\ TenantOf(e) \in Tenants
    BY <2>1, DueEvent
  <2>3. conn' = conn /\ TenantOf(e)' = TenantOf(e)
    BY <1>5 DEF registryVars, TenantOf
  <2>4. ASSUME Reachable(c) PROVE OnItsWay(c, e)'
    <3>1. OnItsWay(c, e) /\ conn[c].open
      BY <2>2, <2>4 DEF Reachable
    <3>2. w # Writing(e, c)
      <4>1. Writing(e, c).ev = e /\ Writing(e, c).to = c
        BY DEF Writing
      <4> QED
        BY <4>1, <3>1, <2>1
    <3>3. CASE conn[c].on = r /\ TenantOf(e) = t
      BY <3>1, <3>2, <3>3, <2>3, <1>2, <1>5 DEF OnItsWay
    <3>4. CASE ~(conn[c].on = r /\ TenantOf(e) = t)
      <4>1. delivering'[conn[c].on][TenantOf(e)]
              = delivering[conn[c].on][TenantOf(e)]
        BY <3>4, <2>2, <1>1, <1>5 DEF DueTypeOK
      <4> QED
        BY <4>1, <3>1, <2>3, <1>5 DEF OnItsWay
    <3> QED
      BY <3>3, <3>4
  <2> QED
    BY <2>2, <2>4
<1> QED
  BY <1>5, <1>6, <1>7, <1>8, RelayedDue

\* A subscription ends only when its process is stopping.
LEMMA UnsubscribeDue ==
    ASSUME RegistryInv, AckTypeOK, DueInv, NEW r \in Replicas,
           NEW t \in Tenants, Unsubscribe(r, t)
    PROVE  DueInv'
<1>1. DueTypeOK /\ HandledIsStored
  BY DEF DueInv
<1>2. /\ UNCHANGED registryVars
      /\ stream' = stream /\ due' = due /\ callback' = callback
      /\ delivering' = delivering
      /\ live' = [live EXCEPT ![r][t] = 0]
      /\ inbox' = [inbox EXCEPT ![r][t] = <<>>]
      /\ phase[r] = "draining"
  BY DEF Unsubscribe
<1>3. DueTypeOK'
  BY <1>1, <1>2 DEF DueTypeOK
<1>4. \A q \in Replicas, u \in Tenants :
         inbox'[q][u] = IF q = r /\ u = t THEN <<>> ELSE inbox[q][u]
  BY <1>1, <1>2 DEF DueTypeOK
<1>5. HandledIsStored'
  BY <1>1, <1>2, <1>4 DEF HandledIsStored, Stored
<1>6. ASSUME NEW c \in Conns, NEW e \in due'[c]
      PROVE  /\ e \in Stored /\ conn[c].slot = stream[e].slot
             /\ conn[c].at \notin {"unused", "accepted"}
             /\ Reachable(c) => OnItsWay(c, e)'
  <2>1. /\ e \in Stored /\ conn[c].slot = stream[e].slot
        /\ conn[c].at \notin {"unused", "accepted"}
        /\ Reachable(c) => OnItsWay(c, e)
        /\ conn[c].on \in Replicas /\ TenantOf(e) \in Tenants
    BY <1>2, DueEvent
  <2>2. conn' = conn /\ TenantOf(e)' = TenantOf(e)
    BY <1>2 DEF registryVars, TenantOf
  <2>3. Reachable(c) => conn[c].on # r
    BY <1>2 DEF Reachable
  <2>4. Reachable(c) => OnItsWay(c, e)'
    BY <2>1, <2>2, <2>3, <1>2, <1>4 DEF OnItsWay
  <2> QED
    BY <2>1, <2>4
<1> QED
  BY <1>2, <1>3, <1>5, <1>6, RelayedDue

\* The invariant of the deliveries holds throughout.
LEMMA DueInvariant == Spec => []DueInv
<1>1. RegistryInv /\ AckInv /\ DueInv /\ [Next]_vars => DueInv'
  <2> SUFFICES ASSUME RegistryInv, AckInv, DueInv, [Next]_vars PROVE DueInv'
    OBVIOUS
  <2>0. AckTypeOK
    BY DEF AckInv
  <2>1. CASE UNCHANGED vars
    <3>1. UNCHANGED registryVars /\ UNCHANGED <<inbox, delivering, due>>
          /\ stream' = stream /\ callback' = callback /\ live' = live
      BY <2>1 DEF vars, relayVars
    <3>2. live \in [Replicas -> [Tenants -> Nat]] /\ HandledIsStored
      BY DEF DueInv, DueTypeOK
    <3> QED
      BY <3>1, <3>2, <2>0, QuietDue DEF HandledIsStored, Stored
  <2>2. CASE RelayStep
    BY <2>0, <2>2, CallbackDue, PublishDue, DeliverDue, SendDue,
       UnsubscribeDue DEF RelayStep, Relay
  <2>3. CASE ConnStep
    BY <2>0, <2>3, ConnDue
  <2> QED
    BY <2>1, <2>2, <2>3, StepKinds
<1> QED
  BY <1>1, DueInitInv, RegistryInvariant, AckInvariant, PTL DEF Spec

\* Fan-out: with any number of replicas, connections and events, an event
\* that was published while a connection was in its slot behind a live
\* subscription is written to it or on its way, unless the connection has
\* closed or lost its slot or its replica is stopping.
THEOREM DueAlwaysDelivered == Spec => []DueIsDelivered
<1>1. DueInv => DueIsDelivered
  BY DEF DueInv
<1> QED
  BY <1>1, DueInvariant, PTL

---------------------------------------------------------------------------
(***************************************************************************)
(* Copies.  A copy of an event that a replica has received is counted in   *)
(* its queue, then in the hand of the goroutine, then as written: together *)
(* never more than there were publishes, because there is one subscription *)
(* per tenant.                                                             *)
(***************************************************************************)

Occ(s, e) == Cardinality({i \in 1..Len(s) : s[i] = e})
InHand(w, e) == IF w.at = "Writing" /\ w.ev = e THEN 1 ELSE 0
Taken(r, e) ==
    Occ(inbox[r][TenantOf(e)], e) + InHand(delivering[r][TenantOf(e)], e)
        + sent[r][e]

CopyTypeOK ==
    /\ asked \in [Replicas -> [Tenants -> Nat]]
    /\ seen \in [Replicas -> SUBSET Tenants]
    /\ sent \in [Replicas -> [Events -> Nat]]

\* seenTenants: a tenant is subscribed to once.
OneSubscription ==
    \A r \in Replicas, t \in Tenants :
        /\ asked[r][t] + live[r][t] <= 1
        /\ asked[r][t] + live[r][t] > 0 => t \in seen[r]

\* A channel carries events of its tenant.
OwnChannel ==
    \A r \in Replicas, t \in Tenants :
        /\ \A i \in 1..Len(inbox[r][t]) :
              inbox[r][t][i] \in Stored /\ TenantOf(inbox[r][t][i]) = t
        /\ delivering[r][t].at = "Writing" =>
              /\ delivering[r][t].ev \in Stored
              /\ TenantOf(delivering[r][t].ev) = t

\* What is not in the stream has not been written.
NothingAhead == \A r \in Replicas, e \in Events \ Stored : sent[r][e] = 0

Accounted == \A r \in Replicas, e \in Stored : Taken(r, e) <= copies[e]

CopyInv ==
    CopyTypeOK /\ OneSubscription /\ OwnChannel /\ NothingAhead /\ Accounted

\* Occurrences are finite in number.
LEMMA OccType ==
    ASSUME NEW s \in Seq(Nat), NEW e
    PROVE  /\ IsFiniteSet({i \in 1..Len(s) : s[i] = e})
           /\ Occ(s, e) \in Nat
<1>1. IsFiniteSet(1..Len(s))
  BY FS_Interval
<1>2. IsFiniteSet({i \in 1..Len(s) : s[i] = e})
  BY <1>1, FS_Subset
<1> QED
  BY <1>2, FS_CardinalityType DEF Occ

\* Nothing occurs in an empty queue.
LEMMA OccEmpty ==
    ASSUME NEW e, NEW s, s \in Seq(Nat), \A i \in 1..Len(s) : s[i] # e
    PROVE  Occ(s, e) = 0
<1>1. {i \in 1..Len(s) : s[i] = e} = {}
  OBVIOUS
<1> QED
  BY <1>1, FS_EmptySet DEF Occ

\* Taking the head takes one occurrence of it.
LEMMA OccTail ==
    ASSUME NEW s \in Seq(Nat), s # <<>>, NEW e
    PROVE  /\ Occ(Tail(s), e) <= Occ(s, e)
           /\ Head(s) = e => Occ(Tail(s), e) + 1 <= Occ(s, e)
<1> DEFINE S == {i \in 1..Len(s) : s[i] = e}
           T == {i \in 1..Len(Tail(s)) : Tail(s)[i] = e}
           U == S \ {1}
           f == [i \in T |-> i + 1]
<1>1. IsFiniteSet(S) /\ Cardinality(S) \in Nat
  BY OccType, FS_CardinalityType
<1>2. /\ Len(s) >= 1 /\ Len(Tail(s)) = Len(s) - 1 /\ Head(s) = s[1]
      /\ \A i \in 1..Len(Tail(s)) : Tail(s)[i] = s[i + 1]
  OBVIOUS
<1>3. \A i \in T : i + 1 \in U /\ i \in Int
  BY <1>2
<1> HIDE DEF T, U
<1>4. f \in Injection(T, U)
  BY <1>3 DEF Injection, IsInjective
<1>5. /\ IsFiniteSet(U)
      /\ Cardinality(U) = IF 1 \in S THEN Cardinality(S) - 1
                          ELSE Cardinality(S)
  BY <1>1, FS_RemoveElement DEF U
<1> HIDE DEF f
<1>6. Cardinality(T) <= Cardinality(U) /\ Cardinality(T) \in Nat
  BY <1>4, <1>5, FS_Injection, FS_CardinalityType
<1>7. Head(s) = e => 1 \in S
  BY <1>2
<1>8. Occ(s, e) = Cardinality(S) /\ Occ(Tail(s), e) = Cardinality(T)
  BY DEF Occ, T
<1> HIDE DEF S
<1> QED
  BY <1>1, <1>5, <1>6, <1>7, <1>8

\* At most one copy more is at most one occurrence more, of that event.
LEMMA OccSpread ==
    ASSUME NEW s \in Seq(Nat), NEW m \in Seq(Nat), NEW e, Len(m) <= 1,
           \A i \in 1..Len(m) : m[i] = e, NEW x
    PROVE  /\ Occ(s \o m, x) <= Occ(s, x) + 1
           /\ x # e => Occ(s \o m, x) <= Occ(s, x)
<1> DEFINE S == {i \in 1..Len(s) : s[i] = x}
           T == {i \in 1..Len(s \o m) : (s \o m)[i] = x}
           U == S \cup {Len(s) + 1}
<1>1. IsFiniteSet(S) /\ Cardinality(S) \in Nat
  BY OccType, FS_CardinalityType
<1>2. s \o m \in Seq(Nat) /\ Len(s \o m) = Len(s) + Len(m)
  OBVIOUS
<1>3. IsFiniteSet(T) /\ Cardinality(T) \in Nat
  BY <1>2, OccType, FS_CardinalityType
<1>4. \A i \in 1..Len(s \o m) :
         \/ i \in 1..Len(s) /\ (s \o m)[i] = s[i]
         \/ i = Len(s) + 1 /\ (s \o m)[i] = m[1] /\ 1 \in 1..Len(m)
  BY <1>2
<1>5. T \subseteq U /\ (x # e => T \subseteq S)
  BY <1>4
<1> HIDE DEF S, T
<1>6. IsFiniteSet(U) /\ Cardinality(U) <= Cardinality(S) + 1
      /\ Cardinality(U) \in Nat
  <2>1. PICK y : y = Len(s) + 1
    OBVIOUS
  <2>2. /\ IsFiniteSet(S \cup {y})
        /\ Cardinality(S \cup {y}) = IF y \in S THEN Cardinality(S)
                                     ELSE Cardinality(S) + 1
    BY <1>1, FS_AddElement
  <2>3. U = S \cup {y}
    BY <2>1
  <2> HIDE DEF U
  <2> QED
    BY <2>2, <2>3, <1>1
<1> HIDE DEF U
<1>7. /\ Cardinality(T) <= Cardinality(U)
      /\ x # e => Cardinality(T) <= Cardinality(S)
  BY <1>1, <1>5, <1>6, FS_Subset
<1>8. Occ(s, x) = Cardinality(S) /\ Occ(s \o m, x) = Cardinality(T)
  BY DEF Occ, S, T
<1> QED
  BY <1>1, <1>3, <1>6, <1>7, <1>8

\* At the start nothing has been taken.
LEMMA CopyInitInv == Init => CopyInv
<1> SUFFICES ASSUME Init PROVE CopyInv
  OBVIOUS
<1>1. CopyTypeOK /\ OneSubscription /\ NothingAhead
  BY DEF Init, CopyTypeOK, OneSubscription, NothingAhead
<1>2. Idle.at = "Idle"
  BY DEF Idle
<1>3. OwnChannel
  BY <1>2 DEF Init, OwnChannel
<1>4. Stored = {}
  BY DEF Init, Stored
<1> QED
  BY <1>1, <1>3, <1>4 DEF CopyInv, Accounted

\* The parts of a count are numbers.
LEMMA TakenType ==
    ASSUME AckTypeOK, DueTypeOK, CopyTypeOK, NEW r \in Replicas,
           NEW e \in Stored
    PROVE  /\ Occ(inbox[r][TenantOf(e)], e) \in Nat
           /\ InHand(delivering[r][TenantOf(e)], e) \in 0..1
           /\ e \in Events /\ sent[r][e] \in Nat /\ copies[e] \in Nat
           /\ TenantOf(e) \in Tenants
<1>1. TenantOf(e) \in Tenants
  BY StoredEvent
<1>2. inbox[r][TenantOf(e)] \in Seq(Nat)
  BY <1>1 DEF DueTypeOK
<1>3. Occ(inbox[r][TenantOf(e)], e) \in Nat
  BY <1>2, OccType
<1>4. InHand(delivering[r][TenantOf(e)], e) \in 0..1
  BY DEF InHand
<1>5. e \in Events
  BY RelayConstants DEF AckTypeOK, Stored, Events
<1> QED
  BY <1>1, <1>3, <1>4, <1>5 DEF AckTypeOK, CopyTypeOK

\* Steps that leave queues, hands and writes alone.
LEMMA QuietCopies ==
    ASSUME CopyInv, CopyTypeOK', OneSubscription',
           UNCHANGED <<stream, inbox, delivering, sent, copies>>
    PROVE  CopyInv'
<1>1. OwnChannel'
  BY DEF CopyInv, OwnChannel, Stored, TenantOf
<1>2. NothingAhead'
  BY DEF CopyInv, NothingAhead, Stored
<1>3. Stored' = Stored /\ \A r, e : Taken(r, e)' = Taken(r, e)
  BY DEF Stored, Taken, TenantOf
<1>4. Accounted'
  BY <1>3 DEF CopyInv, Accounted
<1> QED
  BY <1>1, <1>2, <1>4 DEF CopyInv

\* A new event of the stream is in no queue.
LEMMA PublishEventCopies ==
    ASSUME AckTypeOK, DueTypeOK, CopyInv, NEW s \in Slots, NEW k \in Kinds,
           PublishEvent(s, k), AckTypeOK'
    PROVE  CopyInv'
<1>1. /\ CopyTypeOK /\ OneSubscription /\ OwnChannel /\ NothingAhead
      /\ Accounted
  BY DEF CopyInv
<1>2. UNCHANGED <<asked, seen, live, inbox, delivering, sent, copies>>
  BY DEF PublishEvent
<1>3. /\ Stored \subseteq Stored'
      /\ \A e \in Stored : TenantOf(e)' = TenantOf(e)
  BY StreamGrows DEF TenantOf
<1>4. CopyTypeOK' /\ OneSubscription'
  BY <1>1, <1>2 DEF CopyTypeOK, OneSubscription
<1>5. OwnChannel'
  BY <1>1, <1>2, <1>3 DEF OwnChannel
<1>6. NothingAhead'
  BY <1>1, <1>2, <1>3 DEF NothingAhead
<1>7. ASSUME NEW r \in Replicas, NEW e \in Stored'
      PROVE  Taken(r, e)' <= copies'[e]
  <2>1. CASE e \in Stored
    <3>1. Taken(r, e)' = Taken(r, e)
      BY <2>1, <1>2, <1>3 DEF Taken
    <3> QED
      BY <3>1, <2>1, <1>1, <1>2 DEF Accounted
  <2>2. CASE e \notin Stored
    <3>1. PICK t : t = TenantOf(e)'
      OBVIOUS
    <3>2. /\ t \in Tenants /\ e \in Events /\ copies'[e] \in Nat
      <4>1. stream' \in Seq(Event) /\ e \in 1..Len(stream')
            /\ Len(stream') <= MaxEvents
        BY DEF AckTypeOK, Stored
      <4>2. stream'[e].slot \in Slots
        <5>1. stream'[e] \in Event
          BY <4>1
        <5> QED
          BY <5>1 DEF Event
      <4>3. t \in Tenants
        BY <4>2, <3>1 DEF TenantOf, Slots
      <4>4. e \in Events
        BY <4>1, RelayConstants DEF Events
      <4> QED
        BY <4>3, <4>4 DEF AckTypeOK
    <3>3. /\ \A i \in 1..Len(inbox[r][t]) : inbox[r][t][i] # e
          /\ delivering[r][t].at = "Writing" => delivering[r][t].ev # e
      BY <3>2, <2>2, <1>1 DEF OwnChannel
    <3>4. inbox[r][t] \in Seq(Nat)
      BY <3>2 DEF DueTypeOK
    <3>5. Occ(inbox[r][t], e) = 0
      BY <3>3, <3>4, OccEmpty
    <3>6. InHand(delivering[r][t], e) = 0
      BY <3>3 DEF InHand
    <3>7. sent[r][e] = 0
      BY <3>2, <2>2, <1>1 DEF NothingAhead
    <3>8. Taken(r, e)' = Occ(inbox[r][t], e) + InHand(delivering[r][t], e)
                         + sent[r][e]
      BY <3>1, <1>2 DEF Taken
    <3> QED
      BY <3>2, <3>5, <3>6, <3>7, <3>8
  <2> QED
    BY <2>1, <2>2
<1> QED
  BY <1>4, <1>5, <1>6, <1>7 DEF CopyInv, Accounted

\* ensureSubscribed: whoever finds the tenant in seenTenants does not
\* subscribe, and it is there as long as a subscription is.
LEMMA SubscribeCopies ==
    ASSUME AckTypeOK, DueTypeOK, CopyInv, NEW r \in Replicas, NEW t \in Tenants,
           UNCHANGED <<stream, inbox, delivering, sent, copies>>,
           \/ EnsureSubscribed(r, t) /\ live' = live
           \/ SubscribeTakesEffect(r, t)
    PROVE  CopyInv'
<1>1. CopyTypeOK /\ OneSubscription
  BY DEF CopyInv
<1>2. live \in [Replicas -> [Tenants -> Nat]]
  BY DEF DueTypeOK
<1>3. CASE EnsureSubscribed(r, t) /\ live' = live
  <2>1. seen' = [seen EXCEPT ![r] = @ \cup {t}]
    BY <1>3 DEF EnsureSubscribed
  <2>2. CASE t \in seen[r]
    <3>1. asked' = asked
      BY <1>3, <2>2 DEF EnsureSubscribed
    <3>2. CopyTypeOK' /\ OneSubscription'
      BY <3>1, <2>1, <1>1, <1>3 DEF CopyTypeOK, OneSubscription
    <3> QED
      BY <3>2, QuietCopies
  <2>3. CASE t \notin seen[r]
    <3>1. asked' = [asked EXCEPT ![r][t] = @ + 1]
      BY <1>3, <2>3 DEF EnsureSubscribed
    <3>2. asked[r][t] = 0 /\ live[r][t] = 0
      <4>1. ~(asked[r][t] + live[r][t] > 0)
        BY <2>3, <1>1 DEF OneSubscription
      <4>2. asked[r][t] \in Nat /\ live[r][t] \in Nat
        BY <1>1, <1>2 DEF CopyTypeOK
      <4> QED
        BY <4>1, <4>2
    <3>3. CopyTypeOK'
      BY <3>1, <2>1, <1>1 DEF CopyTypeOK
    <3>4. \A q \in Replicas, u \in Tenants :
             /\ asked'[q][u] = IF q = r /\ u = t THEN 1 ELSE asked[q][u]
             /\ u \in seen[q] => u \in seen'[q]
             /\ t \in seen'[r]
      BY <3>1, <3>2, <2>1, <1>1 DEF CopyTypeOK
    <3>5. OneSubscription'
      BY <3>2, <3>4, <1>1, <1>3 DEF OneSubscription
    <3> QED
      BY <3>3, <3>5, QuietCopies
  <2> QED
    BY <2>2, <2>3
<1>4. CASE SubscribeTakesEffect(r, t)
  <2>1. /\ asked[r][t] > 0
        /\ asked' = [asked EXCEPT ![r][t] = @ - 1]
        /\ live' = [live EXCEPT ![r][t] = @ + 1]
        /\ seen' = seen
    BY <1>4 DEF SubscribeTakesEffect
  <2>2. CopyTypeOK'
    BY <2>1, <1>1 DEF CopyTypeOK
  <2>3. \A q \in Replicas, u \in Tenants :
           asked'[q][u] + live'[q][u] = asked[q][u] + live[q][u]
    BY <2>1, <1>1, <1>2 DEF CopyTypeOK
  <2>4. OneSubscription'
    BY <2>1, <2>3, <1>1 DEF OneSubscription
  <2> QED
    BY <2>2, <2>4, QuietCopies
<1> QED
  BY <1>3, <1>4

\* What one step of the relay does to the counts: it is enough to show that
\* they do not outgrow the publishes.
LEMMA CountedCopies ==
    ASSUME AckTypeOK, DueTypeOK, CopyInv, CopyTypeOK', OneSubscription',
           OwnChannel', NothingAhead', stream' = stream,
           \A r \in Replicas, e \in Stored :
              \/ Taken(r, e)' <= Taken(r, e) /\ copies'[e] = copies[e]
              \/ Taken(r, e)' <= Taken(r, e) + 1 /\ copies'[e] = copies[e] + 1,
           \A r \in Replicas, e \in Stored : Taken(r, e)' \in Int
    PROVE  CopyInv'
<1>1. Stored' = Stored
  BY DEF Stored
<1>2. ASSUME NEW r \in Replicas, NEW e \in Stored
      PROVE  Taken(r, e)' <= copies'[e]
  <2>1. Taken(r, e) \in Nat /\ copies[e] \in Nat /\ Taken(r, e) <= copies[e]
    BY TakenType DEF CopyInv, Accounted, Taken
  <2>2. Taken(r, e)' \in Int
    OBVIOUS
  <2>3. \/ Taken(r, e)' <= Taken(r, e) /\ copies'[e] = copies[e]
        \/ Taken(r, e)' <= Taken(r, e) + 1 /\ copies'[e] = copies[e] + 1
    OBVIOUS
  <2> QED
    BY <2>1, <2>2, <2>3
<1>3. Accounted'
  BY <1>1, <1>2 DEF Accounted
<1> QED
  BY <1>3 DEF CopyInv

\* A publish gives each replica at most one copy more.
LEMMA PublishCopies ==
    ASSUME AckTypeOK, DueTypeOK, HandledIsStored, CopyInv, NEW r \in Replicas,
           NEW k \in Kinds, Publish(r, k)
    PROVE  CopyInv'
<1>1. /\ CopyTypeOK /\ OneSubscription /\ OwnChannel /\ NothingAhead
  BY DEF CopyInv
<1>2. PICK e : e = callback[r][k].ev
  OBVIOUS
<1>3. callback[r][k].at = "Publishing" /\ e \in Stored
  BY <1>2 DEF Publish, HandledIsStored
<1>4. TenantOf(e) \in Tenants /\ e \in Nat /\ e \in Events
  BY <1>1, <1>3, StoredEvent, RelayConstants DEF AckTypeOK, Stored, Events
<1>5. UNCHANGED <<stream, asked, seen, live, delivering, sent>>
  BY DEF Publish
<1>6. copies' = [copies EXCEPT ![e] = @ + 1]
  BY <1>2 DEF Publish, Spread
<1>7. inbox' = [q \in Replicas |-> [t \in Tenants |->
           IF t = TenantOf(e)
           THEN inbox[q][t] \o [i \in 1..live[q][t] |-> e]
           ELSE inbox[q][t]]]
  BY <1>2 DEF Publish, Spread
<1>8. CopyTypeOK' /\ OneSubscription'
  BY <1>1, <1>5 DEF CopyTypeOK, OneSubscription
<1>9. Stored' = Stored /\ \A x : TenantOf(x)' = TenantOf(x)
  BY <1>5 DEF Stored, TenantOf
<1>10. NothingAhead'
  BY <1>1, <1>5, <1>9 DEF NothingAhead
<1>11. ASSUME NEW q \in Replicas, NEW t \in Tenants
       PROVE  \/ /\ t = TenantOf(e)
                 /\ \E m \in Seq(Nat) :
                       /\ Len(m) <= 1 /\ \A i \in 1..Len(m) : m[i] = e
                       /\ inbox'[q][t] = inbox[q][t] \o m
              \/ t # TenantOf(e) /\ inbox'[q][t] = inbox[q][t]
  <2>1. CASE t = TenantOf(e)
    <3>1. PICK n : n = live[q][t]
      OBVIOUS
    <3>2. n \in Nat /\ n <= 1
      <4>1. asked[q][t] \in Nat /\ n \in Nat /\ asked[q][t] + n <= 1
        BY <3>1, <1>1 DEF DueTypeOK, CopyTypeOK, OneSubscription
      <4> QED
        BY <4>1
    <3>3. PICK m : m = [i \in 1..n |-> e]
      OBVIOUS
    <3>4. m \in Seq(Nat) /\ Len(m) = n /\ \A i \in 1..n : m[i] = e
      BY <3>2, <3>3, <1>4
    <3>5. inbox'[q][t] = inbox[q][t] \o m
      BY <3>1, <3>3, <2>1, <1>7
    <3> QED
      BY <3>2, <3>4, <3>5, <2>1
  <2>2. CASE t # TenantOf(e)
    BY <2>2, <1>7
  <2> QED
    BY <2>1, <2>2
<1>12. OwnChannel'
  <2>1. ASSUME NEW q \in Replicas, NEW t \in Tenants,
               NEW i \in 1..Len(inbox'[q][t])
        PROVE  inbox'[q][t][i] \in Stored /\ TenantOf(inbox'[q][t][i]) = t
    <3>1. PICK b : b = inbox[q][t]
      OBVIOUS
    <3>2. b \in Seq(Nat) /\ \A j \in 1..Len(b) : b[j] \in Stored
                                                  /\ TenantOf(b[j]) = t
      BY <3>1, <1>1 DEF DueTypeOK, OwnChannel
    <3>3. ASSUME NEW m \in Seq(Nat), Len(m) <= 1,
                 \A j \in 1..Len(m) : m[j] = e,
                 inbox'[q][t] = b \o m, t = TenantOf(e)
          PROVE  inbox'[q][t][i] \in Stored /\ TenantOf(inbox'[q][t][i]) = t
      <4>1. \/ i \in 1..Len(b) /\ (b \o m)[i] = b[i]
            \/ (b \o m)[i] = e
        BY <3>2, <3>3
      <4> QED
        BY <4>1, <3>2, <3>3, <1>3
    <3> QED
      BY <3>1, <3>2, <3>3, <1>11
  <2> QED
    BY <2>1, <1>1, <1>5, <1>9 DEF OwnChannel
<1>13. ASSUME NEW q \in Replicas, NEW x \in Stored
       PROVE  /\ Taken(q, x)' \in Int
              /\ \/ Taken(q, x)' <= Taken(q, x) /\ copies'[x] = copies[x]
                 \/ /\ Taken(q, x)' <= Taken(q, x) + 1
                    /\ copies'[x] = copies[x] + 1
  <2>1. PICK t : t = TenantOf(x)
    OBVIOUS
  <2>2. PICK b : b = inbox[q][t]
    OBVIOUS
  <2>3. PICK p : p = inbox'[q][t]
    OBVIOUS
  <2>4. PICK h : h = InHand(delivering[q][t], x)
    OBVIOUS
  <2>5. /\ Occ(b, x) \in Nat /\ h \in Nat /\ sent[q][x] \in Nat
        /\ copies[x] \in Nat /\ t \in Tenants /\ x \in Events
    BY <2>1, <2>2, <2>4, <1>1, TakenType
  <2>6. Taken(q, x) = Occ(b, x) + h + sent[q][x]
    BY <2>1, <2>2, <2>4 DEF Taken
  <2>7. Taken(q, x)' = Occ(p, x) + h + sent[q][x]
    BY <2>1, <2>3, <2>4, <1>5, <1>9 DEF Taken
  <2>8. copies'[x] = IF x = e THEN copies[x] + 1 ELSE copies[x]
    BY <2>5, <1>6 DEF AckTypeOK
  <2>9. b \in Seq(Nat)
    BY <2>2, <2>5 DEF DueTypeOK
  <2>10. /\ Occ(p, x) \in Nat /\ Occ(p, x) <= Occ(b, x) + 1
         /\ x # e => Occ(p, x) <= Occ(b, x)
    <3>1. CASE p = b
      BY <3>1, <2>5
    <3>2. ASSUME NEW m \in Seq(Nat), Len(m) <= 1,
                 \A j \in 1..Len(m) : m[j] = e, p = b \o m
          PROVE  /\ Occ(p, x) \in Nat /\ Occ(p, x) <= Occ(b, x) + 1
                 /\ x # e => Occ(p, x) <= Occ(b, x)
      <4>1. b \o m \in Seq(Nat)
        BY <2>9
      <4>2. Occ(p, x) \in Nat
        BY <4>1, <3>2, OccType
      <4>3. /\ Occ(b \o m, x) <= Occ(b, x) + 1
            /\ x # e => Occ(b \o m, x) <= Occ(b, x)
        BY <2>9, <3>2, OccSpread
      <4> QED
        BY <4>2, <4>3, <3>2
    <3> QED
      BY <3>1, <3>2, <2>2, <2>3, <2>5, <1>11
  <2> QED
    BY <2>5, <2>6, <2>7, <2>8, <2>10
<1> QED
  BY <1>5, <1>8, <1>10, <1>12, <1>13, CountedCopies

\* The counts of a replica whose subscription takes a step: its queue is b
\* before and p after, its hand h before and g after.
LEMMA MovedCopies ==
    ASSUME AckTypeOK, DueTypeOK, CopyInv, NEW r \in Replicas,
           NEW t \in Tenants, NEW p \in Seq(Nat), NEW g,
           CopyTypeOK', OneSubscription', NothingAhead', OwnChannel',
           UNCHANGED <<stream, copies>>,
           inbox' = [inbox EXCEPT ![r][t] = p],
           delivering' = [delivering EXCEPT ![r][t] = g],
           \A q \in Replicas, e \in Stored :
              sent'[q][e] # sent[q][e] => q = r /\ TenantOf(e) = t,
           \A e \in Stored : TenantOf(e) = t =>
              Occ(p, e) + InHand(g, e) + sent'[r][e] <= Taken(r, e)
    PROVE  CopyInv'
<1>1. CopyTypeOK /\ Accounted
  BY DEF CopyInv
<1>2. ASSUME NEW q \in Replicas, NEW e \in Stored
      PROVE  /\ Taken(q, e)' \in Int
             /\ Taken(q, e)' <= Taken(q, e) /\ copies'[e] = copies[e]
  <2>1. PICK u : u = TenantOf(e)
    OBVIOUS
  <2>2. /\ Occ(inbox[q][u], e) \in Nat /\ InHand(delivering[q][u], e) \in 0..1
        /\ e \in Events /\ sent[q][e] \in Nat /\ u \in Tenants
    BY <2>1, <1>1, TakenType
  <2>3. TenantOf(e)' = u
    BY <2>1 DEF TenantOf
  <2>4. Taken(q, e)' = Occ(inbox'[q][u], e) + InHand(delivering'[q][u], e)
                       + sent'[q][e]
    BY <2>3 DEF Taken
  <2>5. Taken(q, e) = Occ(inbox[q][u], e) + InHand(delivering[q][u], e)
                      + sent[q][e]
    BY <2>1 DEF Taken
  <2>6. sent'[q][e] \in Nat
    BY <2>2 DEF CopyTypeOK
  <2>7. CASE q = r /\ u = t
    <3>1. inbox'[q][u] = p /\ delivering'[q][u] = g
      BY <2>7, <2>2 DEF DueTypeOK
    <3>2. Occ(p, e) \in Nat /\ InHand(g, e) \in 0..1
      <4>1. Occ(p, e) \in Nat
        BY OccType
      <4>2. InHand(g, e) \in 0..1
        BY DEF InHand
      <4> QED
        BY <4>1, <4>2
    <3>3. Taken(q, e)' = Occ(p, e) + InHand(g, e) + sent'[q][e]
      BY <3>1, <2>4
    <3>4. Taken(q, e)' <= Taken(q, e)
      BY <3>3, <2>1, <2>7
    <3>5. Taken(q, e)' \in Int
      BY <3>2, <3>3, <2>6
    <3> QED
      BY <3>4, <3>5
  <2>8. CASE ~(q = r /\ u = t)
    <3>1. /\ inbox'[q][u] = inbox[q][u]
          /\ delivering'[q][u] = delivering[q][u]
          /\ sent'[q][e] = sent[q][e]
      BY <2>1, <2>2, <2>8 DEF DueTypeOK
    <3>2. Taken(q, e)' = Taken(q, e)
      BY <3>1, <2>4, <2>5
    <3>3. Taken(q, e) \in Int
      BY <2>2, <2>5
    <3> QED
      BY <3>2, <3>3
  <2> QED
    BY <2>7, <2>8
<1> QED
  BY <1>2, CountedCopies

\* deliverIfLocal moves the head of the queue to the hand or drops it.
LEMMA DeliverCopies ==
    ASSUME AckTypeOK, DueTypeOK, CopyInv, NEW r \in Replicas,
           NEW t \in Tenants, DeliverIfLocal(r, t)
    PROVE  CopyInv'
<1>1. CopyTypeOK /\ OneSubscription /\ OwnChannel /\ NothingAhead
  BY DEF CopyInv
<1>2. PICK b : b = inbox[r][t]
  OBVIOUS
<1>3. /\ b \in Seq(Nat) /\ b # <<>> /\ delivering[r][t] = Idle
      /\ \A i \in 1..Len(b) : b[i] \in Stored /\ TenantOf(b[i]) = t
  BY <1>1, <1>2 DEF DeliverIfLocal, DueTypeOK, OwnChannel
<1>4. PICK h : h = Head(b)
  OBVIOUS
<1>5. PICK p : p = Tail(b)
  OBVIOUS
<1>6. /\ h = b[1] /\ h \in Nat /\ Len(b) >= 1
      /\ p \in Seq(Nat) /\ Len(p) = Len(b) - 1
      /\ \A i \in 1..Len(p) : p[i] = b[i + 1]
  BY <1>3, <1>4, <1>5
<1>7. h \in Stored /\ TenantOf(h) = t
  BY <1>3, <1>6
<1>8. PICK d : d = reg[r][stream[h].slot]
  OBVIOUS
<1>9. PICK g : g = IF d = NoConn THEN Idle ELSE Writing(h, d)
  OBVIOUS
<1>10. /\ UNCHANGED <<stream, copies, asked, seen, live, sent>>
       /\ inbox' = [inbox EXCEPT ![r][t] = p]
       /\ delivering' = IF d = NoConn THEN delivering
                        ELSE [delivering EXCEPT ![r][t] = Writing(h, d)]
  BY <1>2, <1>4, <1>5, <1>8 DEF DeliverIfLocal, Lookup
<1>11. delivering' = [delivering EXCEPT ![r][t] = g]
  <2>1. CASE d = NoConn
    <3>1. delivering' = delivering /\ g = delivering[r][t]
      BY <2>1, <1>3, <1>9, <1>10
    <3> QED
      BY <3>1 DEF DueTypeOK
  <2>2. CASE d # NoConn
    BY <2>2, <1>9, <1>10
  <2> QED
    BY <2>1, <2>2
<1>12. /\ Idle.at = "Idle" /\ Writing(h, d).ev = h
       /\ g.at = "Writing" => g.ev = h
  BY <1>9 DEF Idle, Writing
<1>13. CopyTypeOK' /\ OneSubscription'
  BY <1>1, <1>10 DEF CopyTypeOK, OneSubscription
<1>14. Stored' = Stored /\ \A x : TenantOf(x)' = TenantOf(x)
  BY <1>10 DEF Stored, TenantOf
<1>15. NothingAhead'
  BY <1>1, <1>10, <1>14 DEF NothingAhead
<1>16. OwnChannel'
  <2>1. \A i \in 1..Len(p) : p[i] \in Stored /\ TenantOf(p[i]) = t
    <3>1. \A i \in 1..Len(p) : i + 1 \in 1..Len(b) /\ p[i] = b[i + 1]
      BY <1>3, <1>6
    <3> QED
      BY <3>1, <1>3
  <2>2. \A q \in Replicas, u \in Tenants :
           /\ inbox'[q][u] = IF q = r /\ u = t THEN p ELSE inbox[q][u]
           /\ delivering'[q][u] = IF q = r /\ u = t THEN g
                                  ELSE delivering[q][u]
    BY <1>10, <1>11 DEF DueTypeOK
  <2>3. ASSUME NEW q \in Replicas, NEW u \in Tenants
        PROVE  /\ \A i \in 1..Len(inbox'[q][u]) :
                     inbox'[q][u][i] \in Stored /\ TenantOf(inbox'[q][u][i]) = u
               /\ delivering'[q][u].at = "Writing" =>
                     /\ delivering'[q][u].ev \in Stored
                     /\ TenantOf(delivering'[q][u].ev) = u
    BY <2>1, <2>2, <1>1, <1>7, <1>12 DEF OwnChannel
  <2> QED
    BY <2>3, <1>14 DEF OwnChannel
<1>17. ASSUME NEW e \in Stored, TenantOf(e) = t
       PROVE  Occ(p, e) + InHand(g, e) + sent'[r][e] <= Taken(r, e)
  <2>1. Taken(r, e) = Occ(b, e) + InHand(Idle, e) + sent[r][e]
    BY <1>2, <1>3, <1>17 DEF Taken
  <2>2. InHand(Idle, e) = 0
    BY <1>12 DEF InHand
  <2>3. Occ(b, e) \in Nat /\ Occ(p, e) \in Nat /\ sent[r][e] \in Nat
    BY <1>1, <1>3, <1>6, OccType, TakenType
  <2>4. /\ Occ(p, e) <= Occ(b, e)
        /\ h = e => Occ(p, e) + 1 <= Occ(b, e)
    BY <1>3, <1>4, <1>5, OccTail
  <2>5. InHand(g, e) \in 0..1 /\ (InHand(g, e) = 1 => h = e)
    BY <1>12 DEF InHand
  <2>6. sent' = sent
    BY <1>10
  <2> QED
    BY <2>1, <2>2, <2>3, <2>4, <2>5, <2>6
<1> QED
  BY <1>6, <1>10, <1>11, <1>13, <1>15, <1>16, <1>17, MovedCopies

\* Send writes what is in the hand, once, or drops it.
LEMMA SendCopies ==
    ASSUME AckTypeOK, DueTypeOK, CopyInv, NEW r \in Replicas,
           NEW t \in Tenants, Send(r, t)
    PROVE  CopyInv'
<1>1. CopyTypeOK /\ OneSubscription /\ OwnChannel /\ NothingAhead
  BY DEF CopyInv
<1>2. PICK w : w = delivering[r][t]
  OBVIOUS
<1>3. PICK x : x = w.ev
  OBVIOUS
<1>4. w.at = "Writing" /\ x \in Stored /\ TenantOf(x) = t
  BY <1>1, <1>2, <1>3 DEF Send, OwnChannel
<1>5. x \in Events
  BY <1>4, RelayConstants DEF AckTypeOK, Stored, Events
<1>6. /\ UNCHANGED <<stream, copies, asked, seen, live, inbox>>
      /\ delivering' = [delivering EXCEPT ![r][t] = Idle]
      /\ sent' = sent \/ sent' = [sent EXCEPT ![r][x] = @ + 1]
  BY <1>2, <1>3 DEF Send
<1>7. inbox' = [inbox EXCEPT ![r][t] = inbox[r][t]] /\ inbox[r][t] \in Seq(Nat)
  BY <1>6 DEF DueTypeOK
<1>8. CopyTypeOK' /\ OneSubscription'
  <2>1. sent' \in [Replicas -> [Events -> Nat]]
    <3>1. CASE sent' = sent
      BY <3>1, <1>1 DEF CopyTypeOK
    <3>2. CASE sent' = [sent EXCEPT ![r][x] = @ + 1]
      BY <3>2, <1>1, <1>5 DEF CopyTypeOK
    <3> QED
      BY <3>1, <3>2, <1>6
  <2>2. CopyTypeOK'
    BY <2>1, <1>1, <1>6 DEF CopyTypeOK
  <2>3. OneSubscription'
    BY <1>1, <1>6 DEF OneSubscription
  <2> QED
    BY <2>2, <2>3
<1>9. Stored' = Stored /\ \A e : TenantOf(e)' = TenantOf(e)
  BY <1>6 DEF Stored, TenantOf
<1>10. \A q \in Replicas, e \in Events :
          /\ sent'[q][e] # sent[q][e] => q = r /\ e = x
          /\ sent'[q][e] = sent[q][e] \/ sent'[q][e] = sent[q][e] + 1
  BY <1>1, <1>5, <1>6 DEF CopyTypeOK
<1>11. NothingAhead'
  BY <1>1, <1>4, <1>9, <1>10 DEF NothingAhead
<1>12. Idle.at = "Idle"
  BY DEF Idle
<1>13. OwnChannel'
  <2>1. \A q \in Replicas, u \in Tenants :
           delivering'[q][u] \in {Idle, delivering[q][u]}
    BY <1>6 DEF DueTypeOK
  <2> QED
    BY <2>1, <1>1, <1>6, <1>9, <1>12 DEF OwnChannel
<1>14. ASSUME NEW e \in Stored, TenantOf(e) = t
       PROVE  Occ(inbox[r][t], e) + InHand(Idle, e) + sent'[r][e]
                <= Taken(r, e)
  <2>1. Taken(r, e) = Occ(inbox[r][t], e) + InHand(w, e) + sent[r][e]
    BY <1>2, <1>14 DEF Taken
  <2>2. InHand(Idle, e) = 0
    BY <1>12 DEF InHand
  <2>3. /\ Occ(inbox[r][t], e) \in Nat /\ sent[r][e] \in Nat /\ e \in Events
    BY <1>1, <1>14, TakenType
  <2>4. InHand(w, e) \in 0..1 /\ (e = x => InHand(w, e) = 1)
    BY <1>3, <1>4 DEF InHand
  <2>5. /\ sent'[r][e] # sent[r][e] => e = x
        /\ sent'[r][e] = sent[r][e] \/ sent'[r][e] = sent[r][e] + 1
    BY <2>3, <1>10
  <2> QED
    BY <2>1, <2>2, <2>3, <2>4, <2>5
<1>15. \A q \in Replicas, e \in Stored :
          sent'[q][e] # sent[q][e] => q = r /\ TenantOf(e) = t
  <2>1. Stored \subseteq Events
    BY RelayConstants DEF AckTypeOK, Stored, Events
  <2> QED
    BY <2>1, <1>4, <1>10
<1> QED
  BY <1>6, <1>7, <1>8, <1>11, <1>13, <1>14, <1>15, MovedCopies

\* A subscription or a process that ends loses what it had.
LEMMA EndCopies ==
    ASSUME AckTypeOK, DueTypeOK, CopyInv, NEW r \in Replicas,
           Forget(r) \/ \E t \in Tenants : Unsubscribe(r, t)
    PROVE  CopyInv'
<1>1. CopyTypeOK /\ OneSubscription /\ OwnChannel /\ NothingAhead
  BY DEF CopyInv
<1>2. Idle.at = "Idle"
  BY DEF Idle
<1>3. UNCHANGED <<stream, copies, sent>>
  BY DEF Forget, Unsubscribe
<1>4. /\ asked' \in [Replicas -> [Tenants -> Nat]]
      /\ seen' \in [Replicas -> SUBSET Tenants]
      /\ \A q \in Replicas, u \in Tenants :
            /\ inbox'[q][u] = inbox[q][u] \/ inbox'[q][u] = <<>>
            /\ delivering'[q][u] \in {Idle, delivering[q][u]}
            /\ \/ /\ asked'[q][u] = asked[q][u] /\ live'[q][u] = live[q][u]
                  /\ seen'[q] = seen[q]
               \/ asked'[q][u] = 0 /\ live'[q][u] = 0
  <2>1. CASE Forget(r)
    <3>1. /\ asked' = [asked EXCEPT ![r] = [t \in Tenants |-> 0]]
          /\ live' = [live EXCEPT ![r] = [t \in Tenants |-> 0]]
          /\ seen' = [seen EXCEPT ![r] = {}]
      BY <2>1 DEF Forget
    <3>2. /\ inbox' = [inbox EXCEPT ![r] = [t \in Tenants |-> <<>>]]
          /\ delivering' = [delivering EXCEPT ![r] = [t \in Tenants |-> Idle]]
      BY <2>1 DEF Forget
    <3>3. /\ asked' \in [Replicas -> [Tenants -> Nat]]
          /\ seen' \in [Replicas -> SUBSET Tenants]
      BY <3>1, <1>1 DEF CopyTypeOK
    <3>4. \A q \in Replicas, u \in Tenants :
             \/ /\ asked'[q][u] = asked[q][u] /\ live'[q][u] = live[q][u]
                /\ seen'[q] = seen[q]
             \/ asked'[q][u] = 0 /\ live'[q][u] = 0
      BY <3>1, <1>1 DEF CopyTypeOK, DueTypeOK
    <3>5. \A q \in Replicas, u \in Tenants :
             /\ inbox'[q][u] = inbox[q][u] \/ inbox'[q][u] = <<>>
             /\ delivering'[q][u] \in {Idle, delivering[q][u]}
      BY <3>2 DEF DueTypeOK
    <3> QED
      BY <3>3, <3>4, <3>5
  <2>2. ASSUME NEW t \in Tenants, Unsubscribe(r, t)
        PROVE  /\ asked' \in [Replicas -> [Tenants -> Nat]]
               /\ seen' \in [Replicas -> SUBSET Tenants]
               /\ \A q \in Replicas, u \in Tenants :
                     /\ inbox'[q][u] = inbox[q][u] \/ inbox'[q][u] = <<>>
                     /\ delivering'[q][u] \in {Idle, delivering[q][u]}
                     /\ \/ /\ asked'[q][u] = asked[q][u] /\ live'[q][u] = live[q][u]
                           /\ seen'[q] = seen[q]
                        \/ asked'[q][u] = 0 /\ live'[q][u] = 0
    <3>1. /\ asked' = [asked EXCEPT ![r][t] = 0]
          /\ live' = [live EXCEPT ![r][t] = 0]
          /\ seen' = seen /\ delivering' = delivering
          /\ inbox' = [inbox EXCEPT ![r][t] = <<>>]
      BY <2>2 DEF Unsubscribe
    <3>2. asked' \in [Replicas -> [Tenants -> Nat]]
      BY <3>1, <1>1 DEF CopyTypeOK
    <3>3. \A q \in Replicas, u \in Tenants :
             \/ asked'[q][u] = asked[q][u] /\ live'[q][u] = live[q][u]
             \/ asked'[q][u] = 0 /\ live'[q][u] = 0
      BY <3>1, <1>1 DEF CopyTypeOK, DueTypeOK
    <3>4. \A q \in Replicas, u \in Tenants :
             inbox'[q][u] = inbox[q][u] \/ inbox'[q][u] = <<>>
      BY <3>1 DEF DueTypeOK
    <3> QED
      BY <3>1, <3>2, <3>3, <3>4, <1>1 DEF CopyTypeOK
  <2> QED
    BY <2>1, <2>2
<1>5. CopyTypeOK'
  BY <1>1, <1>3, <1>4 DEF CopyTypeOK
<1>6. OneSubscription'
  BY <1>1, <1>4 DEF OneSubscription
<1>7. Stored' = Stored /\ \A e : TenantOf(e)' = TenantOf(e)
  BY <1>3 DEF Stored, TenantOf
<1>8. NothingAhead'
  BY <1>1, <1>3, <1>7 DEF NothingAhead
<1>9. OwnChannel'
  <2>1. ASSUME NEW q \in Replicas, NEW u \in Tenants
        PROVE  /\ \A i \in 1..Len(inbox'[q][u]) :
                     inbox'[q][u][i] \in Stored /\ TenantOf(inbox'[q][u][i]) = u
               /\ delivering'[q][u].at = "Writing" =>
                     /\ delivering'[q][u].ev \in Stored
                     /\ TenantOf(delivering'[q][u].ev) = u
    <3>1. inbox'[q][u] = inbox[q][u] \/ inbox'[q][u] = <<>>
      BY <1>4
    <3>2. delivering'[q][u] \in {Idle, delivering[q][u]}
      BY <1>4
    <3> QED
      BY <3>1, <3>2, <1>1, <1>2 DEF OwnChannel
  <2> QED
    BY <2>1, <1>7 DEF OwnChannel
<1>10. ASSUME NEW q \in Replicas, NEW e \in Stored
       PROVE  Taken(q, e)' \in Int /\ Taken(q, e)' <= Taken(q, e)
  <2>1. PICK u : u = TenantOf(e)
    OBVIOUS
  <2>2. /\ Occ(inbox[q][u], e) \in Nat /\ InHand(delivering[q][u], e) \in 0..1
        /\ e \in Events /\ sent[q][e] \in Nat /\ u \in Tenants
    BY <2>1, <1>1, TakenType
  <2>3. Occ(<<>>, e) = 0
    <3>1. PICK n : n = <<>>
      OBVIOUS
    <3>2. n \in Seq(Nat) /\ \A i \in 1..Len(n) : n[i] # e
      BY <3>1
    <3> QED
      BY <3>1, <3>2, OccEmpty
  <2>4. InHand(Idle, e) = 0
    BY <1>2 DEF InHand
  <2>5. \/ Occ(inbox'[q][u], e) = Occ(inbox[q][u], e)
        \/ Occ(inbox'[q][u], e) = 0
    BY <2>2, <2>3, <1>4
  <2>6. \/ InHand(delivering'[q][u], e) = InHand(delivering[q][u], e)
        \/ InHand(delivering'[q][u], e) = 0
    BY <2>2, <2>4, <1>4
  <2>7. Taken(q, e)' = Occ(inbox'[q][u], e) + InHand(delivering'[q][u], e)
                       + sent[q][e]
    BY <2>1, <1>3, <1>7 DEF Taken
  <2>8. Taken(q, e) = Occ(inbox[q][u], e) + InHand(delivering[q][u], e)
                      + sent[q][e]
    BY <2>1 DEF Taken
  <2> QED
    BY <2>2, <2>5, <2>6, <2>7, <2>8
<1> QED
  BY <1>3, <1>5, <1>6, <1>8, <1>9, <1>10, CountedCopies

\* seenTenants: with any number of replicas, tenants, connections and
\* events, a replica writes each copy of an event at most once.
THEOREM CopiesWrittenOnce == Spec => []CopyWrittenOnce
<1>1. AckInv /\ AckInv' /\ DueInv /\ CopyInv /\ [Next]_vars => CopyInv'
  <2> SUFFICES ASSUME AckInv, AckInv', DueInv, CopyInv, [Next]_vars
               PROVE  CopyInv'
    OBVIOUS
  <2>0. AckTypeOK /\ AckTypeOK' /\ DueTypeOK /\ HandledIsStored
        /\ CopyTypeOK /\ OneSubscription
    BY DEF AckInv, DueInv, CopyInv
  <2>1. ASSUME UNCHANGED <<stream, asked, seen, live, inbox, delivering, sent,
                           copies>>
        PROVE  CopyInv'
    BY <2>0, <2>1, QuietCopies DEF CopyTypeOK, OneSubscription
  <2>2. CASE UNCHANGED vars
    BY <2>1, <2>2 DEF vars, relayVars
  <2>3. ASSUME NEW s \in Slots, NEW k \in Kinds, PublishEvent(s, k)
        PROVE  CopyInv'
    BY <2>0, <2>3, PublishEventCopies
  <2>4. ASSUME NEW r \in Replicas, NEW k \in Kinds, NEW e \in Stored,
               Handle(r, k, e)
        PROVE  CopyInv'
    <3>1. TenantOf(e) \in Tenants
      BY <2>0, StoredEvent
    <3>2. /\ EnsureSubscribed(r, TenantOf(e)) /\ live' = live
          /\ UNCHANGED <<stream, inbox, delivering, sent, copies>>
      BY <2>4 DEF Handle
    <3> QED
      BY <2>0, <3>1, <3>2, SubscribeCopies
  <2>5. ASSUME NEW r \in Replicas, NEW k \in Kinds, Relay(r, k)
        PROVE  CopyInv'
    <3>1. CASE Publish(r, k)
      BY <2>0, <3>1, PublishCopies
    <3>2. CASE PublishFails(r, k) \/ Ack(r, k)
      BY <2>1, <3>2 DEF PublishFails, Ack
    <3> QED
      BY <2>5, <3>1, <3>2 DEF Relay
  <2>6. ASSUME NEW r \in Replicas, NEW t \in Tenants,
               SubscribeTakesEffect(r, t)
        PROVE  CopyInv'
    BY <2>0, <2>6, SubscribeCopies DEF SubscribeTakesEffect
  <2>7. ASSUME NEW r \in Replicas, NEW t \in Tenants,
               Unsubscribe(r, t) \/ DeliverIfLocal(r, t) \/ Send(r, t)
        PROVE  CopyInv'
    BY <2>0, <2>7, EndCopies, DeliverCopies, SendCopies
  <2>8. CASE ConnStep
    <3>1. \/ UNCHANGED <<stream, asked, seen, live, inbox, delivering, sent,
                         copies>>
          \/ \E r \in Replicas : Forget(r)
      BY <2>8 DEF ConnStep, relayVars
    <3> QED
      BY <2>0, <2>1, <3>1, EndCopies
  <2> QED
    BY <2>2, <2>3, <2>4, <2>5, <2>6, <2>7, <2>8, StepKinds DEF RelayStep
<1>2. AckInv /\ DueInv /\ CopyInv => CopyWrittenOnce
  <2> SUFFICES ASSUME AckInv, DueInv, CopyInv, NEW r \in Replicas,
                      NEW e \in Events
               PROVE  sent[r][e] <= copies[e]
    BY DEF CopyWrittenOnce
  <2>1. AckTypeOK /\ DueTypeOK /\ CopyTypeOK /\ NothingAhead /\ Accounted
    BY DEF AckInv, DueInv, CopyInv
  <2>2. CASE e \in Stored
    <3>1. /\ Occ(inbox[r][TenantOf(e)], e) \in Nat
          /\ InHand(delivering[r][TenantOf(e)], e) \in 0..1
          /\ sent[r][e] \in Nat /\ copies[e] \in Nat
      BY <2>1, <2>2, TakenType
    <3>2. Taken(r, e) <= copies[e]
      BY <2>1, <2>2 DEF Accounted
    <3> QED
      BY <3>1, <3>2 DEF Taken
  <2>3. CASE e \notin Stored
    <3>1. sent[r][e] = 0 /\ copies[e] \in Nat
      BY <2>1, <2>3 DEF NothingAhead, AckTypeOK
    <3> QED
      BY <3>1
  <2> QED
    BY <2>2, <2>3
<1> QED
  BY <1>1, <1>2, CopyInitInv, AckInvariant, DueInvariant, PTL DEF Spec
=============================================================================
