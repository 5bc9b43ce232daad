----------------------- MODULE RouterCapacity_proofs -----------------------
(***************************************************************************)
(* Proof that a channel's active count never overstates: every slot that   *)
(* is counted as taken, beyond what the client declared when it created    *)
(* the agent, is accounted for by an in-flight reservation of the agent.   *)
(***************************************************************************)
EXTENDS RouterStore_proofs

\* The inductive invariant: a dropped channel counts nothing, and in-flight
\* sets are finite, so that cardinalities are numbers.
AgentAccounted(a) ==
    /\ IsFiniteSet(offers[a])
    /\ \A c \in Channels :
          /\ ~capacity[a][c].exists => capacity[a][c].active = 0
          /\ capacity[a][c].active <=
                 Cardinality(ClaimsOn(a, c)) + Declared(capacity[a][c])
Accounted == \A a \in Agents : AgentAccounted(a)

\* The channel a reservation takes a slot of.
ChannelOf(r) == task[reservation[r].task].type

\* An in-flight set that is finite holds finitely many claims on a channel.
LEMMA ClaimsFinite ==
    ASSUME Accounted, NEW a \in Agents, NEW c \in Channels
    PROVE  /\ IsFiniteSet(ClaimsOn(a, c))
           /\ Cardinality(ClaimsOn(a, c)) \in Nat
<1>1. IsFiniteSet(offers[a]) /\ ClaimsOn(a, c) \in SUBSET offers[a]
  BY DEF Accounted, AgentAccounted, ClaimsOn
<1>2. IsFiniteSet(ClaimsOn(a, c))
  BY <1>1, FS_Subset
<1> QED
  BY <1>2, FS_CardinalityType

\* An agent whose in-flight set and its channels stay the same is accounted
\* for if its counts do not grow.
LEMMA SameClaims ==
    ASSUME TypeOK, TypeOK', Accounted, NEW a \in Agents,
           offers'[a] = offers[a],
           \A r \in offers[a] : ChannelOf(r)' = ChannelOf(r),
           \A c \in Channels :
              /\ ~capacity'[a][c].exists => capacity'[a][c].active = 0
              /\ \/ capacity'[a][c].active <= Declared(capacity'[a][c])
                 \/ /\ capacity'[a][c].active = capacity[a][c].active
                    /\ capacity'[a][c].declared = capacity[a][c].declared
    PROVE  AgentAccounted(a)'
<1>1. IsFiniteSet(offers'[a])
  BY DEF Accounted, AgentAccounted
<1>2. ASSUME NEW c \in Channels
      PROVE  capacity'[a][c].active <=
                 Cardinality(ClaimsOn(a, c)') + Declared(capacity'[a][c])
  <2>1. ClaimsOn(a, c)' = ClaimsOn(a, c)
    BY DEF ClaimsOn, ChannelOf
  <2>2. Cardinality(ClaimsOn(a, c)) \in Nat
    BY ClaimsFinite
  <2>3. /\ capacity[a][c].active \in Int /\ capacity'[a][c].active \in Int
        /\ Declared(capacity[a][c]) \in Nat /\ Declared(capacity'[a][c]) \in Nat
    BY DEF TypeOK, Capacity, Declared
  <2>4. capacity[a][c].active <=
            Cardinality(ClaimsOn(a, c)) + Declared(capacity[a][c])
    BY DEF Accounted, AgentAccounted
  <2>5. \/ capacity'[a][c].active <= Declared(capacity'[a][c])
        \/ /\ capacity'[a][c].active = capacity[a][c].active
           /\ Declared(capacity'[a][c]) = Declared(capacity[a][c])
    BY DEF Declared
  <2> QED
    BY <2>1, <2>2, <2>3, <2>4, <2>5
<1> QED
  BY <1>1, <1>2 DEF AgentAccounted

\* An agent that loses one in-flight reservation is accounted for if the
\* reservation's channel gives a slot back, whenever it has one to give.
LEMMA LostClaim ==
    ASSUME TypeOK, Accounted, NEW a \in Agents, NEW d \in Channels, NEW r,
           offers'[a] = offers[a] \ {r},
           r \in offers[a] => ChannelOf(r) = d,
           \A s \in offers[a] \ {r} : ChannelOf(s)' = ChannelOf(s),
           capacity'[a] = Released(capacity[a], d)
    PROVE  AgentAccounted(a)'
<1>1. IsFiniteSet(offers'[a])
  BY FS_RemoveElement DEF Accounted, AgentAccounted
<1>2. capacity[a] \in [Channels -> Capacity]
  BY DEF TypeOK
<1>3. ASSUME NEW c \in Channels
      PROVE  /\ ~capacity'[a][c].exists => capacity'[a][c].active = 0
             /\ capacity'[a][c].active <=
                    Cardinality(ClaimsOn(a, c)') + Declared(capacity'[a][c])
  <2>1. capacity[a][c].active \in Int /\ Declared(capacity[a][c]) \in Nat
    BY <1>2 DEF Capacity, Declared
  <2>2. /\ ~capacity[a][c].exists => capacity[a][c].active = 0
        /\ capacity[a][c].active <=
               Cardinality(ClaimsOn(a, c)) + Declared(capacity[a][c])
    BY DEF Accounted, AgentAccounted
  <2>3. IsFiniteSet(ClaimsOn(a, c)) /\ Cardinality(ClaimsOn(a, c)) \in Nat
    BY ClaimsFinite
  <2>4. ClaimsOn(a, c)' = ClaimsOn(a, c) \ {r}
    BY DEF ClaimsOn, ChannelOf
  <2>5. Cardinality(ClaimsOn(a, c)') = IF r \in ClaimsOn(a, c)
                                       THEN Cardinality(ClaimsOn(a, c)) - 1
                                       ELSE Cardinality(ClaimsOn(a, c))
    BY <2>3, <2>4, FS_RemoveElement
  <2>6. CASE c # d
    <3>1. r \notin ClaimsOn(a, c)
      BY <2>6 DEF ClaimsOn, ChannelOf
    <3>2. capacity'[a][c] = capacity[a][c]
      BY <1>2, <2>6, ReleasedFacts
    <3> QED
      BY <2>2, <2>5, <3>1, <3>2
  <2>7. CASE c = d /\ capacity[a][d].exists /\ capacity[a][d].active > 0
    <3>1. /\ capacity'[a][c].active = capacity[a][c].active - 1
          /\ capacity'[a][c].exists = capacity[a][c].exists
          /\ Declared(capacity'[a][c]) = Declared(capacity[a][c])
      BY <1>2, <2>7, ReleasedFacts DEF Declared
    <3> QED
      BY <2>1, <2>2, <2>3, <2>5, <2>7, <3>1
  <2>8. CASE c = d /\ ~(capacity[a][d].exists /\ capacity[a][d].active > 0)
    <3>1. capacity'[a] = capacity[a]
      BY <1>2, <2>8, ReleasedFacts
    <3>2. capacity[a][c].active <= 0
      BY <2>1, <2>2, <2>8
    <3>3. Cardinality(ClaimsOn(a, c)') \in Nat
      BY <2>3, <2>4, FS_RemoveElement, FS_CardinalityType
    <3> QED
      BY <2>1, <2>2, <3>1, <3>2, <3>3
  <2> QED
    BY <2>6, <2>7, <2>8
<1> QED
  BY <1>1, <1>3 DEF AgentAccounted

\* An agent that gains a reservation is accounted for with one slot more.
LEMMA NewClaim ==
    ASSUME TypeOK, Accounted, NEW a \in Agents, NEW d \in Channels, NEW r,
           r \notin offers[a], offers'[a] = offers[a] \cup {r},
           ChannelOf(r)' = d,
           \A s \in offers[a] : ChannelOf(s)' = ChannelOf(s),
           capacity[a][d].exists,
           capacity'[a] = Claimed(capacity[a], d)
    PROVE  AgentAccounted(a)'
<1>1. IsFiniteSet(offers'[a])
  BY FS_AddElement DEF Accounted, AgentAccounted
<1>2. capacity[a] \in [Channels -> Capacity]
  BY DEF TypeOK
<1>3. ASSUME NEW c \in Channels
      PROVE  /\ ~capacity'[a][c].exists => capacity'[a][c].active = 0
             /\ capacity'[a][c].active <=
                    Cardinality(ClaimsOn(a, c)') + Declared(capacity'[a][c])
  <2>1. capacity[a][c].active \in Int /\ Declared(capacity[a][c]) \in Nat
    BY <1>2 DEF Capacity, Declared
  <2>2. /\ ~capacity[a][c].exists => capacity[a][c].active = 0
        /\ capacity[a][c].active <=
               Cardinality(ClaimsOn(a, c)) + Declared(capacity[a][c])
    BY DEF Accounted, AgentAccounted
  <2>3. IsFiniteSet(ClaimsOn(a, c)) /\ Cardinality(ClaimsOn(a, c)) \in Nat
    BY ClaimsFinite
  <2>4. CASE c # d
    <3>1. ClaimsOn(a, c)' = ClaimsOn(a, c)
      BY <2>4 DEF ClaimsOn, ChannelOf
    <3>2. capacity'[a][c] = capacity[a][c]
      BY <1>2, <2>4, ClaimedFacts
    <3> QED
      BY <2>2, <3>1, <3>2
  <2>5. CASE c = d
    <3>1. ClaimsOn(a, c)' = ClaimsOn(a, c) \cup {r} /\ r \notin ClaimsOn(a, c)
      BY <2>5 DEF ClaimsOn, ChannelOf
    <3>2. Cardinality(ClaimsOn(a, c)') = Cardinality(ClaimsOn(a, c)) + 1
      BY <2>3, <3>1, FS_AddElement
    <3>3. /\ capacity'[a][c].active = capacity[a][c].active + 1
          /\ capacity'[a][c].exists
          /\ Declared(capacity'[a][c]) = Declared(capacity[a][c])
      BY <1>2, <2>5, ClaimedFacts DEF Declared
    <3> QED
      BY <2>1, <2>2, <2>3, <3>2, <3>3
  <2> QED
    BY <2>4, <2>5
<1> QED
  BY <1>1, <1>3 DEF AgentAccounted

\* Steps that leave the in-flight sets, the channels they are on and the
\* counts of every agent alone.
LEMMA UntouchedCapacity ==
    ASSUME TypeOK, TypeOK', Accounted, UNCHANGED <<capacity, offers>>,
           \A b \in Agents : \A r \in offers[b] : ChannelOf(r)' = ChannelOf(r)
    PROVE  Accounted'
<1> SUFFICES ASSUME NEW b \in Agents
             PROVE  AgentAccounted(b)'
  BY DEF Accounted
<1>1. \A c \in Channels :
          /\ ~capacity'[b][c].exists => capacity'[b][c].active = 0
          /\ capacity'[b][c] = capacity[b][c]
  BY DEF Accounted, AgentAccounted
<1> QED
  BY <1>1, SameClaims

\* The agent scripts keep the account: new channels start at what is
\* declared, kept ones keep their count, and delete_agent clears counts and
\* claims together.
LEMMA AgentStepAccounted ==
    ASSUME Consistent, TypeOK', Accounted,
           NEW a \in Agents, AgentStep(a)
    PROVE  Accounted'
<1>0. TypeOK
  BY DEF Consistent
<1>1. CASE DeleteAgent(a)
  <2> SUFFICES ASSUME NEW b \in Agents
               PROVE  AgentAccounted(b)'
    BY DEF Accounted
  <2>1. CASE b = a
    <3>1. /\ offers'[b] = {}
          /\ \A c \in Channels : capacity'[b][c].active = 0
                                 /\ Declared(capacity'[b][c]) = 0
      BY <1>0, <1>1, <2>1
      DEF DeleteAgent, NoCapacity, NoChannel, TypeOK, Declared
    <3>2. \A c \in Channels : ClaimsOn(b, c)' = {}
      BY <3>1 DEF ClaimsOn
    <3>3. IsFiniteSet(offers'[b])
      BY <3>1, FS_EmptySet
    <3>4. \A c \in Channels : Cardinality(ClaimsOn(b, c)') = 0
      BY <3>2, FS_EmptySet
    <3>5. \A c \in Channels : capacity'[b][c].active <=
              Cardinality(ClaimsOn(b, c)') + Declared(capacity'[b][c])
      BY <3>1, <3>4
    <3> QED
      BY <3>1, <3>3, <3>5 DEF AgentAccounted
  <2>2. CASE b # a
    <3>1. offers'[b] = offers[b] /\ capacity'[b] = capacity[b]
      BY <1>0, <1>1, <2>2 DEF DeleteAgent, TypeOK
    <3>2. \A r \in Reservations : /\ reservation'[r].task = reservation[r].task
                                  /\ reservation[r].task \in Tasks
      BY <1>0, <1>1, ResolvedFacts DEF DeleteAgent, TypeOK, Reservation
    <3>3. \A t \in Tasks : task'[t].type = task[t].type
      BY <1>0, <1>1, RequeuedFacts DEF DeleteAgent, TypeOK
    <3>4. \A r \in offers[b] : ChannelOf(r)' = ChannelOf(r)
      BY <1>0, <3>2, <3>3 DEF ChannelOf, TypeOK
    <3>5. \A c \in Channels :
              /\ ~capacity'[b][c].exists => capacity'[b][c].active = 0
              /\ capacity'[b][c] = capacity[b][c]
      BY <1>0, <3>1 DEF Accounted, AgentAccounted
    <3> QED
      BY <1>0, <3>1, <3>4, <3>5, SameClaims
  <2> QED
    BY <2>1, <2>2
<1>2. CASE ~DeleteAgent(a)
  <2>1. UNCHANGED <<offers, task, reservation>>
    BY <1>2, AgentStep(a) DEF AgentStep, CreateAgent, SetAgentStatus,
           ReplaceAgentQueues, ReplaceCapacity, ToggleChannelReady, taskVars
  <2>2. \A b \in Agents, c \in Channels :
            /\ ~capacity'[b][c].exists => capacity'[b][c].active = 0
            /\ \/ capacity'[b][c].active <= Declared(capacity'[b][c])
               \/ /\ capacity'[b][c].active = capacity[b][c].active
                  /\ capacity'[b][c].declared = capacity[b][c].declared
    <3> DEFINE Kept(b, c) ==
            /\ ~capacity'[b][c].exists => capacity'[b][c].active = 0
            /\ \/ capacity'[b][c].active <= Declared(capacity'[b][c])
               \/ /\ capacity'[b][c].active = capacity[b][c].active
                  /\ capacity'[b][c].declared = capacity[b][c].declared
    <3> SUFFICES ASSUME NEW b \in Agents, NEW c \in Channels
                 PROVE  Kept(b, c)
      OBVIOUS
    <3>0. ASSUME capacity'[b][c] = capacity[b][c]
          PROVE  Kept(b, c)
      BY <3>0 DEF Accounted, AgentAccounted
    <3>a. ASSUME capacity'[b][c] = NoChannel
          PROVE  Kept(b, c)
      BY <3>a DEF NoChannel, Declared
    <3>b. /\ capacity[b][c].active \in Int /\ capacity[b][c].declared \in Int
          /\ capacity[b][c].active < 0 => capacity[b][c].declared < 0
      BY <1>0 DEF TypeOK, Capacity
    <3>1. ASSUME NEW s, NEW Q, NEW req \in CapacityRequests,
                 CreateAgent(a, s, Q, req)
          PROVE  Kept(b, c)
      <4>1. CASE b = a /\ c \in DOMAIN req
        <5>1. capacity'[b][c] = Channel(WithDefault(req[c].max), req[c].active,
                                        req[c].active)
          BY <1>0, <3>1, <4>1 DEF CreateAgent, TypeOK
        <5>2. req[c].active \in Int
          BY <4>1, RequestEntry
        <5> QED
          BY <5>1, <5>2 DEF Channel, Declared
      <4>2. CASE b = a /\ c \notin DOMAIN req
        BY <1>0, <3>1, <3>a, <4>2 DEF CreateAgent, TypeOK
      <4>3. CASE b # a
        BY <1>0, <3>0, <3>1, <4>3 DEF CreateAgent, TypeOK
      <4> QED
        BY <4>1, <4>2, <4>3
    <3>2. ASSUME NEW req \in CapacityRequests, ReplaceCapacity(a, req)
          PROVE  Kept(b, c)
      <4>1. CASE b = a /\ c \in DOMAIN req
        <5>1. capacity'[b][c] = Channel(WithDefault(req[c].max),
                                        IF capacity[b][c].exists
                                        THEN capacity[b][c].active ELSE 0,
                                        capacity[b][c].declared)
          BY <1>0, <3>2, <4>1 DEF ReplaceCapacity, TypeOK
        <5> QED
          BY <3>b, <5>1 DEF Channel, Declared
      <4>2. CASE b = a /\ c \notin DOMAIN req
        BY <1>0, <3>2, <3>a, <4>2 DEF ReplaceCapacity, TypeOK
      <4>3. CASE b # a
        BY <1>0, <3>0, <3>2, <4>3 DEF ReplaceCapacity, TypeOK
      <4> QED
        BY <4>1, <4>2, <4>3
    <3>3. ASSUME NEW d \in Channels, ToggleChannelReady(a, d)
          PROVE  Kept(b, c)
      <4>1. CASE b = a /\ c = d
        <5>1. capacity'[b][c] = Channel(1, 0, 0)
          BY <1>0, <3>3, <4>1 DEF ToggleChannelReady, TypeOK
        <5> QED
          BY <5>1 DEF Channel, Declared
      <4>2. CASE ~(b = a /\ c = d)
        BY <1>0, <3>0, <3>3, <4>2 DEF ToggleChannelReady, TypeOK
      <4> QED
        BY <4>1, <4>2
    <3>4. ASSUME UNCHANGED capacity
          PROVE  Kept(b, c)
      BY <3>0, <3>4
    <3> HIDE DEF Kept
    <3> QED
      BY <1>2, <3>1, <3>2, <3>3, <3>4, AgentStep(a)
      DEF AgentStep, SetAgentStatus, ReplaceAgentQueues
  <2>3. \A b \in Agents : \A r \in offers[b] : ChannelOf(r)' = ChannelOf(r)
    BY <2>1 DEF ChannelOf
  <2>4. \A b \in Agents : AgentAccounted(b)'
    BY <1>0, <2>1, <2>2, <2>3, SameClaims
  <2> QED
    BY <2>4 DEF Accounted
<1> QED
  BY <1>1, <1>2

\* match_commit adds a claim and a slot; complete_task removes the claim of
\* the agent behind its key and gives one slot back.
LEMMA TaskStepAccounted ==
    ASSUME Consistent, TypeOK', Accounted, NEW t \in Tasks, TaskStep(t)
    PROVE  Accounted'
<1>0. /\ TypeOK /\ OffersAreOwnAndLive /\ OfferIsCurrent
      /\ AcceptedIsCurrentOrDone /\ HeldTaskIsBacked
  BY DEF Consistent
<1>1. /\ \A r \in Reservations : reservation[r].task \in Tasks
      /\ \A b \in Agents : offers[b] \subseteq Reservations
      /\ task[t] \in Task /\ task[t].type \in Channels
  BY <1>0 DEF TypeOK, Reservation, Task
\* A claim is never on a task that is waiting or unknown.
<1>2. ASSUME task[t].status \in {"Absent", "Pending"}
      PROVE  \A b \in Agents : \A r \in offers[b] : reservation[r].task # t
  BY <1>0, <1>1, <1>2
  DEF OffersAreOwnAndLive, OfferIsCurrent, AcceptedIsCurrentOrDone
<1>3. ASSUME UNCHANGED <<capacity, offers, reservation>>,
             \A u \in Tasks : u # t => task'[u] = task[u],
             \/ task'[t].type = task[t].type
             \/ \A b \in Agents : \A r \in offers[b] : reservation[r].task # t
      PROVE  Accounted'
  <2>1. \A b \in Agents : \A r \in offers[b] : ChannelOf(r)' = ChannelOf(r)
    BY <1>1, <1>3 DEF ChannelOf
  <2> QED
    BY <1>0, <1>3, <2>1, UntouchedCapacity
<1>4. ASSUME NEW q, NEW c, NEW i, NEW w, EnqueueTask(t, q, c, i, w)
      PROVE  Accounted'
  <2>1. /\ UNCHANGED <<capacity, offers, reservation>>
        /\ \A u \in Tasks : u # t => task'[u] = task[u]
        /\ task[t].status = "Absent"
    BY <1>0, <1>4 DEF EnqueueTask, agentVars, TypeOK
  <2> QED
    BY <1>2, <1>3, <2>1
<1>5. ASSUME NEW a \in Agents, NEW r \in Reservations, MatchCommit(a, t, r)
      PROVE  Accounted'
  <2>1. /\ task[t].status = "Pending" /\ capacity[a][task[t].type].exists
        /\ reservation[r].status = "None"
    BY <1>5 DEF MatchCommit, MatchGates, AgentCanTake
  <2>2. \A b \in Agents : r \notin offers[b]
    BY <1>0, <2>1 DEF OffersAreOwnAndLive
  <2>3. /\ \A u \in Tasks : u # t => task'[u] = task[u]
        /\ task'[t] = Reserved(task[t], r, a)
        /\ \A s \in Reservations : s # r => reservation'[s] = reservation[s]
        /\ reservation'[r].task = t
    BY <1>0, <1>5 DEF MatchCommit, TypeOK
  <2>4. task'[t].type = task[t].type
    BY <1>1, <2>3, ReservedFacts
  <2>5. \A b \in Agents : \A s \in offers[b] : ChannelOf(s)' = ChannelOf(s)
    BY <1>1, <2>2, <2>3, <2>4 DEF ChannelOf
  <2>6. /\ offers'[a] = offers[a] \cup {r}
        /\ capacity'[a] = Claimed(capacity[a], task[t].type)
        /\ ChannelOf(r)' = task[t].type
    BY <1>0, <1>5, <2>3, <2>4 DEF MatchCommit, TypeOK, ChannelOf
  <2>7. \A b \in Agents : b # a => /\ offers'[b] = offers[b]
                                   /\ capacity'[b] = capacity[b]
    BY <1>0, <1>5 DEF MatchCommit, TypeOK
  <2>8. AgentAccounted(a)'
    BY <1>0, <1>1, <2>1, <2>2, <2>5, <2>6, NewClaim
  <2>9. ASSUME NEW b \in Agents, b # a
        PROVE  AgentAccounted(b)'
    <3>1. \A c \in Channels :
              /\ ~capacity'[b][c].exists => capacity'[b][c].active = 0
              /\ capacity'[b][c] = capacity[b][c]
      BY <1>0, <2>7, <2>9 DEF Accounted, AgentAccounted
    <3> QED
      BY <1>0, <2>5, <2>7, <2>9, <3>1, SameClaims
  <2> QED
    BY <2>8, <2>9 DEF Accounted
<1>6. ASSUME NEW k, EndTask(t, k)
      PROVE  Accounted'
  <2>1. /\ UNCHANGED <<capacity, offers, reservation>>
        /\ \A u \in Tasks : u # t => task'[u] = task[u]
        /\ task'[t] = InStatus(task[t], "WrapUp")
    BY <1>0, <1>6 DEF EndTask, TypeOK
  <2>2. task'[t].type = task[t].type
    BY <1>1, <2>1, InStatusFacts DEF TaskStatus
  <2> QED
    BY <1>3, <2>1, <2>2
<1>7. ASSUME NEW k, CompleteTask(t, k)
      PROVE  Accounted'
  <2>1. /\ UNCHANGED reservation
        /\ \A u \in Tasks : u # t => task'[u] = task[u]
        /\ task'[t] = Completed(task[t])
        /\ task[t].status \in {"Active", "WrapUp"}
    BY <1>0, <1>7 DEF CompleteTask, TypeOK
  <2>2. task'[t].type = task[t].type
    BY <1>1, <2>1, CompletedFacts
  <2>3. \A b \in Agents : \A r \in offers[b] : ChannelOf(r)' = ChannelOf(r)
    BY <1>1, <2>1, <2>2 DEF ChannelOf
  <2>4. ChannelOf(task[t].res) = task[t].type
    BY <1>0, <2>1 DEF HeldTaskIsBacked, BackedBy, HeldStatus, ChannelOf
  <2>5. CASE KeyIsLive(t, k)
    <3>1. /\ k \in Agents
          /\ offers'[k] = offers[k] \ {task[t].res}
          /\ capacity'[k] = Released(capacity[k], task[t].type)
          /\ \A b \in Agents : b # k => /\ offers'[b] = offers[b]
                                        /\ capacity'[b] = capacity[b]
      BY <1>0, <1>7, <2>5 DEF CompleteTask, KeyIsLive, TypeOK
    <3>2. AgentAccounted(k)'
      BY <1>0, <1>1, <2>3, <2>4, <3>1, LostClaim
    <3>3. ASSUME NEW b \in Agents, b # k
          PROVE  AgentAccounted(b)'
      <4>1. \A c \in Channels :
                /\ ~capacity'[b][c].exists => capacity'[b][c].active = 0
                /\ capacity'[b][c] = capacity[b][c]
        BY <1>0, <3>1, <3>3 DEF Accounted, AgentAccounted
      <4> QED
        BY <1>0, <2>3, <3>1, <3>3, <4>1, SameClaims
    <3> QED
      BY <3>2, <3>3 DEF Accounted
  <2>6. CASE ~KeyIsLive(t, k)
    <3>1. UNCHANGED <<capacity, offers>>
      BY <1>7, <2>6 DEF CompleteTask
    <3> QED
      BY <1>0, <2>3, <3>1, UntouchedCapacity
  <2> QED
    BY <2>5, <2>6
<1>8. ASSUME NEW d \in Dispositions, SetTaskDisposition(t, d)
      PROVE  Accounted'
  <2>1. /\ UNCHANGED <<capacity, offers, reservation>>
        /\ \A u \in Tasks : u # t => task'[u] = task[u]
        /\ task'[t] = [task[t] EXCEPT !.disposition = d]
    BY <1>0, <1>8 DEF SetTaskDisposition, agentVars, TypeOK
  <2>2. task'[t].type = task[t].type
    BY <1>1, <2>1, TaggedFacts
  <2> QED
    BY <1>3, <2>1, <2>2
<1>9. ASSUME UNCHANGED <<capacity, offers, reservation, task>>
      PROVE  Accounted'
  BY <1>3, <1>9
<1> QED
  BY <1>4, <1>5, <1>6, <1>7, <1>8, <1>9, TaskStep(t)
  DEF TaskStep, WrapUpTimeout, StartWrapUpTimer, WrapUpKeyExpires,
      agentVars, taskVars

\* Reject removes one claim and gives one slot back; accept moves neither.
LEMMA ReservationStepAccounted ==
    ASSUME Consistent, TypeOK', Accounted,
           NEW r \in Reservations, ReservationStep(r)
    PROVE  Accounted'
<1>0. TypeOK /\ OffersAreOwnAndLive
  BY DEF Consistent
<1>a. PICK a \in Agents, t \in Tasks :
          a = reservation[r].agent /\ t = reservation[r].task
  BY <1>0 DEF TypeOK, Reservation
<1>1. /\ \A s \in Reservations : reservation[s].task \in Tasks
      /\ \A b \in Agents : offers[b] \subseteq Reservations
      /\ task[t] \in Task /\ task[t].type \in Channels
  BY <1>0 DEF TypeOK, Reservation, Task
<1>2. CASE AcceptReservation(r)
  <2>1. /\ UNCHANGED <<capacity, offers>>
        /\ \A u \in Tasks : u # t => task'[u] = task[u]
        /\ task'[t] = InStatus(task[t], "Active")
    BY <1>0, <1>a, <1>2 DEF AcceptReservation, agentVars, TypeOK
  <2>2. \A s \in Reservations : reservation'[s].task = reservation[s].task
    BY <1>0, <1>2, ResolvedFacts DEF AcceptReservation, TypeOK
  <2>3. task'[t].type = task[t].type
    BY <1>1, <2>1, InStatusFacts DEF TaskStatus
  <2>4. \A b \in Agents : \A s \in offers[b] : ChannelOf(s)' = ChannelOf(s)
    BY <1>1, <2>1, <2>2, <2>3 DEF ChannelOf
  <2> QED
    BY <1>0, <2>1, <2>4, UntouchedCapacity
<1>3. CASE RejectReservation(r)
  <2>1. /\ \A u \in Tasks : u # t => task'[u] = task[u]
        /\ task'[t] = Requeued(task[t])
    BY <1>0, <1>a, <1>3 DEF RejectReservation, TypeOK
  <2>2. \A s \in Reservations : reservation'[s].task = reservation[s].task
    BY <1>0, <1>3, ResolvedFacts DEF RejectReservation, TypeOK
  <2>3. task'[t].type = task[t].type
    BY <1>1, <2>1, RequeuedFacts
  <2>4. \A b \in Agents : \A s \in offers[b] : ChannelOf(s)' = ChannelOf(s)
    BY <1>1, <2>1, <2>2, <2>3 DEF ChannelOf
  <2>5. /\ offers'[a] = offers[a] \ {r}
        /\ capacity'[a] = Released(capacity[a], task[t].type)
        /\ \A b \in Agents : b # a => /\ offers'[b] = offers[b]
                                      /\ capacity'[b] = capacity[b]
    BY <1>0, <1>a, <1>3 DEF RejectReservation, TypeOK
  <2>6. ChannelOf(r) = task[t].type
    BY <1>a DEF ChannelOf
  <2>7. AgentAccounted(a)'
    BY <1>0, <1>1, <2>4, <2>5, <2>6, LostClaim
  <2>8. ASSUME NEW b \in Agents, b # a
        PROVE  AgentAccounted(b)'
    <3>1. \A c \in Channels :
              /\ ~capacity'[b][c].exists => capacity'[b][c].active = 0
              /\ capacity'[b][c] = capacity[b][c]
      BY <1>0, <2>5, <2>8 DEF Accounted, AgentAccounted
    <3> QED
      BY <1>0, <2>4, <2>5, <2>8, <3>1, SameClaims
  <2> QED
    BY <2>7, <2>8 DEF Accounted
<1>4. CASE ReservationKeyExpires(r)
  <2>1. UNCHANGED <<capacity, offers, task, reservation>>
    BY <1>4 DEF ReservationKeyExpires, agentVars, taskVars
  <2>2. \A b \in Agents : \A s \in offers[b] : ChannelOf(s)' = ChannelOf(s)
    BY <2>1 DEF ChannelOf
  <2> QED
    BY <1>0, <2>1, <2>2, UntouchedCapacity
<1> QED
  BY <1>2, <1>3, <1>4, ReservationStep(r) DEF ReservationStep

\* No sequence of scripts leaves a slot taken, beyond the ones a client
\* declared at creation, that no in-flight reservation accounts for.
THEOREM CapacitySound == StoreSpec => []CapacityNotOverstated
<1>1. StoreInit => Accounted
  <2> SUFFICES ASSUME StoreInit PROVE Accounted
    OBVIOUS
  <2>1. \A a \in Agents : offers[a] = {}
    BY DEF StoreInit
  <2>2. \A a \in Agents, c \in Channels :
            /\ capacity[a][c].active = 0 /\ Declared(capacity[a][c]) = 0
            /\ ClaimsOn(a, c) = {}
    BY <2>1 DEF StoreInit, NoCapacity, NoChannel, ClaimsOn, Declared
  <2> QED
    BY <2>1, <2>2, FS_EmptySet DEF Accounted, AgentAccounted
<1>2. Consistent /\ Consistent' /\ Accounted /\ [StoreNext]_storeVars
          => Accounted'
  <2> SUFFICES ASSUME Consistent, Consistent', Accounted,
                      [StoreNext]_storeVars
               PROVE  Accounted'
    OBVIOUS
  <2>0. TypeOK'
    BY DEF Consistent
  <2>1. CASE StoreNext
    BY <2>0, <2>1, AgentStepAccounted, TaskStepAccounted,
       ReservationStepAccounted DEF StoreNext
  <2>2. CASE UNCHANGED storeVars
    BY <2>2 DEF storeVars, Accounted, AgentAccounted, ClaimsOn, Declared
  <2> QED
    BY <2>1, <2>2
<1>3. Accounted => CapacityNotOverstated
  BY DEF Accounted, AgentAccounted, CapacityNotOverstated
<1> QED
  BY <1>1, <1>2, <1>3, StoreConsistent, PTL DEF StoreSpec

=============================================================================
