------------------------- MODULE TenantData_proofs -------------------------
(***************************************************************************)
(* Proofs about concurrent calls on the tenants' rows, for any number of   *)
(* tenants, handlers, connections and calls in flight.                     *)
(***************************************************************************)
EXTENDS TenantData, TLAPS

---------------------------------------------------------------------------
\* The functions of pgconfig and pgstore are well formed, for all arguments.

\* A transaction of one statement, other than the insert of an association.
LEMMA OneStatement ==
    ASSUME NEW t, NEW s,
           \/ \E table, col, V : s = Select(table, col, V)
           \/ \E table, col, V : s = Delete(table, col, V)
           \/ \E q : s = Join(q)
           \/ \E table, id, val :
                 /\ s = Insert(Row(table, t, id, val))
                 /\ table # "queue_dispositions"
    PROVE  WellFormedTx(t, Scoped(<<s>>))
<1>1. /\ s.do \in {"select", "join", "delete", "insert"}
      /\ s.do = "insert" => /\ IsRow(s.row) /\ s.onConflict \in {"fail", "skip"}
                            /\ s.row.table # "queue_dispositions"
  BY DEF Select, Delete, Join, Insert, IsRow, Row
<1>2. PICK tx : tx = Scoped(<<s>>)
  OBVIOUS
<1>3. tx.scoped = TRUE /\ tx.stmts = <<s>>
  BY <1>2 DEF Scoped
<1>4. Len(tx.stmts) = 1 /\ DOMAIN tx.stmts = 1 .. 1 /\ tx.stmts[1] = s
  BY <1>3
<1>5. WellFormedStatement(t, tx, 1)
  BY <1>1, <1>3, <1>4 DEF WellFormedStatement
<1>6. WellFormedTx(t, tx)
  BY <1>3, <1>4, <1>5 DEF WellFormedTx
<1> QED
  BY <1>2, <1>6

\* A statement on the raw pool is on the registry of tenants.
LEMMA OneRawStatement ==
    ASSUME NEW t, NEW s,
           \/ \E col, V : s = Select("tenants", col, V)
           \/ \E id, val : s = Insert(Row("tenants", t, id, val))
    PROVE  WellFormedTx(t, Raw(s))
<1>1. /\ s.do \in {"select", "insert"}
      /\ s.do = "select" => s.table = "tenants"
      /\ s.do = "insert" => /\ IsRow(s.row) /\ s.onConflict \in {"fail", "skip"}
                            /\ s.row.table = "tenants" /\ s.row.tenant = t
  BY DEF Select, Insert, IsRow, Row
<1>2. PICK tx : tx = Raw(s)
  OBVIOUS
<1>3. tx.stmts = <<s>>
  BY <1>2 DEF Raw
<1>4. Len(tx.stmts) = 1 /\ DOMAIN tx.stmts = 1 .. 1 /\ tx.stmts[1] = s
  BY <1>3
<1>5. WellFormedStatement(t, tx, 1)
  BY <1>1, <1>3, <1>4 DEF WellFormedStatement
<1>6. WellFormedTx(t, tx)
  BY <1>4, <1>5 DEF WellFormedTx
<1> QED
  BY <1>2, <1>6

\* A call of one well-formed transaction that applies nothing.
LEMMA SimpleWellFormed ==
    ASSUME NEW t, NEW tx, WellFormedTx(t, tx)
    PROVE  WellFormed(Simple(t, tx))
<1>1. PICK c : c = Simple(t, tx)
  OBVIOUS
<1>2. c.tenant = t /\ c.txs = <<tx>> /\ c.want = <<{}>> /\ c.apply = {}
  BY <1>1 DEF Simple, Call
<1>3. /\ Len(c.txs) = 1 /\ DOMAIN c.txs = 1 .. 1 /\ c.txs[1] = tx
      /\ DOMAIN c.want = 1 .. 1
  BY <1>2
<1>4. WellFormed(c)
  BY <1>2, <1>3 DEF WellFormed
<1> QED
  BY <1>1, <1>4

\* A transaction of one SELECT is well formed and reads only.
LEMMA SelectReads ==
    ASSUME NEW t, NEW table, NEW col, NEW V
    PROVE  /\ WellFormedTx(t, Scoped(<<Select(table, col, V)>>))
           /\ OnlyReads(Scoped(<<Select(table, col, V)>>))
<1>1. PICK s : s = Select(table, col, V)
  OBVIOUS
<1>2. PICK tx : tx = Scoped(<<s>>)
  OBVIOUS
<1>3. WellFormedTx(t, tx)
  BY <1>1, <1>2, OneStatement
<1>4. tx.scoped /\ tx.stmts = <<s>> /\ s.do = "select"
  BY <1>1, <1>2 DEF Scoped, Select
<1>5. DOMAIN tx.stmts = 1 .. 1 /\ tx.stmts[1] = s
  BY <1>4
<1>6. OnlyReads(tx)
  BY <1>4, <1>5 DEF OnlyReads
<1> QED
  BY <1>1, <1>2, <1>3, <1>6

\* A call that validates rows of its tenant in one transaction, and writes
\* them and whatever else.
LEMMA OneValidation ==
    ASSUME NEW t, NEW tx, WellFormedTx(t, tx), OnlyReads(tx), NEW R, NEW A, NEW U,
           \A w \in A : IsRow(w) /\ w.tenant = t /\ w \in R
    PROVE  WellFormed(Call(t, <<tx>>, <<R>>, A, U))
<1>1. PICK c : c = Call(t, <<tx>>, <<R>>, A, U)
  OBVIOUS
<1>2. c.tenant = t /\ c.txs = <<tx>> /\ c.want = <<R>> /\ c.apply = A
  BY <1>1 DEF Call
<1>3. /\ Len(c.txs) = 1 /\ DOMAIN c.txs = 1 .. 1 /\ c.txs[1] = tx
      /\ DOMAIN c.want = 1 .. 1 /\ c.want[1] = R
  BY <1>2
<1>4. WellFormed(c)
  BY <1>2, <1>3 DEF WellFormed
<1> QED
  BY <1>1, <1>4

\* The same with a transaction for each of two sets of rows.
LEMMA TwoValidations ==
    ASSUME NEW t, NEW tx1, WellFormedTx(t, tx1), OnlyReads(tx1),
           NEW tx2, WellFormedTx(t, tx2), OnlyReads(tx2), NEW R1, NEW R2,
           \A w \in R1 \cup R2 : IsRow(w) /\ w.tenant = t
    PROVE  WellFormed(Call(t, <<tx1, tx2>>, <<R1, R2>>, R1 \cup R2, {}))
<1>1. PICK c : c = Call(t, <<tx1, tx2>>, <<R1, R2>>, R1 \cup R2, {})
  OBVIOUS
<1>2. /\ c.tenant = t /\ c.txs = <<tx1, tx2>> /\ c.want = <<R1, R2>>
      /\ c.apply = R1 \cup R2
  BY <1>1 DEF Call
<1>3. /\ Len(c.txs) = 2 /\ DOMAIN c.txs = 1 .. 2
      /\ c.txs[1] = tx1 /\ c.txs[2] = tx2
      /\ DOMAIN c.want = 1 .. 2 /\ c.want[1] = R1 /\ c.want[2] = R2
  BY <1>2
<1>4. \A i \in 1 .. 2 : WellFormedTx(t, c.txs[i]) /\ OnlyReads(c.txs[i])
  BY <1>3
<1>5. \A w \in c.apply : \E i \in 1 .. 2 : w \in c.want[i]
  BY <1>2, <1>3
<1>6. WellFormed(c)
  BY <1>2, <1>3, <1>4, <1>5 DEF WellFormed
<1> QED
  BY <1>1, <1>6

\* A call of two well-formed transactions that applies nothing.
LEMMA TwoTxWellFormed ==
    ASSUME NEW t, NEW tx1, NEW tx2, WellFormedTx(t, tx1), WellFormedTx(t, tx2),
           NEW R
    PROVE  WellFormed(Call(t, <<tx1, tx2>>, <<R, {}>>, {}, {}))
<1>1. PICK c : c = Call(t, <<tx1, tx2>>, <<R, {}>>, {}, {})
  OBVIOUS
<1>2. /\ c.tenant = t /\ c.txs = <<tx1, tx2>> /\ c.want = <<R, {}>>
      /\ c.apply = {}
  BY <1>1 DEF Call
<1>3. /\ Len(c.txs) = 2 /\ DOMAIN c.txs = 1 .. 2
      /\ c.txs[1] = tx1 /\ c.txs[2] = tx2 /\ DOMAIN c.want = 1 .. 2
  BY <1>2
<1>4. WellFormed(c)
  BY <1>2, <1>3 DEF WellFormed
<1> QED
  BY <1>1, <1>4

\* The association deletes what the queue has before it adds the given list.
LEMMA AssociateWellFormed ==
    ASSUME NEW t, NEW q, NEW D, NEW ds \in Seq(D)
    PROVE  WellFormedTx(t, AssociateQueueDispositions(t, q, ds))
<1>1. PICK tx : tx = AssociateQueueDispositions(t, q, ds)
  OBVIOUS
<1>2. PICK del : del = Delete("queue_dispositions", 1, {q})
  OBVIOUS
<1> DEFINE add == [i \in DOMAIN ds |->
                      Insert(Plain("queue_dispositions", t, <<q, ds[i]>>))]
<1>3. tx.scoped /\ tx.stmts = <<del>> \o add
  BY <1>1, <1>2 DEF AssociateQueueDispositions, Scoped
<1>4. /\ Len(ds) \in Nat /\ DOMAIN ds = 1 .. Len(ds)
  OBVIOUS
<1>5. \A i \in 1 .. Len(ds) :
          /\ add[i].do = "insert" /\ IsRow(add[i].row)
          /\ add[i].onConflict \in {"fail", "skip"}
          /\ add[i].row.id[1] = q
  BY <1>4 DEF Insert, Plain, Row, IsRow
<1>6. PICK R : add \in Seq(R) /\ Len(add) = Len(ds)
  <2>1. PICK n \in Nat : n = Len(ds) /\ DOMAIN ds = 1 .. n
    BY <1>4
  <2>2. PICK R : R = {add[i] : i \in 1 .. n}
    OBVIOUS
  <2>3. add \in [1 .. n -> R]
    BY <2>1, <2>2
  <2> HIDE DEF add
  <2>4. add \in Seq(R) /\ Len(add) = n
    BY <2>3
  <2> QED
    BY <2>1, <2>4
<1>7. del.do = "delete"
  BY <1>2 DEF Delete
<1> HIDE DEF add
<1>8. <<del>> \in Seq({del})
  OBVIOUS
<1>9. /\ Len(tx.stmts) = Len(ds) + 1 /\ DOMAIN tx.stmts = 1 .. Len(ds) + 1
      /\ tx.stmts[1] = del
      /\ \A j \in 2 .. Len(ds) + 1 : tx.stmts[j] = add[j - 1]
  BY <1>3, <1>4, <1>6, <1>8
<1>10. ASSUME NEW j \in 1 .. Len(tx.stmts)
       PROVE  WellFormedStatement(t, tx, j)
  <2>1. CASE j = 1
    BY <1>3, <1>7, <1>9, <2>1 DEF WellFormedStatement
  <2>2. CASE j # 1
    <3>1. j - 1 \in 1 .. Len(ds) /\ tx.stmts[j] = add[j - 1]
      BY <1>4, <1>9, <2>2
    <3>2. j > 1
      BY <1>4, <1>9, <2>2
    <3> QED
      BY <1>2, <1>3, <1>5, <1>9, <3>1, <3>2 DEF WellFormedStatement
  <2> QED
    BY <2>1, <2>2
<1>11. WellFormedTx(t, tx)
  BY <1>4, <1>9, <1>10 DEF WellFormedTx
<1> QED
  BY <1>1, <1>11

\* So does the removal of a disposition, which removes its associations too.
LEMMA RemoveDispositionWellFormed ==
    ASSUME NEW t, NEW d
    PROVE  WellFormedTx(t, RemoveDisposition(d))
<1>1. PICK tx : tx = RemoveDisposition(d)
  OBVIOUS
<1>2. PICK s1 : s1 = Delete("queue_dispositions", 2, {d})
  OBVIOUS
<1>3. PICK s2 : s2 = Delete("dispositions", 1, {d})
  OBVIOUS
<1>4. tx.scoped /\ tx.stmts = <<s1, s2>>
  BY <1>1, <1>2, <1>3 DEF RemoveDisposition, Scoped
<1>5. s1.do = "delete" /\ s2.do = "delete"
  BY <1>2, <1>3 DEF Delete
<1>6. /\ Len(tx.stmts) = 2 /\ DOMAIN tx.stmts = 1 .. 2
      /\ tx.stmts[1] = s1 /\ tx.stmts[2] = s2
  BY <1>4
<1>7. WellFormedStatement(t, tx, 1) /\ WellFormedStatement(t, tx, 2)
  BY <1>4, <1>5, <1>6 DEF WellFormedStatement
<1>8. WellFormedTx(t, tx)
  BY <1>6, <1>7 DEF WellFormedTx
<1> QED
  BY <1>1, <1>8

\* The seeding inserts one status after the other.
LEMMA DefaultsWellFormed ==
    ASSUME NEW t
    PROVE  WellFormedTx(t, EnsureDefaultStatuses(t))
<1>1. PICK tx : tx = EnsureDefaultStatuses(t)
  OBVIOUS
<1>2. Len(DefaultStatuses) = 5 /\ DOMAIN DefaultStatuses = 1 .. 5
  BY DEF DefaultStatuses
<1> DEFINE add == [i \in 1 .. 5 |->
                      InsertIfAbsent(Plain("statuses", t, <<DefaultStatuses[i]>>))]
<1>3. tx.scoped /\ tx.stmts = add
  BY <1>1, <1>2 DEF EnsureDefaultStatuses, Scoped
<1>4. \A i \in 1 .. 5 :
          /\ add[i].do = "insert" /\ IsRow(add[i].row)
          /\ add[i].onConflict \in {"fail", "skip"}
          /\ add[i].row.table = "statuses"
  BY DEF InsertIfAbsent, Plain, Row, IsRow
<1>5. PICK R : add \in [1 .. 5 -> R]
  <2>1. add \in [1 .. 5 -> {add[i] : i \in 1 .. 5}]
    OBVIOUS
  <2> QED
    BY <2>1
<1> HIDE DEF add
<1>6. Len(add) = 5 /\ DOMAIN add = 1 .. 5
  BY <1>5
<1>7. \A j \in 1 .. 5 : WellFormedStatement(t, tx, j)
  BY <1>3, <1>4 DEF WellFormedStatement
<1>8. WellFormedTx(t, tx)
  BY <1>3, <1>6, <1>7 DEF WellFormedTx
<1> QED
  BY <1>1, <1>8

\* Every RPC of tenant identity and of the task router's registries, for
\* every tenant and every argument, is a call of the form that the proofs
\* below assume of Requests.
THEOREM CallsAreWellFormed ==
    ASSUME NEW t, NEW q, NEW s, NEW a, NEW type, NEW d, NEW u,
           NEW Q, NEW D, NEW ds \in Seq(D), NEW attrs
    PROVE  /\ \A c \in QueueAdmin(t, q) \cup StatusAdmin(t, s) : WellFormed(c)
           /\ \A c \in AttributeAdmin(t, a, type) \cup DispositionAdmin(t, d) :
                  WellFormed(c)
           /\ \A c \in TenantCalls(t) \cup UserCalls(t, u) : WellFormed(c)
           /\ WellFormed(AssociateQueueDispositionsCall(t, q, ds))
           /\ WellFormed(ListQueueDispositionsCall(t, q))
           /\ WellFormed(ReplaceAgentAttributesCall(t, attrs))
           /\ WellFormed(SetAgentStatusCall(t, s))
           /\ WellFormed(ReplaceAgentQueuesCall(t, Q))
           /\ WellFormed(EnqueueTaskCall(t, q, attrs))
           /\ WellFormed(CreateAgentCall(t, Q, s, attrs))
           /\ WellFormed(SetTaskDispositionCall(t, d))
           /\ WellFormed(CreateUserCall(t, u))
           /\ WellFormed(LoginCall(t, u))
           /\ WellFormed(BootstrapCall(t))
<1>1. \A table, id, val : /\ IsRow(Row(table, t, id, val))
                          /\ Row(table, t, id, val).tenant = t
  BY DEF IsRow, Row
<1>2. \A c \in QueueAdmin(t, q) : WellFormed(c)
  BY SimpleWellFormed, OneStatement
  DEF QueueAdmin, RegisterQueue, ListQueues, GetQueue, RemoveQueue, Plain
<1>3. \A c \in StatusAdmin(t, s) : WellFormed(c)
  BY SimpleWellFormed, OneStatement
  DEF StatusAdmin, RegisterStatus, ListStatuses, RemoveStatus, Plain
<1>4. \A c \in AttributeAdmin(t, a, type) : WellFormed(c)
  BY SimpleWellFormed, OneStatement
  DEF AttributeAdmin, RegisterAttribute, ListAttributes, GetAttribute,
      RemoveAttribute
<1>5. \A c \in DispositionAdmin(t, d) : WellFormed(c)
  BY SimpleWellFormed, OneStatement, RemoveDispositionWellFormed
  DEF DispositionAdmin, RegisterDisposition, ListDispositions, Plain
<1>6. \A c \in TenantCalls(t) : WellFormed(c)
  BY SimpleWellFormed, OneRawStatement
  DEF TenantCalls, CreateTenant, GetTenant, ListTenants, Plain
<1>7. \A c \in UserCalls(t, u) : WellFormed(c)
  BY SimpleWellFormed, OneStatement DEF UserCalls, GetUser, ListUsers
<1>8. WellFormed(AssociateQueueDispositionsCall(t, q, ds))
  <2>1. WellFormedTx(t, AssociateQueueDispositions(t, q, ds))
    BY AssociateWellFormed
  <2>2. \A S : WellFormedTx(t, DispositionsExist(S))
    BY OneStatement DEF DispositionsExist
  <2> QED
    BY <2>1, <2>2, SimpleWellFormed, TwoTxWellFormed
    DEF AssociateQueueDispositionsCall
<1>9. WellFormed(ListQueueDispositionsCall(t, q))
  BY SimpleWellFormed, OneStatement
  DEF ListQueueDispositionsCall, ListQueueDispositions
<1>10. /\ WellFormed(ReplaceAgentAttributesCall(t, attrs))
       /\ WellFormed(CreateAgentCall(t, Q, s, attrs))
       /\ WellFormed(EnqueueTaskCall(t, q, attrs))
  <2> DEFINE R == {Row("attributes", t, <<n>>, attrs[n]) : n \in DOMAIN attrs}
             one == {Row("queues", t, <<q>>, "none")}
             U == {Plain("queues", t, <<n>>) : n \in Q} \cup
                  {Plain("statuses", t, <<s>>)}
             tx == Scoped(<<Select("attributes", 1, DOMAIN attrs)>>)
             qtx == Scoped(<<Select("queues", 1, {q})>>)
  <2>1. \A w \in R \cup one : IsRow(w) /\ w.tenant = t
    BY <1>1
  <2>2. /\ WellFormedTx(t, tx) /\ OnlyReads(tx)
        /\ WellFormedTx(t, qtx) /\ OnlyReads(qtx)
    BY SelectReads
  <2>3. /\ ValidateAttributes(t, attrs).tx = tx
        /\ ValidateAttributes(t, attrs).want = R
    BY DEF ValidateAttributes, AttributeTypes
  <2>4. /\ ReplaceAgentAttributesCall(t, attrs) = Call(t, <<tx>>, <<R>>, R, {})
        /\ CreateAgentCall(t, Q, s, attrs) = Call(t, <<tx>>, <<R>>, R, U)
    BY <2>3 DEF ReplaceAgentAttributesCall, Validated, CreateAgentCall
  <2>5. EnqueueTaskCall(t, q, attrs) =
            Call(t, <<qtx, tx>>, <<one, R>>, one \cup R, {})
    BY <2>3 DEF EnqueueTaskCall, QueueExists, Plain
  <2> HIDE DEF R, one, U, tx, qtx
  <2>6. /\ WellFormed(Call(t, <<tx>>, <<R>>, R, {}))
        /\ WellFormed(Call(t, <<tx>>, <<R>>, R, U))
    BY <2>1, <2>2, OneValidation
  <2>7. WellFormed(Call(t, <<qtx, tx>>, <<one, R>>, one \cup R, {}))
    BY <2>1, <2>2, TwoValidations
  <2> QED
    BY <2>4, <2>5, <2>6, <2>7
<1>11. /\ WellFormed(SetAgentStatusCall(t, s))
       /\ WellFormed(SetTaskDispositionCall(t, d)) /\ WellFormed(LoginCall(t, u))
  BY <1>1, SelectReads, OneValidation
  DEF SetAgentStatusCall, StatusExists, SetTaskDispositionCall, GetDisposition,
      LoginCall, GetUserByUsername, Plain, Validated
<1>12. WellFormed(ReplaceAgentQueuesCall(t, Q))
  <2> DEFINE R == {Row("queues", t, <<n>>, "none") : n \in Q}
  <2>1. \A w \in R : IsRow(w) /\ w.tenant = t
    BY <1>1
  <2>2. ReplaceAgentQueuesCall(t, Q) =
            Call(t, <<Scoped(<<Select("queues", 1, Q)>>)>>, <<R>>, R, {})
    BY DEF ReplaceAgentQueuesCall, QueuesExist, Plain, Validated
  <2> HIDE DEF R
  <2> QED
    BY <2>1, <2>2, SelectReads, OneValidation
<1>13. WellFormed(CreateUserCall(t, u))
  <2>1. WellFormedTx(t, TenantExists(t))
    BY OneRawStatement DEF TenantExists
  <2>2. WellFormedTx(t, CreateUser(t, u))
    BY OneStatement DEF CreateUser, Plain
  <2> QED
    BY <2>1, <2>2, TwoTxWellFormed DEF CreateUserCall
<1>14. WellFormed(BootstrapCall(t))
  BY SimpleWellFormed, DefaultsWellFormed DEF BootstrapCall
<1> QED
  BY <1>2, <1>3, <1>4, <1>5, <1>6, <1>7, <1>8, <1>9, <1>10, <1>11, <1>12,
     <1>13, <1>14

---------------------------------------------------------------------------
\* The state of a call.

AllRequests == UNION {Requests[w] : w \in Workloads}
AllRows ==
    InitialRows \cup
        {r.txs[i].stmts[j].row : r \in AllRequests, i \in Nat, j \in Nat}

CallState ==
    [req: AllRequests, tx: Nat, stmt: Nat,
     step: {"begin", "set", "exec", "deleting", "apply"},
     conn: Conns \cup {Unset}, ins: SUBSET AllRows, del: SUBSET AllRows,
     targets: SUBSET AllRows, got: SUBSET AllRows, live: SUBSET AllRows,
     alone: BOOLEAN]

\* The functions and sets the variables range over.
Shape ==
    /\ workload \in Workloads
    /\ rows \in SUBSET AllRows
    /\ session \in [Conns -> {r.tenant : r \in Requests[workload]} \cup {Unset}]
    /\ pool \in SUBSET Conns
    /\ call \in [Handlers -> {Idle} \cup CallState]
    /\ calls \in 0 .. MaxCalls[workload]
    /\ faults \in 0 .. MaxFaults[workload]

\* A call is idle or has all its fields.
LEMMA CallShape ==
    ASSUME Shape, NEW h \in Handlers
    PROVE  /\ call[h] = Idle \/ call[h] \in CallState
           /\ ~Active(h) => call[h] = Idle /\ ~InTx(h)
           /\ Active(h) => call[h] \in CallState
           /\ InTx(h) => Active(h)
           /\ call[h].step \in {"idle", "begin", "set", "exec", "deleting", "apply"}
           /\ call[h] = Idle <=> call[h].step = "idle"
<1>1. call[h] \in {Idle} \cup CallState
  BY DEF Shape
<1>2. Idle.step = "idle"
  BY DEF Idle
<1>3. call[h] \in CallState =>
          call[h].step \in {"begin", "set", "exec", "deleting", "apply"}
  BY DEF CallState
<1> QED
  BY <1>1, <1>2, <1>3 DEF Active, InTx

\* An arriving call holds nothing.
LEMMA ReceiveFacts ==
    ASSUME Shape, NEW h \in Handlers, NEW r \in Requests[workload],
           Receive(h, r)
    PROVE  /\ call[h].step = "idle"
           /\ call'[h].req = r /\ call'[h].tx = 1 /\ call'[h].stmt = 1
           /\ call'[h].step = "begin"
           /\ call'[h].ins = {} /\ call'[h].del = {} /\ call'[h].targets = {}
           /\ call'[h].got = {} /\ call'[h].live = rows
           /\ \A k \in Handlers : k # h => call'[k] = call[k]
           /\ call' \in [Handlers -> {Idle} \cup CallState]
<1> DEFINE c == [req |-> r, tx |-> 1, stmt |-> 1, step |-> "begin",
                 conn |-> Unset, ins |-> {}, del |-> {}, targets |-> {},
                 got |-> {}, live |-> rows, alone |-> TRUE]
<1>1. r \in AllRequests
  BY DEF AllRequests, Shape
<1>2. c \in CallState
  BY <1>1 DEF CallState, Shape
<1>3. /\ c.req = r /\ c.tx = 1 /\ c.stmt = 1 /\ c.step = "begin"
      /\ c.ins = {} /\ c.del = {} /\ c.targets = {}
      /\ c.got = {} /\ c.live = rows
  OBVIOUS
<1>4. call' = [call EXCEPT ![h] = c]
  BY DEF Receive
<1> HIDE DEF c
<1>5. call[h].step = "idle"
  BY DEF Receive, Active
<1> QED
  BY <1>2, <1>3, <1>4, <1>5 DEF Shape

\* Begin takes a free connection; of the others only alone changes, and only
\* for the same tenant.
LEMMA BeginFacts ==
    ASSUME Shape, NEW h \in Handlers, Begin(h)
    PROVE  /\ call[h].step = "begin" /\ call[h] \in CallState
           /\ \E c \in pool : pool' = pool \ {c} /\ call'[h].conn = c
           /\ call'[h].req = call[h].req /\ call'[h].tx = call[h].tx
           /\ call'[h].stmt = 1
           /\ call'[h].step = IF Tx(h).scoped THEN "set" ELSE "exec"
           /\ call'[h].ins = call[h].ins /\ call'[h].del = call[h].del
           /\ call'[h].targets = call[h].targets
           /\ call'[h].got = call[h].got /\ call'[h].live = call[h].live
           /\ call'[h].alone =>
                 \A k \in Handlers : k # h /\ InTx(k) =>
                     call[k].req.tenant # call[h].req.tenant
           /\ \A k \in Handlers : k # h =>
                 /\ \/ call'[k] = call[k]
                    \/ /\ InTx(k) /\ ~call'[k].alone
                       /\ call'[k] = [call[k] EXCEPT !.alone = FALSE]
                 /\ InTx(k) /\ call[k].req.tenant = call[h].req.tenant =>
                       ~call'[k].alone
           /\ call' \in [Handlers -> {Idle} \cup CallState]
<1> DEFINE others == {k \in Handlers \ {h} :
                        InTx(k) /\ call[k].req.tenant = call[h].req.tenant}
<1>1. call[h].step = "begin" /\ call[h] \in CallState
  BY CallShape DEF Begin, Idle
<1>2. PICK c \in pool :
          /\ pool' = pool \ {c}
          /\ call' = [k \in Handlers |->
               IF k = h
               THEN [call[h] EXCEPT !.conn = c, !.stmt = 1, !.alone = others = {},
                       !.step = IF Tx(h).scoped THEN "set" ELSE "exec"]
               ELSE IF k \in others THEN [call[k] EXCEPT !.alone = FALSE]
               ELSE call[k]]
  BY DEF Begin
<1>3. c \in Conns
  BY DEF Shape
<1> DEFINE mine == [call[h] EXCEPT !.conn = c, !.stmt = 1, !.alone = others = {},
                       !.step = IF Tx(h).scoped THEN "set" ELSE "exec"]
<1>4. /\ mine.req = call[h].req /\ mine.tx = call[h].tx /\ mine.conn = c
      /\ mine.stmt = 1 /\ mine.step = IF Tx(h).scoped THEN "set" ELSE "exec"
      /\ mine.ins = call[h].ins /\ mine.del = call[h].del
      /\ mine.targets = call[h].targets /\ mine.got = call[h].got
      /\ mine.live = call[h].live /\ mine.alone = (others = {})
  BY <1>1 DEF CallState
<1>5. mine \in CallState
  BY <1>1, <1>3 DEF CallState
<1>6. \A k \in others : [call[k] EXCEPT !.alone = FALSE] \in CallState
                        /\ [call[k] EXCEPT !.alone = FALSE].alone = FALSE
  <2> SUFFICES ASSUME NEW k \in others
               PROVE  [call[k] EXCEPT !.alone = FALSE] \in CallState
                      /\ [call[k] EXCEPT !.alone = FALSE].alone = FALSE
    OBVIOUS
  <2>1. call[k] \in CallState
    BY CallShape
  <2> QED
    BY <2>1 DEF CallState
<1>7. call'[h] = mine /\ \A k \in Handlers : k # h =>
          call'[k] = IF k \in others THEN [call[k] EXCEPT !.alone = FALSE]
                     ELSE call[k]
  BY <1>2
<1> HIDE DEF mine
<1>8. call' \in [Handlers -> {Idle} \cup CallState]
  <2>1. DOMAIN call' = Handlers /\ call' = [k \in Handlers |-> call'[k]]
    BY <1>2
  <2>2. \A k \in Handlers : call'[k] \in {Idle} \cup CallState
    BY <1>5, <1>6, <1>7 DEF Shape
  <2> QED
    BY <2>1, <2>2
<1>9. \A k \in Handlers : k \in others <=>
          k # h /\ InTx(k) /\ call[k].req.tenant = call[h].req.tenant
  OBVIOUS
<1>10. mine.alone => others = {}
  BY <1>4
<1> HIDE DEF others
<1>11. call'[h].alone => \A k \in Handlers : k # h /\ InTx(k) =>
                     call[k].req.tenant # call[h].req.tenant
  BY <1>7, <1>9, <1>10
<1>12. \A k \in Handlers : k # h =>
                 /\ \/ call'[k] = call[k]
                    \/ /\ InTx(k) /\ ~call'[k].alone
                       /\ call'[k] = [call[k] EXCEPT !.alone = FALSE]
                 /\ InTx(k) /\ call[k].req.tenant = call[h].req.tenant =>
                       ~call'[k].alone
  BY <1>6, <1>7, <1>9
<1> QED
  BY <1>1, <1>2, <1>4, <1>7, <1>8, <1>11, <1>12

\* What the statements of a transaction leave alone.
SameTx(h) ==
    /\ call'[h].req = call[h].req /\ call'[h].tx = call[h].tx
    /\ call'[h].conn = call[h].conn /\ call'[h].live = call[h].live
    /\ call'[h].alone = call[h].alone
OthersKept(h) == \A k \in Handlers : k # h => call'[k] = call[k]
CallsShape(c) == c \in [Handlers -> {Idle} \cup CallState]

\* set_config changes the step of its call and nothing else of it.
LEMMA SetTenantFacts ==
    ASSUME Shape, NEW h \in Handlers, SetTenant(h)
    PROVE  /\ call[h].step = "set" /\ call[h] \in CallState
           /\ call'[h].step = "exec" /\ call'[h].stmt = call[h].stmt
           /\ call'[h].ins = call[h].ins /\ call'[h].del = call[h].del
           /\ call'[h].targets = call[h].targets /\ call'[h].got = call[h].got
           /\ SameTx(h) /\ OthersKept(h) /\ CallsShape(call')
<1>1. call[h].step = "set" /\ call[h] \in CallState
  BY CallShape DEF SetTenant, Idle
<1> DEFINE c == [call[h] EXCEPT !.step = "exec"]
<1>2. call' = [call EXCEPT ![h] = c]
  BY DEF SetTenant
<1>3. c \in CallState
  BY <1>1 DEF CallState
<1>4. /\ c.req = call[h].req /\ c.tx = call[h].tx /\ c.stmt = call[h].stmt
      /\ c.step = "exec" /\ c.conn = call[h].conn /\ c.ins = call[h].ins
      /\ c.del = call[h].del /\ c.targets = call[h].targets
      /\ c.got = call[h].got /\ c.live = call[h].live /\ c.alone = call[h].alone
  BY <1>1 DEF CallState
<1> HIDE DEF c
<1> QED
  BY <1>1, <1>2, <1>3, <1>4 DEF Shape, SameTx, OthersKept, CallsShape

\* A rollback leaves nothing of the call.
LEMMA RollbackFacts ==
    ASSUME Shape, NEW h \in Handlers, Rollback(h)
    PROVE  /\ call'[h] = Idle /\ OthersKept(h) /\ CallsShape(call')
           /\ UNCHANGED <<rows, redis, calls>>
BY DEF Rollback, Shape, OthersKept, CallsShape

\* An insert that succeeds adds its row, unless the key is taken.
LEMMA InsertFacts ==
    ASSUME Shape, NEW h \in Handlers, RunInsert(h), ~Rollback(h),
           call[h] \in CallState => Statement(h).row \in AllRows
    PROVE  /\ Executing(h, "insert") /\ call[h] \in CallState /\ ~Blocked(h)
           /\ Allowed(h, Statement(h).row)
           /\ call'[h].step = "exec" /\ call'[h].stmt = call[h].stmt + 1
           /\ \/ call'[h].ins = call[h].ins
              \/ /\ call'[h].ins = call[h].ins \cup {Statement(h).row}
                 /\ Key(Statement(h).row) \notin KeysOf(Snapshot(h))
           /\ call'[h].del = call[h].del
           /\ call'[h].targets = call[h].targets /\ call'[h].got = call[h].got
           /\ SameTx(h) /\ OthersKept(h) /\ CallsShape(call')
           /\ UNCHANGED <<rows, session, pool, redis, calls, faults>>
<1>1. Executing(h, "insert") /\ call[h].step = "exec" /\ call[h] \in CallState
  BY CallShape DEF RunInsert, Executing, Idle
<1> DEFINE r == Statement(h).row
           taken == Key(r) \in KeysOf(Snapshot(h))
           c == [call[h] EXCEPT !.stmt = @ + 1,
                                !.ins = IF taken THEN @ ELSE @ \cup {r}]
<1>2. /\ Allowed(h, r)
      /\ call' = [call EXCEPT ![h].stmt = @ + 1,
                              ![h].ins = IF taken THEN @ ELSE @ \cup {r}]
      /\ UNCHANGED <<rows, session, pool, redis, calls, faults>>
      /\ ~Blocked(h)
  BY DEF RunInsert
<1>3. call' = [call EXCEPT ![h] = c]
  BY <1>2 DEF Shape
<1> HIDE DEF taken
<1>4. r \in AllRows
  BY <1>1
<1>5. c \in CallState
  <2>1. PICK n : n = call[h].stmt + 1
    OBVIOUS
  <2>2. PICK I : I = IF taken THEN call[h].ins ELSE call[h].ins \cup {r}
    OBVIOUS
  <2>3. n \in Nat /\ I \in SUBSET AllRows
    BY <1>1, <1>4, <2>1, <2>2 DEF CallState
  <2>4. c = [call[h] EXCEPT !.stmt = n, !.ins = I]
    BY <2>1, <2>2
  <2> HIDE DEF c
  <2> QED
    BY <1>1, <2>3, <2>4 DEF CallState
<1>6. /\ c.req = call[h].req /\ c.tx = call[h].tx /\ c.stmt = call[h].stmt + 1
      /\ c.step = "exec" /\ c.conn = call[h].conn
      /\ c.ins = IF taken THEN call[h].ins ELSE call[h].ins \cup {r}
      /\ c.del = call[h].del /\ c.targets = call[h].targets
      /\ c.got = call[h].got /\ c.live = call[h].live /\ c.alone = call[h].alone
  BY <1>1 DEF CallState
<1> HIDE DEF c
<1>7. call'[h] = c /\ OthersKept(h) /\ CallsShape(call')
  BY <1>3, <1>5 DEF Shape, OthersKept, CallsShape
<1> QED
  BY <1>1, <1>2, <1>6, <1>7 DEF taken, SameTx

\* A DELETE first finds the rows it sees and matches.
LEMMA FindRowsFacts ==
    ASSUME Shape, NEW h \in Handlers, FindRows(h)
    PROVE  /\ Executing(h, "delete") /\ call[h] \in CallState
           /\ call'[h].step = "deleting" /\ call'[h].stmt = call[h].stmt
           /\ call'[h].ins = call[h].ins /\ call'[h].del = call[h].del
           /\ call'[h].targets = {r \in Visible(h) : Matches(Statement(h), r)}
           /\ call'[h].got = call[h].got
           /\ SameTx(h) /\ OthersKept(h) /\ CallsShape(call')
<1>1. Executing(h, "delete") /\ call[h].step = "exec" /\ call[h] \in CallState
  BY CallShape DEF FindRows, Executing, Idle
<1> DEFINE T == {r \in Visible(h) : Matches(Statement(h), r)}
           c == [call[h] EXCEPT !.step = "deleting", !.targets = T]
<1>2. call' = [call EXCEPT ![h] = c]
  BY DEF FindRows, Shape
<1>3. T \in SUBSET AllRows
  BY <1>1 DEF Visible, Snapshot, Shape, CallState
<1> HIDE DEF T
<1>4. c \in CallState
  BY <1>1, <1>3 DEF CallState
<1>5. /\ c.req = call[h].req /\ c.tx = call[h].tx /\ c.stmt = call[h].stmt
      /\ c.step = "deleting" /\ c.conn = call[h].conn /\ c.ins = call[h].ins
      /\ c.del = call[h].del /\ c.targets = T
      /\ c.got = call[h].got /\ c.live = call[h].live /\ c.alone = call[h].alone
  BY <1>1 DEF CallState
<1> HIDE DEF c
<1>6. call'[h] = c /\ OthersKept(h) /\ CallsShape(call')
  BY <1>2, <1>4 DEF Shape, OthersKept, CallsShape
<1> QED
  BY <1>1, <1>5, <1>6 DEF T, SameTx

\* Then it deletes them, its own insertions and those still committed.
LEMMA DeleteRowsFacts ==
    ASSUME Shape, NEW h \in Handlers, DeleteRows(h)
    PROVE  /\ call[h].step = "deleting" /\ call[h] \in CallState
           /\ call'[h].step = "exec" /\ call'[h].stmt = call[h].stmt + 1
           /\ call'[h].ins = call[h].ins \ call[h].targets
           /\ call'[h].del = call[h].del \cup (call[h].targets \cap rows)
           /\ call'[h].targets = {} /\ call'[h].got = call[h].got
           /\ SameTx(h) /\ OthersKept(h) /\ CallsShape(call')
<1>1. call[h].step = "deleting" /\ call[h] \in CallState
  BY CallShape DEF DeleteRows, Idle
<1> DEFINE c == [call[h] EXCEPT !.step = "exec", !.stmt = @ + 1, !.targets = {},
                     !.ins = @ \ call[h].targets,
                     !.del = @ \cup (call[h].targets \cap rows)]
<1>2. call' = [call EXCEPT ![h] = c]
  BY DEF DeleteRows, Shape
<1>3. c \in CallState
  <2>1. PICK n : n = call[h].stmt + 1
    OBVIOUS
  <2>2. PICK I : I = call[h].ins \ call[h].targets
    OBVIOUS
  <2>3. PICK D : D = call[h].del \cup (call[h].targets \cap rows)
    OBVIOUS
  <2>4. n \in Nat /\ I \in SUBSET AllRows /\ D \in SUBSET AllRows
    BY <1>1, <2>1, <2>2, <2>3 DEF CallState
  <2>5. c = [call[h] EXCEPT !.step = "exec", !.stmt = n, !.targets = {},
                            !.ins = I, !.del = D]
    BY <2>1, <2>2, <2>3
  <2> HIDE DEF c
  <2> QED
    BY <1>1, <2>4, <2>5 DEF CallState
<1>4. /\ c.req = call[h].req /\ c.tx = call[h].tx /\ c.stmt = call[h].stmt + 1
      /\ c.step = "exec" /\ c.conn = call[h].conn
      /\ c.ins = call[h].ins \ call[h].targets
      /\ c.del = call[h].del \cup (call[h].targets \cap rows)
      /\ c.targets = {}
      /\ c.got = call[h].got /\ c.live = call[h].live /\ c.alone = call[h].alone
  BY <1>1 DEF CallState
<1> HIDE DEF c
<1> QED
  BY <1>1, <1>2, <1>3, <1>4 DEF Shape, SameTx, OthersKept, CallsShape

\* A SELECT adds visible rows to what the call has read.
LEMMA SelectFacts ==
    ASSUME Shape, NEW h \in Handlers, RunSelect(h)
    PROVE  /\ Executing(h, "select") \/ Executing(h, "join")
           /\ call[h] \in CallState
           /\ call'[h].step = "exec" /\ call'[h].stmt = call[h].stmt + 1
           /\ call'[h].ins = call[h].ins /\ call'[h].del = call[h].del
           /\ call'[h].targets = call[h].targets
           /\ call'[h].got = call[h].got \cup Selected(h)
           /\ Selected(h) \subseteq Visible(h)
           /\ SameTx(h) /\ OthersKept(h) /\ CallsShape(call')
<1>1. /\ Executing(h, "select") \/ Executing(h, "join")
      /\ call[h].step = "exec" /\ call[h] \in CallState
  BY CallShape DEF RunSelect, Executing, Idle
<1>2. Selected(h) \subseteq Visible(h)
  BY DEF Selected
<1>3. Visible(h) \in SUBSET AllRows
  BY <1>1 DEF Visible, Snapshot, Shape, CallState
<1> DEFINE c == [call[h] EXCEPT !.stmt = @ + 1, !.got = @ \cup Selected(h)]
<1>4. call' = [call EXCEPT ![h] = c]
  BY DEF RunSelect, Shape
<1>5. c \in CallState
  <2>1. PICK n : n = call[h].stmt + 1
    OBVIOUS
  <2>2. PICK G : G = call[h].got \cup Selected(h)
    OBVIOUS
  <2>3. n \in Nat /\ G \in SUBSET AllRows
    BY <1>1, <1>2, <1>3, <2>1, <2>2 DEF CallState
  <2>4. c = [call[h] EXCEPT !.stmt = n, !.got = G]
    BY <2>1, <2>2
  <2> HIDE DEF c
  <2> QED
    BY <1>1, <2>3, <2>4 DEF CallState
<1>6. /\ c.req = call[h].req /\ c.tx = call[h].tx /\ c.stmt = call[h].stmt + 1
      /\ c.step = "exec" /\ c.conn = call[h].conn /\ c.ins = call[h].ins
      /\ c.del = call[h].del /\ c.targets = call[h].targets
      /\ c.got = call[h].got \cup Selected(h)
      /\ c.live = call[h].live /\ c.alone = call[h].alone
  BY <1>1 DEF CallState
<1> HIDE DEF c
<1>7. call'[h] = c /\ OthersKept(h) /\ CallsShape(call')
  BY <1>4, <1>5 DEF Shape, OthersKept, CallsShape
<1> QED
  BY <1>1, <1>2, <1>6, <1>7 DEF SameTx

\* Of a transaction's calls the others only see the commit: the committed rows
\* were there during their calls, and a waiting DELETE loses what is gone.
LEMMA CommitFacts ==
    ASSUME Shape, NEW h \in Handlers, Commit(h)
    PROVE  /\ call[h].step = "exec" /\ call[h].stmt > Len(Tx(h).stmts)
           /\ call[h] \in CallState
           /\ EndTx(h) /\ rows' = Snapshot(h) /\ UNCHANGED <<redis, calls, faults>>
           /\ \/ call'[h] = Idle
              \/ /\ call'[h].step = "begin" /\ call[h].tx < Len(call[h].req.txs)
                 /\ call'[h].tx = call[h].tx + 1 /\ call'[h].stmt = 1
                 /\ call'[h].req = call[h].req
                 /\ call'[h].ins = {} /\ call'[h].del = {}
                 /\ call'[h].targets = call[h].targets
                 /\ call'[h].got = call[h].got /\ call'[h].live = call[h].live
                 /\ Found(h, call[h].tx)
              \/ /\ call'[h].step = "apply" /\ ~(call[h].tx < Len(call[h].req.txs))
                 /\ call'[h].tx = call[h].tx /\ call'[h].stmt = call[h].stmt
                 /\ call'[h].req = call[h].req
                 /\ call'[h].ins = {} /\ call'[h].del = {}
                 /\ call'[h].targets = call[h].targets
                 /\ call'[h].got = call[h].got /\ call'[h].live = call[h].live
                 /\ Found(h, call[h].tx)
           /\ \A k \in Handlers : k # h =>
                 /\ ~Active(k) => call'[k] = Idle /\ call[k] = Idle
                 /\ Active(k) =>
                    /\ call'[k].step = call[k].step /\ call'[k].req = call[k].req
                    /\ call'[k].tx = call[k].tx /\ call'[k].stmt = call[k].stmt
                    /\ call'[k].conn = call[k].conn
                    /\ call'[k].ins = call[k].ins /\ call'[k].del = call[k].del
                    /\ call'[k].got = call[k].got
                    /\ call'[k].live = call[k].live \cup rows'
                    /\ call'[k].targets = call[k].targets \ call[h].del
                    /\ call'[k].alone = call[k].alone
           /\ CallsShape(call')
<1>1. /\ call[h].step = "exec" /\ call[h].stmt > Len(Tx(h).stmts)
      /\ call[h] \in CallState /\ EndTx(h) /\ rows' = Snapshot(h)
      /\ UNCHANGED <<redis, calls, faults>>
  BY CallShape DEF Commit, Idle
<1>2. rows' \in SUBSET AllRows
  BY <1>1 DEF Snapshot, Shape, CallState
<1>3. /\ call'[h] = AfterTx(h)
      /\ \A k \in Handlers : k # h => call'[k] = 
            IF Active(k)
            THEN [call[k] EXCEPT !.live = @ \cup rows', !.targets = @ \ call[h].del]
            ELSE Idle
      /\ DOMAIN call' = Handlers /\ call' = [k \in Handlers |-> call'[k]]
  BY DEF Commit
<1> DEFINE next == [call[h] EXCEPT !.step = "begin", !.tx = @ + 1, !.stmt = 1,
                        !.ins = {}, !.del = {}, !.conn = Unset]
           done == [call[h] EXCEPT !.step = "apply", !.ins = {}, !.del = {}]
<1>4. next \in CallState /\ done \in CallState
  <2>1. PICK n : n = call[h].tx + 1
    OBVIOUS
  <2>2. n \in Nat
    BY <1>1, <2>1 DEF CallState
  <2>3. next = [call[h] EXCEPT !.step = "begin", !.tx = n, !.stmt = 1,
                        !.ins = {}, !.del = {}, !.conn = Unset]
    BY <2>1
  <2>4. done \in CallState
    BY <1>1 DEF CallState
  <2> HIDE DEF next, done
  <2>5. next \in CallState
    BY <1>1, <2>2, <2>3 DEF CallState
  <2> QED
    BY <2>4, <2>5
<1>5. /\ next.step = "begin" /\ next.tx = call[h].tx + 1 /\ next.stmt = 1
      /\ next.req = call[h].req /\ next.ins = {} /\ next.del = {}
      /\ next.targets = call[h].targets
      /\ next.got = call[h].got /\ next.live = call[h].live
  BY <1>1 DEF CallState
<1>6. /\ done.step = "apply" /\ done.tx = call[h].tx /\ done.stmt = call[h].stmt
      /\ done.req = call[h].req /\ done.ins = {} /\ done.del = {}
      /\ done.targets = call[h].targets
      /\ done.got = call[h].got /\ done.live = call[h].live
  BY <1>1 DEF CallState
<1>7. \/ AfterTx(h) = Idle
      \/ /\ AfterTx(h) = next /\ call[h].tx < Len(call[h].req.txs)
         /\ Found(h, call[h].tx)
      \/ /\ AfterTx(h) = done /\ ~(call[h].tx < Len(call[h].req.txs))
         /\ Found(h, call[h].tx)
  BY DEF AfterTx
<1> HIDE DEF next, done
<1>8. ASSUME NEW k \in Handlers, k # h, Active(k)
      PROVE  /\ call'[k] \in CallState
             /\ call'[k].step = call[k].step /\ call'[k].req = call[k].req
             /\ call'[k].tx = call[k].tx /\ call'[k].stmt = call[k].stmt
             /\ call'[k].conn = call[k].conn
             /\ call'[k].ins = call[k].ins /\ call'[k].del = call[k].del
             /\ call'[k].got = call[k].got
             /\ call'[k].live = call[k].live \cup rows'
             /\ call'[k].targets = call[k].targets \ call[h].del
             /\ call'[k].alone = call[k].alone
  <2>1. call[k] \in CallState
    BY <1>8, CallShape
  <2>2. PICK L : L = call[k].live \cup rows'
    OBVIOUS
  <2>3. PICK T : T = call[k].targets \ call[h].del
    OBVIOUS
  <2>4. L \in SUBSET AllRows /\ T \in SUBSET AllRows
    BY <1>2, <2>1, <2>2, <2>3 DEF CallState
  <2>5. call'[k] = [call[k] EXCEPT !.live = L, !.targets = T]
    BY <1>3, <1>8, <2>2, <2>3
  <2> QED
    BY <2>1, <2>2, <2>3, <2>4, <2>5 DEF CallState
<1>9. \A k \in Handlers : k # h /\ ~Active(k) => call'[k] = Idle /\ call[k] = Idle
  BY <1>3, CallShape
<1>10. CallsShape(call')
  <2>1. call'[h] \in {Idle} \cup CallState
    <3>1. call'[h] = AfterTx(h)
      BY <1>3
    <3> QED
      BY <3>1, <1>4, <1>7
  <2>2. \A k \in Handlers : k # h => call'[k] \in {Idle} \cup CallState
    BY <1>8, <1>9
  <2>3. call' = [k \in Handlers |-> call'[k]]
    BY <1>3
  <2> QED
    BY <2>1, <2>2, <2>3 DEF CallsShape
<1>11. \/ call'[h] = Idle
       \/ /\ call'[h] = next /\ call[h].tx < Len(call[h].req.txs)
          /\ Found(h, call[h].tx)
       \/ /\ call'[h] = done /\ ~(call[h].tx < Len(call[h].req.txs))
          /\ Found(h, call[h].tx)
  BY <1>3, <1>7
<1>12. \A k \in Handlers : k # h =>
                 /\ ~Active(k) => call'[k] = Idle /\ call[k] = Idle
                 /\ Active(k) =>
                    /\ call'[k].step = call[k].step /\ call'[k].req = call[k].req
                    /\ call'[k].tx = call[k].tx /\ call'[k].stmt = call[k].stmt
                    /\ call'[k].conn = call[k].conn
                    /\ call'[k].ins = call[k].ins /\ call'[k].del = call[k].del
                    /\ call'[k].got = call[k].got
                    /\ call'[k].live = call[k].live \cup rows'
                    /\ call'[k].targets = call[k].targets \ call[h].del
                    /\ call'[k].alone = call[k].alone
  BY <1>8, <1>9
<1> QED
  BY <1>1, <1>5, <1>6, <1>10, <1>11, <1>12

\* The hot-path write is the last thing a call does, and a call that cannot
\* begin a transaction or cannot write ends as well.
Leaves(h) ==
    /\ call[h].step \in {"begin", "apply"}
    /\ call' = [call EXCEPT ![h] = Idle]
    /\ UNCHANGED <<rows, session, pool, calls>>

\* It leaves the other calls as they are.
LEMMA LeavesFacts ==
    ASSUME Shape, NEW h \in Handlers, Leaves(h)
    PROVE  /\ call[h].step \in {"begin", "apply"}
           /\ call'[h] = Idle /\ OthersKept(h) /\ CallsShape(call')
BY DEF Leaves, Shape, OthersKept, CallsShape

---------------------------------------------------------------------------
\* The inductive invariant, part by part.

\* Where a call stands in its transactions, and that it has written nothing
\* before its first statement or after its last transaction.
Placed(h) ==
    Active(h) =>
        /\ call[h].req \in Requests[workload]
        /\ call[h].tx \in 1 .. Len(call[h].req.txs)
        /\ call[h].stmt \in 1 .. Len(Tx(h).stmts) + 1
        /\ InTx(h) => call[h].conn \in Conns
        /\ call[h].step \in {"begin", "set"} => call[h].stmt = 1
        /\ call[h].step = "set" => Tx(h).scoped
        /\ call[h].step = "deleting" =>
              call[h].stmt <= Len(Tx(h).stmts) /\ Statement(h).do = "delete"
        /\ call[h].stmt = 1 => call[h].ins = {} /\ call[h].del = {}

\* No two transactions have the same connection, and the pool has the rest.
Connections ==
    /\ pool = Conns \ {call[h].conn : h \in {k \in Handlers : InTx(k)}}
    /\ \A h, k \in Handlers :
          InTx(h) /\ InTx(k) /\ h # k => call[h].conn # call[k].conn

\* The setting that the policies read is the tenant of the call that has the
\* connection.
SessionSet(h) ==
    call[h].step \in {"exec", "deleting"} /\ Tx(h).scoped =>
        session[call[h].conn] = call[h].req.tenant

\* Statement j of h's transaction inserts r.
Inserts(h, j, r) == Tx(h).stmts[j].do = "insert" /\ Tx(h).stmts[j].row = r

\* What a call has read is its tenant's or the registry's; what it has written
\* is its tenant's, and comes from a statement that it has run.
OwnData(h) ==
    Active(h) =>
        /\ \A r \in call[h].got : r.table = "tenants" \/ r.tenant = call[h].req.tenant
        /\ \A r \in call[h].ins :
              /\ r.tenant = call[h].req.tenant
              /\ \E j \in 1 .. call[h].stmt - 1 :
                    j <= Len(Tx(h).stmts) /\ Inserts(h, j, r)
        /\ \A r \in call[h].del : r.tenant = call[h].req.tenant
        /\ \A r \in call[h].targets : r.tenant = call[h].req.tenant

\* What a step of h leaves to the other calls.
OthersSame(h) ==
    \A k \in Handlers : k # h =>
        /\ call'[k].step = call[k].step
        /\ Active(k) =>
            /\ call'[k].req = call[k].req /\ call'[k].tx = call[k].tx
            /\ call'[k].stmt = call[k].stmt /\ call'[k].conn = call[k].conn
            /\ call'[k].ins = call[k].ins /\ call'[k].del = call[k].del
            /\ call'[k].got = call[k].got
            /\ call'[k].targets \subseteq call[k].targets

\* A step of one handler, and how it may go.
Step(h) ==
    \/ \E r \in Requests[workload] : Receive(h, r)
    \/ Begin(h) \/ SetTenant(h)
    \/ RunInsert(h) /\ ~Rollback(h)
    \/ FindRows(h) \/ DeleteRows(h) \/ RunSelect(h)
    \/ Commit(h) \/ Leaves(h)
    \/ InTx(h) /\ Rollback(h)

\* A failed insert, a deadlock and a fault in a transaction are rollbacks.
LEMMA StepCases ==
    ASSUME NEW h \in Handlers,
           Work(h) \/ Fail(h) \/ \E r \in Requests[workload] : Receive(h, r)
    PROVE  Step(h)
BY DEF Work, Fail, Step, RunInsert, Executing, DeadlockDetected, Waits, InTx,
       WriteRedis, Leaves

\* The statement an executing call is at, and what is known of it.
LEMMA AtStatement ==
    ASSUME Shape, NEW h \in Handlers, Placed(h), Active(h),
           call[h].stmt <= Len(Tx(h).stmts)
    PROVE  /\ WellFormedTx(call[h].req.tenant, Tx(h))
           /\ call[h].stmt \in 1 .. Len(Tx(h).stmts)
           /\ WellFormedStatement(call[h].req.tenant, Tx(h), call[h].stmt)
           /\ Statement(h).do = "insert" => Statement(h).row \in AllRows
<1>1. call[h] \in CallState
  BY CallShape
<1>2. /\ call[h].req \in Requests[workload] /\ workload \in Workloads
      /\ call[h].tx \in 1 .. Len(call[h].req.txs)
      /\ call[h].stmt \in 1 .. Len(Tx(h).stmts) + 1
  BY DEF Placed, Shape
<1>3. WellFormed(call[h].req)
  BY <1>2, TenantDataConstants
<1>4. WellFormedTx(call[h].req.tenant, Tx(h))
  BY <1>2, <1>3 DEF WellFormed, Tx
<1>5. call[h].stmt \in 1 .. Len(Tx(h).stmts)
  BY <1>1, <1>2, <1>4 DEF CallState, WellFormedTx
<1>6. Statement(h).row \in AllRows
  <2>1. Statement(h).row = call[h].req.txs[call[h].tx].stmts[call[h].stmt].row
    BY DEF Statement, Tx
  <2>2. call[h].req \in AllRequests /\ call[h].tx \in Nat /\ call[h].stmt \in Nat
    BY <1>1 DEF CallState
  <2>3. \A r \in AllRequests, i, j \in Nat : r.txs[i].stmts[j].row \in AllRows
    BY DEF AllRows
  <2> QED
    BY <2>1, <2>2, <2>3
<1> QED
  BY <1>4, <1>5, <1>6 DEF WellFormedTx

\* The transaction a call is at is well formed.
LEMMA TxWellFormed ==
    ASSUME Shape, NEW h \in Handlers, Placed(h), Active(h)
    PROVE  /\ WellFormed(call[h].req) /\ call[h].req \in Requests[workload]
           /\ call[h] \in CallState
           /\ WellFormedTx(call[h].req.tenant, Tx(h))
<1>1. call[h].req \in Requests[workload] /\ workload \in Workloads
      /\ call[h].tx \in 1 .. Len(call[h].req.txs)
  BY DEF Placed, Shape
<1>2. WellFormed(call[h].req)
  BY <1>1, TenantDataConstants
<1>3. WellFormedTx(call[h].req.tenant, Tx(h))
  BY <1>1, <1>2 DEF WellFormed, Tx
<1> QED
  BY <1>1, <1>2, <1>3, CallShape

\* The row of an insert is one of the rows there can be.
LEMMA InsertedRow ==
    ASSUME Shape, NEW h \in Handlers, Placed(h), RunInsert(h)
    PROVE  Statement(h).row \in AllRows
<1>1. Executing(h, "insert") /\ Active(h)
  BY DEF RunInsert, Executing, Active
<1> QED
  BY <1>1, AtStatement DEF Executing

\* The other calls keep their place and what they have done.
LEMMA OthersSameStep ==
    ASSUME Shape, \A h \in Handlers : Placed(h), NEW h \in Handlers, Step(h)
    PROVE  OthersSame(h)
<1>1. ASSUME OthersKept(h)
      PROVE  OthersSame(h)
  BY <1>1 DEF OthersKept, OthersSame
<1>2. ASSUME NEW r \in Requests[workload], Receive(h, r)
      PROVE  OthersSame(h)
  BY <1>1, <1>2, ReceiveFacts DEF OthersKept
<1>3. CASE Begin(h)
  <2> SUFFICES ASSUME NEW k \in Handlers, k # h
               PROVE  /\ call'[k].step = call[k].step
                      /\ Active(k) =>
                          /\ call'[k].req = call[k].req /\ call'[k].tx = call[k].tx
                          /\ call'[k].stmt = call[k].stmt
                          /\ call'[k].conn = call[k].conn
                          /\ call'[k].ins = call[k].ins /\ call'[k].del = call[k].del
                          /\ call'[k].got = call[k].got
                          /\ call'[k].targets \subseteq call[k].targets
    BY DEF OthersSame
  <2>1. \/ call'[k] = call[k]
        \/ InTx(k) /\ call'[k] = [call[k] EXCEPT !.alone = FALSE]
    BY <1>3, BeginFacts
  <2>2. CASE call'[k] = call[k]
    BY <2>2
  <2>3. CASE InTx(k) /\ call'[k] = [call[k] EXCEPT !.alone = FALSE]
    <3>1. call[k] \in CallState
      BY <2>3, CallShape
    <3> QED
      BY <2>3, <3>1 DEF CallState
  <2> QED
    BY <2>1, <2>2, <2>3
<1>4. CASE SetTenant(h)
  BY <1>1, <1>4, SetTenantFacts
<1>5. CASE RunInsert(h) /\ ~Rollback(h)
  BY <1>1, <1>5, InsertFacts, InsertedRow
<1>6. CASE FindRows(h)
  BY <1>1, <1>6, FindRowsFacts
<1>7. CASE DeleteRows(h)
  BY <1>1, <1>7, DeleteRowsFacts
<1>8. CASE RunSelect(h)
  BY <1>1, <1>8, SelectFacts
<1>9. CASE Commit(h)
  BY <1>9, CommitFacts, CallShape DEF OthersSame
<1>10. CASE Leaves(h)
  BY <1>1, <1>10, LeavesFacts
<1>11. CASE InTx(h) /\ Rollback(h)
  BY <1>1, <1>11, RollbackFacts
<1> QED
  BY <1>2, <1>3, <1>4, <1>5, <1>6, <1>7, <1>8, <1>9, <1>10, <1>11 DEF Step

\* What depends on another call's place only is kept.
LEMMA PlacedKept ==
    ASSUME Shape, NEW h \in Handlers, OthersSame(h), UNCHANGED workload,
           NEW k \in Handlers, k # h, Placed(k)
    PROVE  /\ Placed(k)' /\ InTx(k)' = InTx(k) /\ Active(k)' = Active(k)
           /\ Active(k) => Tx(k)' = Tx(k) /\ Statement(k)' = Statement(k)
<1>1. call'[k].step = call[k].step
  BY DEF OthersSame
<1>2. InTx(k)' = InTx(k) /\ Active(k)' = Active(k)
  BY <1>1 DEF InTx, Active
<1>3. Active(k) => /\ Tx(k)' = Tx(k) /\ Statement(k)' = Statement(k)
                   /\ call'[k].req = call[k].req /\ call'[k].tx = call[k].tx
                   /\ call'[k].stmt = call[k].stmt /\ call'[k].conn = call[k].conn
                   /\ call'[k].ins = call[k].ins /\ call'[k].del = call[k].del
  BY DEF OthersSame, Tx, Statement
<1> QED
  BY <1>1, <1>2, <1>3 DEF Placed

\* Every step leaves each call at a place of its request.
LEMMA PlacedStep ==
    ASSUME Shape, \A h \in Handlers : Placed(h), NEW h \in Handlers, Step(h),
           UNCHANGED workload
    PROVE  \A k \in Handlers : Placed(k)'
<1>1. OthersSame(h)
  BY OthersSameStep
<1>2. \A k \in Handlers : k # h => Placed(k)'
  BY <1>1, PlacedKept
<1> SUFFICES Placed(h)'
  BY <1>2
<1>3. ASSUME call'[h] = Idle
      PROVE  Placed(h)'
  BY <1>3 DEF Placed, Active, Idle
<1>4. ASSUME NEW r \in Requests[workload], Receive(h, r)
      PROVE  Placed(h)'
  <2>1. WellFormed(r)
    BY TenantDataConstants DEF Shape
  <2>2. /\ 1 \in 1 .. Len(r.txs) /\ WellFormedTx(r.tenant, r.txs[1])
        /\ 1 \in 1 .. Len(r.txs[1].stmts) + 1
    BY <2>1 DEF WellFormed, WellFormedTx
  <2> QED
    BY <1>4, <2>2, ReceiveFacts DEF Placed, Active, InTx, Tx
<1>5. CASE Begin(h)
  <2>1. Active(h) /\ call[h].step = "begin"
    BY <1>5 DEF Begin, Active
  <2>2. Tx(h)' = Tx(h)
    BY <1>5, BeginFacts DEF Tx
  <2>3. call'[h].conn \in Conns
    BY <1>5, BeginFacts DEF Shape
  <2> QED
    BY <1>5, <2>1, <2>2, <2>3, BeginFacts DEF Placed, Active, InTx
<1>6. CASE SetTenant(h)
  <2>1. Active(h) /\ InTx(h) /\ Tx(h)' = Tx(h)
    BY <1>6, SetTenantFacts DEF Active, InTx, Tx, SameTx
  <2> QED
    BY <1>6, <2>1, SetTenantFacts DEF Placed, Active, InTx, SameTx
<1>7. ASSUME Active(h), InTx(h), call[h].stmt <= Len(Tx(h).stmts), SameTx(h),
             call'[h].step = "exec", call'[h].stmt = call[h].stmt + 1
      PROVE  Placed(h)'
  <2>1. Tx(h)' = Tx(h)
    BY <1>7 DEF Tx, SameTx
  <2>2. call[h].stmt \in 1 .. Len(Tx(h).stmts) /\ Len(Tx(h).stmts) \in Nat
    BY <1>7, AtStatement DEF WellFormedTx
  <2>3. call'[h].stmt \in 1 .. Len(Tx(h).stmts) + 1 /\ call'[h].stmt # 1
    BY <1>7, <2>2
  <2> QED
    BY <1>7, <2>1, <2>3 DEF Placed, Active, InTx, SameTx
<1>8. CASE RunInsert(h) /\ ~Rollback(h)
  BY <1>7, <1>8, InsertFacts, InsertedRow DEF Executing, Active, InTx
<1>9. CASE FindRows(h)
  <2>1. Active(h) /\ InTx(h) /\ Tx(h)' = Tx(h) /\ Statement(h)' = Statement(h)
    BY <1>9, FindRowsFacts DEF Active, InTx, Tx, SameTx, Executing, Statement
  <2> QED
    BY <1>9, <2>1, FindRowsFacts DEF Placed, Active, InTx, SameTx, Executing
<1>10. CASE DeleteRows(h)
  <2>1. Active(h) /\ InTx(h) /\ call[h].stmt <= Len(Tx(h).stmts)
    BY <1>10 DEF DeleteRows, Active, InTx, Placed
  <2> QED
    BY <1>7, <1>10, <2>1, DeleteRowsFacts
<1>11. CASE RunSelect(h)
  BY <1>7, <1>11, SelectFacts DEF Executing, Active, InTx
<1>12. CASE Commit(h)
  <2>1. Active(h) /\ call[h] \in CallState
    BY <1>12, CommitFacts DEF Active
  <2>2. /\ WellFormed(call[h].req) /\ call[h].req \in Requests[workload]
        /\ call[h].tx \in 1 .. Len(call[h].req.txs)
        /\ call[h].stmt \in 1 .. Len(Tx(h).stmts) + 1
    BY <2>1, TxWellFormed DEF Placed
  <2>3. CASE call'[h].step = "begin" /\ call'[h] # Idle
    <3>1. /\ call[h].tx < Len(call[h].req.txs)
          /\ call'[h].tx = call[h].tx + 1 /\ call'[h].stmt = 1
          /\ call'[h].req = call[h].req /\ call'[h].ins = {} /\ call'[h].del = {}
      BY <1>12, <2>3, CommitFacts
    <3>2. call'[h].tx \in 1 .. Len(call[h].req.txs)
      BY <2>2, <3>1 DEF WellFormed
    <3>3. WellFormedTx(call[h].req.tenant, call[h].req.txs[call'[h].tx])
      BY <2>2, <3>2 DEF WellFormed
    <3>4. Tx(h)' = call[h].req.txs[call'[h].tx]
      BY <3>1 DEF Tx
    <3>5. call'[h].stmt \in 1 .. Len(Tx(h)'.stmts) + 1
      <4>1. PICK x : x = Tx(h)'
        OBVIOUS
      <4>2. WellFormedTx(call[h].req.tenant, x)
        BY <3>3, <3>4, <4>1
      <4>3. Len(x.stmts) \in Nat
        BY <4>2 DEF WellFormedTx
      <4>4. 1 \in 1 .. Len(x.stmts) + 1
        BY <4>3
      <4> QED
        BY <3>1, <4>1, <4>4
    <3>6. ~InTx(h)'
      BY <2>3 DEF InTx
    <3> QED
      BY <2>2, <2>3, <3>1, <3>2, <3>5, <3>6 DEF Placed
  <2>4. CASE call'[h].step = "apply" /\ call'[h] # Idle
    <3>1. /\ call'[h].tx = call[h].tx /\ call'[h].stmt = call[h].stmt
          /\ call'[h].req = call[h].req /\ call'[h].ins = {} /\ call'[h].del = {}
      BY <1>12, <2>4, CommitFacts
    <3>2. Tx(h)' = Tx(h)
      BY <3>1 DEF Tx
    <3> QED
      BY <2>2, <2>4, <3>1, <3>2 DEF Placed, InTx
  <2> QED
    BY <1>3, <1>12, <2>3, <2>4, CommitFacts
<1>13. CASE Leaves(h)
  BY <1>3, <1>13, LeavesFacts
<1>14. CASE InTx(h) /\ Rollback(h)
  BY <1>3, <1>14, RollbackFacts
<1> QED
  BY <1>4, <1>5, <1>6, <1>8, <1>9, <1>10, <1>11, <1>12, <1>13, <1>14 DEF Step

\* A connection goes from the pool to one transaction and back.
LEMMA ConnectionsStep ==
    ASSUME Shape, \A h \in Handlers : Placed(h), Connections,
           NEW h \in Handlers, Step(h), UNCHANGED workload
    PROVE  Connections'
<1> DEFINE Used == {call[k].conn : k \in {i \in Handlers : InTx(i)}}
           Rest == {call[k].conn : k \in {i \in Handlers : i # h /\ InTx(i)}}
<1>1. OthersSame(h)
  BY OthersSameStep
<1>2. \A k \in Handlers : k # h =>
          /\ InTx(k)' = InTx(k)
          /\ InTx(k) => call'[k].conn = call[k].conn
  BY <1>1, PlacedKept, CallShape DEF OthersSame
<1>3. \A k \in Handlers : InTx(k) => call[k].conn \in Conns
  BY CallShape DEF Placed
<1>4. Used = IF InTx(h) THEN Rest \cup {call[h].conn} ELSE Rest
  OBVIOUS
<1>5. Used' = IF InTx(h)' THEN Rest \cup {call'[h].conn} ELSE Rest
  BY <1>2
<1>6. \A k \in Handlers : k # h /\ InTx(k) => call[k].conn \in Rest
  OBVIOUS
<1>7. \A x \in Rest : x \in Conns /\ (InTx(h) => x # call[h].conn)
  BY <1>3 DEF Connections
<1>8. pool = Conns \ Used
  BY DEF Connections
<1>9. ASSUME InTx(h)' => call'[h].conn \notin Rest,
             pool' = Conns \ Used'
      PROVE  Connections'
  <2>1. ASSUME NEW i \in Handlers, NEW k \in Handlers,
               InTx(i)', InTx(k)', i # k
        PROVE  call'[i].conn # call'[k].conn
    <3>1. CASE i = h
      BY <1>2, <1>6, <1>9, <2>1, <3>1
    <3>2. CASE k = h
      BY <1>2, <1>6, <1>9, <2>1, <3>2
    <3>3. CASE i # h /\ k # h
      BY <1>2, <2>1, <3>3 DEF Connections
    <3> QED
      BY <3>1, <3>2, <3>3
  <2> QED
    BY <1>9, <2>1 DEF Connections
<1> HIDE DEF Used, Rest
<1>10. ASSUME InTx(h)' <=> InTx(h), InTx(h) => call'[h].conn = call[h].conn,
              pool' = pool
       PROVE  Connections'
  BY <1>4, <1>5, <1>7, <1>8, <1>9, <1>10
<1>11. ASSUME NEW r \in Requests[workload], Receive(h, r)
       PROVE  Connections'
  <2>1. ~InTx(h) /\ ~InTx(h)' /\ pool' = pool
    BY <1>11, ReceiveFacts DEF InTx, Receive
  <2> QED
    BY <1>10, <2>1
<1>12. CASE Begin(h)
  <2>1. ~InTx(h) /\ InTx(h)'
    BY <1>12, BeginFacts DEF InTx
  <2>2. call'[h].conn \in pool /\ pool' = pool \ {call'[h].conn}
    BY <1>12, BeginFacts
  <2> QED
    BY <1>4, <1>5, <1>8, <1>9, <2>1, <2>2
<1>13. CASE SetTenant(h)
  <2>1. InTx(h) /\ InTx(h)' /\ call'[h].conn = call[h].conn /\ pool' = pool
    BY <1>13, SetTenantFacts DEF InTx, SetTenant, SameTx
  <2> QED
    BY <1>10, <2>1
<1>14. CASE RunInsert(h) /\ ~Rollback(h)
  <2>1. InTx(h) /\ InTx(h)' /\ call'[h].conn = call[h].conn /\ pool' = pool
    BY <1>14, InsertFacts, InsertedRow DEF InTx, SameTx, Executing
  <2> QED
    BY <1>10, <2>1
<1>15. CASE FindRows(h)
  <2>1. InTx(h) /\ InTx(h)' /\ call'[h].conn = call[h].conn /\ pool' = pool
    BY <1>15, FindRowsFacts DEF InTx, SameTx, Executing, FindRows
  <2> QED
    BY <1>10, <2>1
<1>16. CASE DeleteRows(h)
  <2>1. InTx(h) /\ InTx(h)' /\ call'[h].conn = call[h].conn /\ pool' = pool
    BY <1>16, DeleteRowsFacts DEF InTx, SameTx, DeleteRows
  <2> QED
    BY <1>10, <2>1
<1>17. CASE RunSelect(h)
  <2>1. InTx(h) /\ InTx(h)' /\ call'[h].conn = call[h].conn /\ pool' = pool
    BY <1>17, SelectFacts DEF InTx, SameTx, Executing, RunSelect
  <2> QED
    BY <1>10, <2>1
<1>18. ASSUME InTx(h), ~InTx(h)', EndTx(h)
       PROVE  Connections'
  <2>1. pool' = pool \cup {call[h].conn} /\ call[h].conn \in Conns
    BY <1>3, <1>18 DEF EndTx
  <2> QED
    BY <1>4, <1>5, <1>7, <1>8, <1>9, <1>18, <2>1
<1>19. CASE Commit(h)
  <2>1. InTx(h) /\ ~InTx(h)' /\ EndTx(h)
    BY <1>19, CommitFacts DEF InTx, Idle
  <2> QED
    BY <1>18, <2>1
<1>20. CASE Leaves(h)
  <2>1. ~InTx(h) /\ ~InTx(h)' /\ pool' = pool
    BY <1>20, LeavesFacts DEF InTx, Idle, Leaves
  <2> QED
    BY <1>10, <2>1
<1>21. CASE InTx(h) /\ Rollback(h)
  <2>1. InTx(h) /\ ~InTx(h)' /\ EndTx(h)
    <3>1. call'[h].step = "idle"
      BY <1>21, RollbackFacts DEF Idle
    <3>2. EndTx(h)
      BY <1>21 DEF Rollback
    <3> QED
      BY <1>21, <3>1, <3>2 DEF InTx
  <2> QED
    BY <1>18, <2>1
<1> QED
  BY <1>11, <1>12, <1>13, <1>14, <1>15, <1>16, <1>17, <1>19, <1>20, <1>21
     DEF Step

\* Only the transaction that has a connection changes its setting.
LEMMA SessionStep ==
    ASSUME Shape, \A h \in Handlers : Placed(h), Connections,
           \A h \in Handlers : SessionSet(h),
           NEW h \in Handlers, Step(h), UNCHANGED workload
    PROVE  \A k \in Handlers : SessionSet(k)'
<1>1. OthersSame(h)
  BY OthersSameStep
<1> DEFINE Sets == \E v : session' = [session EXCEPT ![call[h].conn] = v]
<1>2. session' = session \/ (InTx(h) /\ Sets)
  <2>1. InTx(h) /\ EndTx(h) => Sets
    BY DEF EndTx
  <2>2. Commit(h) => InTx(h) /\ EndTx(h)
    BY DEF Commit, InTx
  <2>3. SetTenant(h) => InTx(h) /\ Sets
    BY DEF SetTenant, InTx
  <2>4. CASE RunInsert(h) /\ ~Rollback(h)
    BY <2>4 DEF RunInsert
  <2>5. CASE Begin(h) \/ FindRows(h) \/ DeleteRows(h) \/ RunSelect(h) \/ Leaves(h)
    BY <2>5 DEF Begin, FindRows, DeleteRows, RunSelect, Leaves
  <2>6. Rollback(h) => EndTx(h)
    BY DEF Rollback
  <2> HIDE DEF Sets
  <2>7. ASSUME NEW r \in Requests[workload], Receive(h, r)
        PROVE  session' = session
    BY <2>7 DEF Receive
  <2>8. CASE InTx(h) /\ Rollback(h)
    BY <2>1, <2>6, <2>8
  <2>9. CASE Commit(h)
    BY <2>1, <2>2, <2>9
  <2>10. CASE SetTenant(h)
    BY <2>3, <2>10
  <2> QED
    BY <2>4, <2>5, <2>7, <2>8, <2>9, <2>10 DEF Step
<1>3. ASSUME NEW k \in Handlers, k # h
      PROVE  SessionSet(k)'
  <2> SUFFICES ASSUME call'[k].step \in {"exec", "deleting"}, Tx(k)'.scoped
               PROVE  session'[call'[k].conn] = call'[k].req.tenant
    BY DEF SessionSet
  <2>1. InTx(k) /\ Active(k) /\ call[k].step \in {"exec", "deleting"}
    BY <1>1, <1>3 DEF OthersSame, InTx, Active
  <2>2. /\ call'[k].conn = call[k].conn /\ call'[k].req = call[k].req
        /\ Tx(k)' = Tx(k)
    BY <1>1, <1>3, <2>1 DEF OthersSame, Tx
  <2>3. session[call[k].conn] = call[k].req.tenant
    BY <2>1, <2>2 DEF SessionSet
  <2>4. InTx(h) => call[k].conn # call[h].conn
    BY <1>3, <2>1 DEF Connections
  <2>5. call[k].conn \in Conns
    BY <2>1 DEF Placed
  <2> QED
    BY <1>2, <2>2, <2>3, <2>4, <2>5 DEF Shape
<1> SUFFICES SessionSet(h)'
  BY <1>3
<1>4. ASSUME NEW r \in Requests[workload], Receive(h, r)
      PROVE  SessionSet(h)'
  BY <1>4, ReceiveFacts DEF SessionSet
<1>5. CASE Begin(h)
  <2>1. Tx(h)' = Tx(h)
    BY <1>5, BeginFacts DEF Tx
  <2> QED
    BY <1>5, <2>1, BeginFacts DEF SessionSet
<1>6. CASE SetTenant(h)
  <2>1. call[h].conn \in Conns /\ call'[h].conn = call[h].conn
        /\ call'[h].req = call[h].req
    BY <1>6, SetTenantFacts DEF Placed, Active, InTx, SameTx
  <2>2. session' = [session EXCEPT ![call[h].conn] = call[h].req.tenant]
    BY <1>6 DEF SetTenant
  <2> QED
    BY <2>1, <2>2 DEF SessionSet, Shape
<1>7. ASSUME call[h].step \in {"exec", "deleting"}, SameTx(h), session' = session
      PROVE  SessionSet(h)'
  <2>1. Tx(h)' = Tx(h)
    BY <1>7 DEF Tx, SameTx
  <2> QED
    BY <1>7, <2>1 DEF SessionSet, SameTx
<1>8. CASE RunInsert(h) /\ ~Rollback(h)
  BY <1>7, <1>8, InsertFacts, InsertedRow DEF Executing
<1>9. CASE FindRows(h)
  <2>1. call[h].step \in {"exec", "deleting"} /\ session' = session
    BY <1>9 DEF FindRows, Executing
  <2> QED
    BY <1>7, <1>9, <2>1, FindRowsFacts
<1>10. CASE DeleteRows(h)
  <2>1. call[h].step \in {"exec", "deleting"} /\ session' = session
    BY <1>10 DEF DeleteRows
  <2> QED
    BY <1>7, <1>10, <2>1, DeleteRowsFacts
<1>11. CASE RunSelect(h)
  <2>1. call[h].step \in {"exec", "deleting"} /\ session' = session
    BY <1>11 DEF RunSelect, Executing
  <2> QED
    BY <1>7, <1>11, <2>1, SelectFacts
<1>12. ASSUME call'[h].step \in {"idle", "begin", "apply"}
       PROVE  SessionSet(h)'
  BY <1>12 DEF SessionSet
<1>13. CASE Commit(h)
  <2>1. call'[h].step \in {"idle", "begin", "apply"}
    BY <1>13, CommitFacts DEF Idle
  <2> QED
    BY <1>12, <2>1
<1>14. CASE Leaves(h)
  <2>1. call'[h].step = "idle"
    BY <1>14, LeavesFacts DEF Idle
  <2> QED
    BY <1>12, <2>1
<1>15. CASE InTx(h) /\ Rollback(h)
  <2>1. call'[h].step = "idle"
    BY <1>15, RollbackFacts DEF Idle
  <2> QED
    BY <1>12, <2>1
<1> QED
  BY <1>4, <1>5, <1>6, <1>8, <1>9, <1>10, <1>11, <1>13, <1>14, <1>15 DEF Step

\* Under row-level security a statement reads and writes its tenant's rows.
LEMMA PolicyHolds ==
    ASSUME NEW h \in Handlers, SessionSet(h), call[h].step = "exec",
           NEW r, Allowed(h, r), Tx(h).scoped
    PROVE  r.tenant = call[h].req.tenant
BY DEF SessionSet, Allowed

\* No call reads or writes what is another tenant's.
LEMMA OwnDataStep ==
    ASSUME Shape, \A h \in Handlers : Placed(h),
           \A h \in Handlers : SessionSet(h), \A h \in Handlers : OwnData(h),
           NEW h \in Handlers, Step(h), UNCHANGED workload
    PROVE  \A k \in Handlers : OwnData(k)'
<1>1. OthersSame(h)
  BY OthersSameStep
<1>2. ASSUME NEW k \in Handlers, k # h
      PROVE  OwnData(k)'
  <2> SUFFICES ASSUME Active(k)
               PROVE  OwnData(k)'
    BY <1>1, <1>2 DEF OthersSame, OwnData, Active
  <2>1. /\ call'[k].req = call[k].req /\ call'[k].stmt = call[k].stmt
        /\ call'[k].ins = call[k].ins /\ call'[k].del = call[k].del
        /\ call'[k].got = call[k].got /\ call'[k].targets \subseteq call[k].targets
        /\ Tx(k)' = Tx(k)
    BY <1>1, <1>2 DEF OthersSame, Tx
  <2>2. \A j, r : Inserts(k, j, r)' <=> Inserts(k, j, r)
    BY <2>1 DEF Inserts
  <2> QED
    BY <2>1, <2>2 DEF OwnData
<1> SUFFICES OwnData(h)'
  BY <1>2
<1>3. ASSUME call'[h] = Idle
      PROVE  OwnData(h)'
  BY <1>3 DEF OwnData, Active, Idle
<1>4. ASSUME NEW r \in Requests[workload], Receive(h, r)
      PROVE  OwnData(h)'
  BY <1>4, ReceiveFacts DEF OwnData
<1>5. CASE Begin(h)
  <2>1. /\ Active(h) /\ call[h].ins = {} /\ call[h].del = {}
        /\ call'[h].req = call[h].req /\ call'[h].got = call[h].got
        /\ call'[h].ins = call[h].ins /\ call'[h].del = call[h].del
        /\ call'[h].targets = call[h].targets
    BY <1>5, BeginFacts DEF Active, Placed
  <2> QED
    BY <2>1 DEF OwnData
<1>6. ASSUME Active(h), SameTx(h), call[h].stmt \in Nat,
             call'[h].stmt \in {call[h].stmt, call[h].stmt + 1}
      PROVE  /\ \A r \in call'[h].ins \cap call[h].ins :
                    /\ r.tenant = call'[h].req.tenant
                    /\ \E j \in 1 .. call'[h].stmt - 1 :
                          j <= Len(Tx(h)'.stmts) /\ Inserts(h, j, r)'
             /\ Tx(h)' = Tx(h) /\ call'[h].req = call[h].req
             /\ \A j, r : Inserts(h, j, r)' <=> Inserts(h, j, r)
  <2>1. Tx(h)' = Tx(h) /\ call'[h].req = call[h].req
    BY <1>6 DEF SameTx, Tx
  <2>2. \A j, r : Inserts(h, j, r)' <=> Inserts(h, j, r)
    BY <2>1 DEF Inserts
  <2>3. ASSUME NEW r \in call[h].ins
        PROVE  /\ r.tenant = call'[h].req.tenant
               /\ \E j \in 1 .. call'[h].stmt - 1 :
                     j <= Len(Tx(h)'.stmts) /\ Inserts(h, j, r)'
    <3>1. /\ r.tenant = call[h].req.tenant
          /\ \E j \in 1 .. call[h].stmt - 1 :
                j <= Len(Tx(h).stmts) /\ Inserts(h, j, r)
      BY <1>6 DEF OwnData
    <3>2. PICK j \in 1 .. call[h].stmt - 1 :
              j <= Len(Tx(h).stmts) /\ Inserts(h, j, r)
      BY <3>1
    <3>3. j \in 1 .. call'[h].stmt - 1
      BY <1>6
    <3> QED
      BY <2>1, <2>2, <3>1, <3>2, <3>3
  <2> QED
    BY <2>1, <2>2, <2>3
<1>7. CASE SetTenant(h)
  <2>1. Active(h) /\ call[h].stmt \in Nat
    BY <1>7, SetTenantFacts DEF Active, CallState
  <2>2. /\ call'[h].stmt = call[h].stmt /\ SameTx(h)
        /\ call'[h].ins = call[h].ins /\ call'[h].del = call[h].del
        /\ call'[h].targets = call[h].targets /\ call'[h].got = call[h].got
    BY <1>7, SetTenantFacts
  <2> QED
    BY <1>6, <2>1, <2>2 DEF OwnData
<1>8. CASE RunInsert(h) /\ ~Rollback(h)
  <2> DEFINE s == Statement(h)
  <2>1. /\ Executing(h, "insert") /\ Active(h) /\ call[h].stmt \in Nat
        /\ call[h].step = "exec"
    BY <1>8, InsertFacts, InsertedRow DEF Active, CallState, Executing
  <2>2. /\ call'[h].stmt = call[h].stmt + 1 /\ SameTx(h) /\ Allowed(h, s.row)
        /\ \/ call'[h].ins = call[h].ins
           \/ call'[h].ins = call[h].ins \cup {s.row}
        /\ call'[h].del = call[h].del
        /\ call'[h].targets = call[h].targets /\ call'[h].got = call[h].got
    BY <1>8, InsertFacts, InsertedRow
  <2>3. /\ WellFormedStatement(call[h].req.tenant, Tx(h), call[h].stmt)
        /\ call[h].stmt \in 1 .. Len(Tx(h).stmts)
    BY <2>1, AtStatement DEF Executing
  <2>4. s.row.tenant = call[h].req.tenant
    <3>1. CASE Tx(h).scoped
      BY <2>1, <2>2, <3>1, PolicyHolds
    <3>2. CASE ~Tx(h).scoped
      BY <2>1, <2>3, <3>2 DEF WellFormedStatement, Executing, Statement
    <3> QED
      BY <3>1, <3>2
  <2>5. Inserts(h, call[h].stmt, s.row)
    BY <2>1 DEF Inserts, Executing, Statement
  <2>6. call[h].stmt \in 1 .. call'[h].stmt - 1 /\ call[h].stmt <= Len(Tx(h).stmts)
    BY <2>1, <2>2, <2>3 DEF Executing
  <2> HIDE DEF s
  <2>7. \A r \in call'[h].ins :
              /\ r.tenant = call'[h].req.tenant
              /\ \E j \in 1 .. call'[h].stmt - 1 :
                    j <= Len(Tx(h)'.stmts) /\ Inserts(h, j, r)'
    BY <1>6, <2>1, <2>2, <2>4, <2>5, <2>6
  <2> QED
    BY <1>6, <2>1, <2>2, <2>7 DEF OwnData
<1>9. CASE FindRows(h)
  <2>1. /\ Executing(h, "delete") /\ Active(h) /\ call[h].stmt \in Nat
        /\ call[h].step = "exec"
    BY <1>9, FindRowsFacts DEF Active, CallState, Executing
  <2>2. /\ call'[h].stmt = call[h].stmt /\ SameTx(h)
        /\ call'[h].ins = call[h].ins /\ call'[h].del = call[h].del
        /\ call'[h].targets \subseteq Visible(h) /\ call'[h].got = call[h].got
    BY <1>9, FindRowsFacts
  <2>3. WellFormedStatement(call[h].req.tenant, Tx(h), call[h].stmt)
    BY <2>1, AtStatement DEF Executing
  <2>4. Tx(h).scoped
    BY <2>1, <2>3 DEF WellFormedStatement, Executing, Statement
  <2>5. \A r \in call'[h].targets : r.tenant = call[h].req.tenant
    BY <2>1, <2>2, <2>4, PolicyHolds DEF Visible
  <2> QED
    BY <1>6, <2>1, <2>2, <2>5 DEF OwnData
<1>10. CASE DeleteRows(h)
  <2>1. Active(h) /\ call[h].stmt \in Nat
    BY <1>10, DeleteRowsFacts DEF Active, CallState
  <2>2. /\ call'[h].stmt = call[h].stmt + 1 /\ SameTx(h)
        /\ call'[h].ins \subseteq call[h].ins
        /\ call'[h].del \subseteq call[h].del \cup call[h].targets
        /\ call'[h].targets = {} /\ call'[h].got = call[h].got
    BY <1>10, DeleteRowsFacts
  <2> QED
    BY <1>6, <2>1, <2>2 DEF OwnData
<1>11. CASE RunSelect(h)
  <2>1. /\ Executing(h, "select") \/ Executing(h, "join")
        /\ Active(h) /\ call[h].stmt \in Nat /\ call[h].step = "exec"
    BY <1>11, SelectFacts DEF Active, CallState, Executing
  <2>2. /\ call'[h].stmt = call[h].stmt + 1 /\ SameTx(h)
        /\ call'[h].ins = call[h].ins /\ call'[h].del = call[h].del
        /\ call'[h].targets = call[h].targets
        /\ call'[h].got = call[h].got \cup Selected(h)
        /\ Selected(h) \subseteq Visible(h)
    BY <1>11, SelectFacts
  <2>3. WellFormedStatement(call[h].req.tenant, Tx(h), call[h].stmt)
    BY <2>1, AtStatement DEF Executing
  <2>4. ASSUME NEW r \in Selected(h)
        PROVE  r.table = "tenants" \/ r.tenant = call[h].req.tenant
    <3>1. CASE Tx(h).scoped
      BY <2>1, <2>2, <3>1, PolicyHolds DEF Visible
    <3>2. CASE ~Tx(h).scoped
      <4>1. Statement(h).do = "select" /\ Statement(h).table = "tenants"
        BY <2>1, <2>3, <3>2 DEF WellFormedStatement, Executing, Statement
      <4> QED
        BY <4>1 DEF Selected, Matches
    <3> QED
      BY <3>1, <3>2
  <2> QED
    BY <1>6, <2>1, <2>2, <2>4 DEF OwnData
<1>12. CASE Commit(h)
  <2>1. Active(h)
    BY <1>12, CommitFacts DEF Active
  <2>2. \/ call'[h] = Idle
        \/ /\ call'[h].req = call[h].req
           /\ call'[h].ins = {} /\ call'[h].del = {}
           /\ call'[h].targets = call[h].targets /\ call'[h].got = call[h].got
    BY <1>12, CommitFacts
  <2> QED
    BY <1>3, <2>1, <2>2 DEF OwnData
<1>13. CASE Leaves(h)
  BY <1>3, <1>13, LeavesFacts
<1>14. CASE InTx(h) /\ Rollback(h)
  BY <1>3, <1>14, RollbackFacts
<1> QED
  BY <1>4, <1>5, <1>7, <1>8, <1>9, <1>10, <1>11, <1>12, <1>13, <1>14 DEF Step

---------------------------------------------------------------------------
\* One winner.

\* A transaction that is not over has inserted each key once, none that is
\* committed and none that another open transaction has inserted.
UniqueKeys(R) == \A r1, r2 \in R : Key(r1) = Key(r2) => r1 = r2
Apart(R, S) == \A r1 \in R, r2 \in S : Key(r1) # Key(r2)
Winner ==
    /\ UniqueKeys(rows)
    /\ \A h \in Handlers : InTx(h) =>
          /\ UniqueKeys(call[h].ins)
          /\ Apart(call[h].ins, rows \ call[h].del)
          /\ \A k \in Handlers : k # h /\ InTx(k) => Apart(call[h].ins, call[k].ins)

\* The keys of two sets of rows that are apart have nothing in common.
LEMMA WinnerIsOne ==
    ASSUME Winner
    PROVE  OneWinner
<1>1. \A R, S : Apart(R, S) => KeysOf(R) \cap KeysOf(S) = {}
  BY DEF Apart, KeysOf
<1> QED
  BY <1>1 DEF Winner, OneWinner, UniqueKeys

\* An insert waits until no other open transaction has written its key.
LEMMA NotBlocked ==
    ASSUME NEW h \in Handlers, Executing(h, "insert"), ~Blocked(h),
           NEW k \in Handlers, k # h, InTx(k)
    PROVE  \A r \in call[k].ins : Key(r) # Key(Statement(h).row)
<1>1. InTx(h)
  BY DEF Executing, InTx
<1>2. Wants(h) = {Key(Statement(h).row)}
  BY DEF Wants
<1>3. Wants(h) \cap KeysOf(call[k].ins \cup call[k].del) = {}
  BY <1>1 DEF Blocked, Waits
<1>4. \A r \in call[k].ins : Key(r) \in KeysOf(call[k].ins \cup call[k].del)
  BY DEF KeysOf
<1> QED
  BY <1>2, <1>3, <1>4

\* No step makes two rows of one key, since an insert waits for the other one.
LEMMA WinnerStep ==
    ASSUME Shape, \A h \in Handlers : Placed(h), Winner,
           NEW h \in Handlers, Step(h), UNCHANGED workload
    PROVE  Winner'
<1>1. OthersSame(h)
  BY OthersSameStep
<1>2. \A k \in Handlers : k # h =>
          /\ InTx(k)' <=> InTx(k)
          /\ InTx(k) => call'[k].ins = call[k].ins /\ call'[k].del = call[k].del
  <2> SUFFICES ASSUME NEW k \in Handlers, k # h
               PROVE  /\ InTx(k)' <=> InTx(k)
                      /\ InTx(k) => call'[k].ins = call[k].ins
                                    /\ call'[k].del = call[k].del
    OBVIOUS
  <2>1. InTx(k) => Active(k)
    BY CallShape
  <2>2. InTx(k)' <=> InTx(k)
    BY <1>1 DEF OthersSame, InTx
  <2> QED
    BY <1>1, <2>1, <2>2 DEF OthersSame
<1>3. \A R, S : Apart(R, S) => Apart(S, R)
  BY DEF Apart
\* The open transactions besides h, when the committed rows do not change.
<1>4. ASSUME rows' = rows,
             InTx(h)' =>
                /\ UniqueKeys(call'[h].ins)
                /\ Apart(call'[h].ins, rows \ call'[h].del)
                /\ \A k \in Handlers : k # h /\ InTx(k) =>
                       Apart(call'[h].ins, call[k].ins)
      PROVE  Winner'
  <2>1. UniqueKeys(rows)'
    BY <1>4 DEF Winner, UniqueKeys
  <2>2. ASSUME NEW k \in Handlers, InTx(k)'
        PROVE  /\ UniqueKeys(call'[k].ins)
               /\ Apart(call'[k].ins, rows' \ call'[k].del)
    BY <1>2, <1>4, <2>2 DEF Winner
  <2>3. ASSUME NEW k \in Handlers, NEW i \in Handlers, i # k, InTx(k)', InTx(i)'
        PROVE  Apart(call'[k].ins, call'[i].ins)
    <3>1. CASE k = h
      BY <1>2, <1>4, <2>3, <3>1
    <3>2. CASE i = h
      BY <1>2, <1>3, <1>4, <2>3, <3>2
    <3>3. CASE k # h /\ i # h
      BY <1>2, <2>3, <3>3 DEF Winner
    <3> QED
      BY <3>1, <3>2, <3>3
  <2> QED
    BY <2>1, <2>2, <2>3 DEF Winner, UniqueKeys, Apart
\* Less inserted, more deleted.
<1>5. ASSUME rows' = rows, InTx(h), call'[h].ins \subseteq call[h].ins,
             call[h].del \subseteq call'[h].del
      PROVE  Winner'
  <2>1. /\ UniqueKeys(call[h].ins) /\ Apart(call[h].ins, rows \ call[h].del)
        /\ \A k \in Handlers : k # h /\ InTx(k) => Apart(call[h].ins, call[k].ins)
    BY <1>5 DEF Winner
  <2>2. /\ UniqueKeys(call'[h].ins) /\ Apart(call'[h].ins, rows \ call'[h].del)
        /\ \A k \in Handlers : k # h /\ InTx(k) => Apart(call'[h].ins, call[k].ins)
    BY <1>5, <2>1 DEF UniqueKeys, Apart
  <2> QED
    BY <1>4, <1>5, <2>2
<1>6. ASSUME NEW r \in Requests[workload], Receive(h, r)
      PROVE  Winner'
  <2>1. rows' = rows /\ ~InTx(h)'
    BY <1>6, ReceiveFacts DEF Receive, InTx
  <2> QED
    BY <1>4, <2>1
<1>7. CASE Begin(h)
  <2>1. rows' = rows /\ call'[h].ins = {}
    BY <1>7, BeginFacts DEF Begin, Placed, Active
  <2> QED
    BY <1>4, <2>1 DEF UniqueKeys, Apart
<1>8. CASE SetTenant(h)
  <2>1. rows' = rows /\ InTx(h)
    BY <1>8 DEF SetTenant, InTx
  <2> QED
    BY <1>5, <1>8, <2>1, SetTenantFacts
<1>9. CASE RunInsert(h) /\ ~Rollback(h)
  <2> DEFINE r == Statement(h).row
  <2>1. /\ rows' = rows /\ InTx(h) /\ Executing(h, "insert") /\ ~Blocked(h)
        /\ call'[h].del = call[h].del
        /\ \/ call'[h].ins = call[h].ins
           \/ /\ call'[h].ins = call[h].ins \cup {r}
              /\ Key(r) \notin KeysOf(Snapshot(h))
    BY <1>9, InsertFacts, InsertedRow DEF InTx, Executing
  <2>2. CASE call'[h].ins = call[h].ins
    BY <1>5, <2>1, <2>2
  <2>3. CASE call'[h].ins = call[h].ins \cup {r} /\ Key(r) \notin KeysOf(Snapshot(h))
    <3>1. \A x \in (rows \ call[h].del) \cup call[h].ins : Key(x) # Key(r)
      BY <2>3 DEF KeysOf, Snapshot
    <3>2. \A k \in Handlers : k # h /\ InTx(k) =>
              \A x \in call[k].ins : Key(x) # Key(r)
      BY <2>1, NotBlocked
    <3>3. /\ UniqueKeys(call[h].ins) /\ Apart(call[h].ins, rows \ call[h].del)
          /\ \A k \in Handlers : k # h /\ InTx(k) => Apart(call[h].ins, call[k].ins)
      BY <2>1 DEF Winner
    <3> HIDE DEF r
    <3>4. UniqueKeys(call'[h].ins)
      BY <2>3, <3>1, <3>3 DEF UniqueKeys
    <3>5. Apart(call'[h].ins, rows \ call'[h].del)
      BY <2>1, <2>3, <3>1, <3>3 DEF Apart
    <3>6. \A k \in Handlers : k # h /\ InTx(k) => Apart(call'[h].ins, call[k].ins)
      BY <2>3, <3>2, <3>3 DEF Apart
    <3> QED
      BY <1>4, <2>1, <3>4, <3>5, <3>6
  <2> QED
    BY <2>1, <2>2, <2>3
<1>10. CASE FindRows(h)
  <2>1. rows' = rows /\ InTx(h)
    BY <1>10 DEF FindRows, InTx, Executing
  <2> QED
    BY <1>5, <1>10, <2>1, FindRowsFacts
<1>11. CASE DeleteRows(h)
  <2>1. rows' = rows /\ InTx(h)
    BY <1>11 DEF DeleteRows, InTx
  <2>2. call'[h].ins \subseteq call[h].ins /\ call[h].del \subseteq call'[h].del
    BY <1>11, DeleteRowsFacts
  <2> QED
    BY <1>5, <2>1, <2>2
<1>12. CASE RunSelect(h)
  <2>1. rows' = rows /\ InTx(h)
    BY <1>12 DEF RunSelect, InTx, Executing
  <2> QED
    BY <1>5, <1>12, <2>1, SelectFacts
<1>13. CASE Commit(h)
  <2>1. /\ InTx(h) /\ rows' = (rows \ call[h].del) \cup call[h].ins
        /\ ~InTx(h)'
    BY <1>13, CommitFacts DEF InTx, Idle, Snapshot
  <2>2. /\ UniqueKeys(rows) /\ UniqueKeys(call[h].ins)
        /\ Apart(call[h].ins, rows \ call[h].del)
        /\ \A k \in Handlers : k # h /\ InTx(k) => Apart(call[k].ins, call[h].ins)
    BY <1>3, <2>1 DEF Winner
  <2>3. UniqueKeys(rows')
    BY <2>1, <2>2 DEF UniqueKeys, Apart
  <2>4. ASSUME NEW k \in Handlers, InTx(k)'
        PROVE  /\ UniqueKeys(call'[k].ins)
               /\ Apart(call'[k].ins, rows' \ call'[k].del)
    <3>1. /\ k # h /\ InTx(k)
          /\ call'[k].ins = call[k].ins /\ call'[k].del = call[k].del
      BY <1>2, <2>1, <2>4
    <3>2. /\ UniqueKeys(call[k].ins) /\ Apart(call[k].ins, rows \ call[k].del)
          /\ Apart(call[k].ins, call[h].ins)
      BY <2>2, <3>1 DEF Winner
    <3>3. Apart(call[k].ins, rows' \ call[k].del)
      BY <2>1, <3>2 DEF Apart
    <3> QED
      BY <3>1, <3>2, <3>3
  <2>5. ASSUME NEW k \in Handlers, NEW i \in Handlers, i # k, InTx(k)', InTx(i)'
        PROVE  Apart(call'[k].ins, call'[i].ins)
    BY <1>2, <2>1, <2>5 DEF Winner
  <2> QED
    BY <2>3, <2>4, <2>5 DEF Winner, UniqueKeys, Apart
<1>14. CASE Leaves(h)
  <2>1. rows' = rows /\ ~InTx(h)'
    BY <1>14, LeavesFacts DEF Leaves, InTx, Idle
  <2> QED
    BY <1>4, <2>1
<1>15. CASE InTx(h) /\ Rollback(h)
  <2>1. rows' = rows /\ ~InTx(h)'
    BY <1>15, RollbackFacts DEF InTx, Idle
  <2> QED
    BY <1>4, <2>1
<1> QED
  BY <1>6, <1>7, <1>8, <1>9, <1>10, <1>11, <1>12, <1>13, <1>14, <1>15 DEF Step

---------------------------------------------------------------------------
\* What was validated.

RowsAreRows == \A r \in rows : IsRow(r)

\* A call that will write to Redis only reads, what it has read was there
\* during the call, and it writes when it has found what it asked for.
Registered(h) ==
    Active(h) /\ call[h].req.apply # {} =>
        /\ call[h].ins = {} /\ call[h].del = {}
        /\ rows \subseteq call[h].live /\ call[h].got \subseteq call[h].live
        /\ \A r \in call[h].got : IsRow(r) /\ r.tenant = call[h].req.tenant
        /\ \A i \in 1 .. call[h].tx - 1 : Found(h, i)
        /\ call[h].step = "apply" =>
              call[h].tx = Len(call[h].req.txs) /\ Found(h, call[h].tx)

\* Only a commit changes the committed rows, and those of the call that
\* commits are rows.
LEMMA RowsStep ==
    ASSUME NEW h \in Handlers, Step(h), rows' # rows
    PROVE  Commit(h)
<1>1. ASSUME NEW r \in Requests[workload], Receive(h, r)
      PROVE  rows' = rows
  BY <1>1 DEF Receive
<1>2. CASE RunInsert(h) /\ ~Rollback(h)
  BY <1>2 DEF RunInsert
<1>3. CASE Rollback(h)
  BY <1>3 DEF Rollback
<1>4. CASE Leaves(h)
  BY <1>4 DEF Leaves
<1>5. CASE Begin(h)
  BY <1>5 DEF Begin
<1>6. CASE SetTenant(h) \/ FindRows(h) \/ DeleteRows(h) \/ RunSelect(h)
  BY <1>6 DEF SetTenant, FindRows, DeleteRows, RunSelect
<1> QED
  BY <1>1, <1>2, <1>3, <1>4, <1>5, <1>6 DEF Step

\* An inserted row is that of a well-formed statement.
LEMMA InsertedBy ==
    ASSUME Shape, NEW h \in Handlers, Placed(h), OwnData(h), Active(h),
           NEW r \in call[h].ins
    PROVE  /\ IsRow(r) /\ r.tenant = call[h].req.tenant
           /\ call[h].stmt > 1
           /\ r.table = "queue_dispositions" =>
                 Tx(h).stmts[1] = Delete("queue_dispositions", 1, {r.id[1]})
<1>1. /\ WellFormedTx(call[h].req.tenant, Tx(h)) /\ call[h] \in CallState
      /\ r.tenant = call[h].req.tenant
  BY TxWellFormed DEF OwnData
<1>2. PICK j \in 1 .. call[h].stmt - 1 : j <= Len(Tx(h).stmts) /\ Inserts(h, j, r)
  BY DEF OwnData
<1>3. call[h].stmt \in Nat /\ Len(Tx(h).stmts) \in Nat
  BY <1>1 DEF CallState, WellFormedTx
<1>4. j \in 1 .. Len(Tx(h).stmts) /\ call[h].stmt > 1
  BY <1>2, <1>3
<1>5. WellFormedStatement(call[h].req.tenant, Tx(h), j)
  BY <1>1, <1>4 DEF WellFormedTx
<1> QED
  BY <1>1, <1>2, <1>4, <1>5 DEF WellFormedStatement, Inserts

\* What is committed has the columns of a row.
LEMMA RowsAreRowsStep ==
    ASSUME Shape, \A h \in Handlers : Placed(h), \A h \in Handlers : OwnData(h),
           RowsAreRows, NEW h \in Handlers, Step(h)
    PROVE  RowsAreRows'
<1>1. CASE rows' = rows
  BY <1>1 DEF RowsAreRows
<1>2. CASE rows' # rows
  <2>1. Commit(h)
    BY <1>2, RowsStep
  <2>2. Active(h) /\ rows' = (rows \ call[h].del) \cup call[h].ins
    BY <2>1 DEF Commit, Active, Snapshot
  <2>3. \A r \in call[h].ins : IsRow(r)
    BY <2>2, InsertedBy
  <2> QED
    BY <2>2, <2>3 DEF RowsAreRows
<1> QED
  BY <1>1, <1>2

\* The rows of another call's live are there during the call.
LEMMA LiveStep ==
    ASSUME Shape, \A h \in Handlers : Placed(h), NEW h \in Handlers, Step(h),
           NEW k \in Handlers, k # h, Active(k), rows \subseteq call[k].live
    PROVE  call[k].live \subseteq call'[k].live /\ rows' \subseteq call'[k].live
<1>1. CASE Commit(h)
  BY <1>1, CommitFacts
<1>2. ASSUME OthersKept(h), rows' = rows
      PROVE  call[k].live \subseteq call'[k].live /\ rows' \subseteq call'[k].live
  BY <1>2 DEF OthersKept
<1>3. rows' = rows \/ Commit(h)
  BY RowsStep
<1>4. CASE rows' = rows
  <2>1. ASSUME NEW r \in Requests[workload], Receive(h, r)
        PROVE  OthersKept(h)
    BY <2>1, ReceiveFacts DEF OthersKept
  <2>2. CASE Begin(h)
    <3>1. \/ call'[k] = call[k]
          \/ InTx(k) /\ call'[k] = [call[k] EXCEPT !.alone = FALSE]
      BY <2>2, BeginFacts
    <3>2. call[k] \in CallState
      BY CallShape
    <3>3. call'[k].live = call[k].live
      BY <3>1, <3>2 DEF CallState
    <3> QED
      BY <1>4, <3>3
  <2>3. SetTenant(h) => OthersKept(h)
    BY SetTenantFacts
  <2>4. RunInsert(h) /\ ~Rollback(h) => OthersKept(h)
    BY InsertFacts, InsertedRow
  <2>5. FindRows(h) => OthersKept(h)
    BY FindRowsFacts
  <2>6. DeleteRows(h) => OthersKept(h)
    BY DeleteRowsFacts
  <2>7. RunSelect(h) => OthersKept(h)
    BY SelectFacts
  <2>8. Leaves(h) => OthersKept(h)
    BY LeavesFacts
  <2>9. Rollback(h) => OthersKept(h)
    BY RollbackFacts
  <2> QED
    BY <1>1, <1>2, <1>4, <2>1, <2>2, <2>3, <2>4, <2>5, <2>6, <2>7, <2>8, <2>9
       DEF Step
<1> QED
  BY <1>1, <1>3, <1>4

\* A call that validates reads only.
LEMMA ValidationReads ==
    ASSUME Shape, NEW h \in Handlers, Placed(h), Active(h),
           call[h].req.apply # {}
    PROVE  /\ Tx(h).scoped
           /\ call[h].stmt <= Len(Tx(h).stmts) =>
                 Statement(h).do \in {"select", "join"}
<1>1. /\ WellFormed(call[h].req) /\ call[h] \in CallState
      /\ call[h].tx \in 1 .. Len(call[h].req.txs)
  BY TxWellFormed DEF Placed
<1>2. OnlyReads(Tx(h))
  BY <1>1 DEF WellFormed, Tx
<1>3. call[h].stmt <= Len(Tx(h).stmts) => call[h].stmt \in DOMAIN Tx(h).stmts
  BY AtStatement DEF WellFormedTx
<1> QED
  BY <1>2, <1>3 DEF OnlyReads, Statement

\* What a call has found it keeps.
LEMMA FoundStays ==
    ASSUME NEW h \in Handlers, NEW i, Found(h, i), call'[h].req = call[h].req,
           call[h].got \subseteq call'[h].got
    PROVE  Found(h, i)'
BY DEF Found

\* A validation that goes on has read only what was there during the call.
LEMMA RegisteredStep ==
    ASSUME Shape, \A h \in Handlers : Placed(h),
           \A h \in Handlers : SessionSet(h), RowsAreRows,
           \A h \in Handlers : Registered(h),
           NEW h \in Handlers, Step(h), UNCHANGED workload
    PROVE  \A k \in Handlers : Registered(k)'
<1>1. OthersSame(h)
  BY OthersSameStep
<1>2. ASSUME NEW k \in Handlers, k # h
      PROVE  Registered(k)'
  <2> SUFFICES ASSUME Active(k)', call'[k].req.apply # {}
               PROVE  Registered(k)'
    BY DEF Registered
  <2>1. Active(k)
    BY <1>1, <1>2 DEF OthersSame, Active
  <2>2. /\ call'[k].step = call[k].step /\ call'[k].req = call[k].req
        /\ call'[k].ins = call[k].ins /\ call'[k].del = call[k].del
        /\ call'[k].got = call[k].got /\ call'[k].tx = call[k].tx
    BY <1>1, <1>2, <2>1 DEF OthersSame
  <2>3. /\ call[k].ins = {} /\ call[k].del = {}
        /\ rows \subseteq call[k].live /\ call[k].got \subseteq call[k].live
        /\ \A r \in call[k].got : IsRow(r) /\ r.tenant = call[k].req.tenant
        /\ \A i \in 1 .. call[k].tx - 1 : Found(k, i)
        /\ call[k].step = "apply" =>
              call[k].tx = Len(call[k].req.txs) /\ Found(k, call[k].tx)
    BY <2>1, <2>2 DEF Registered
  <2>4. call[k].live \subseteq call'[k].live /\ rows' \subseteq call'[k].live
    BY <1>2, <2>1, <2>3, LiveStep
  <2>5. \A i : Found(k, i) => Found(k, i)'
    BY <2>2, FoundStays
  <2> QED
    BY <2>2, <2>3, <2>4, <2>5 DEF Registered
<1> SUFFICES ASSUME Active(h)', call'[h].req.apply # {}
             PROVE  Registered(h)'
  BY <1>2 DEF Registered
<1>3. ASSUME NEW r \in Requests[workload], Receive(h, r)
      PROVE  Registered(h)'
  <2>1. rows' = rows
    BY <1>3 DEF Receive
  <2> QED
    BY <1>3, <2>1, ReceiveFacts DEF Registered
<1>4. CASE InTx(h) /\ Rollback(h)
  BY <1>4, RollbackFacts DEF Active, Idle
<1>5. CASE Leaves(h)
  BY <1>5, LeavesFacts DEF Active, Idle
<1> SUFFICES ASSUME Active(h), call'[h].req = call[h].req,
                    \/ Begin(h) \/ SetTenant(h)
                    \/ RunInsert(h) /\ ~Rollback(h)
                    \/ FindRows(h) \/ DeleteRows(h) \/ RunSelect(h)
                    \/ Commit(h)
             PROVE  Registered(h)'
  <2>1. Begin(h) => Active(h) /\ call'[h].req = call[h].req
    BY BeginFacts DEF Active
  <2>2. SetTenant(h) => Active(h) /\ call'[h].req = call[h].req
    BY SetTenantFacts DEF Active, SameTx
  <2>3. RunInsert(h) /\ ~Rollback(h) => Active(h) /\ call'[h].req = call[h].req
    BY InsertFacts, InsertedRow DEF Active, SameTx, Executing
  <2>4. FindRows(h) => Active(h) /\ call'[h].req = call[h].req
    BY FindRowsFacts DEF Active, SameTx, Executing
  <2>5. DeleteRows(h) => Active(h) /\ call'[h].req = call[h].req
    BY DeleteRowsFacts DEF Active, SameTx
  <2>6. RunSelect(h) => Active(h) /\ call'[h].req = call[h].req
    BY SelectFacts DEF Active, SameTx, Executing
  <2>7. Commit(h) => Active(h) /\ (call'[h] = Idle \/ call'[h].req = call[h].req)
    BY CommitFacts DEF Active
  <2>8. call'[h] # Idle
    BY DEF Active, Idle
  <2> QED
    BY <1>3, <1>4, <1>5, <2>1, <2>2, <2>3, <2>4, <2>5, <2>6, <2>7, <2>8 DEF Step
<1>6. /\ call[h].ins = {} /\ call[h].del = {}
      /\ rows \subseteq call[h].live /\ call[h].got \subseteq call[h].live
      /\ \A r \in call[h].got : IsRow(r) /\ r.tenant = call[h].req.tenant
      /\ \A i \in 1 .. call[h].tx - 1 : Found(h, i)
  BY DEF Registered
<1>7. /\ Tx(h).scoped
      /\ call[h].stmt <= Len(Tx(h).stmts) => Statement(h).do \in {"select", "join"}
  BY ValidationReads
<1>8. ASSUME rows' = rows, call'[h].ins = call[h].ins, call'[h].del = call[h].del,
             call'[h].live = call[h].live, call'[h].tx = call[h].tx,
             call[h].got \subseteq call'[h].got,
             call'[h].got \subseteq call[h].got \cup Visible(h),
             call'[h].got = call[h].got \/ call[h].step = "exec",
             call'[h].step # "apply"
      PROVE  Registered(h)'
  <2>1. Visible(h) \subseteq rows
    BY <1>6 DEF Visible, Snapshot
  <2>2. \A r \in call'[h].got : IsRow(r) /\ r.tenant = call[h].req.tenant
    <3>1. CASE call'[h].got = call[h].got
      BY <1>6, <3>1
    <3>2. CASE call[h].step = "exec"
      BY <1>6, <1>7, <1>8, <2>1, <3>2, PolicyHolds DEF Visible, RowsAreRows
    <3> QED
      BY <1>8, <3>1, <3>2
  <2>3. \A i : Found(h, i) => Found(h, i)'
    BY <1>8, FoundStays
  <2> QED
    BY <1>6, <1>8, <2>1, <2>2, <2>3 DEF Registered
<1>9. CASE Begin(h)
  <2>1. rows' = rows
    BY <1>9 DEF Begin
  <2> QED
    BY <1>8, <1>9, <2>1, BeginFacts
<1>10. CASE SetTenant(h)
  <2>1. rows' = rows
    BY <1>10 DEF SetTenant
  <2> QED
    BY <1>8, <1>10, <2>1, SetTenantFacts DEF SameTx
<1>11. CASE RunInsert(h) /\ ~Rollback(h)
  BY <1>7, <1>11 DEF RunInsert, Executing
<1>12. CASE FindRows(h)
  BY <1>7, <1>12 DEF FindRows, Executing
<1>13. CASE DeleteRows(h)
  BY <1>7, <1>13 DEF DeleteRows, Placed
<1>14. CASE RunSelect(h)
  <2>1. rows' = rows /\ call[h].step = "exec"
    BY <1>14 DEF RunSelect, Executing
  <2>2. /\ call'[h].got \subseteq call[h].got \cup Visible(h)
        /\ call[h].got \subseteq call'[h].got
    BY <1>14, SelectFacts
  <2> QED
    BY <1>8, <1>14, <2>1, <2>2, SelectFacts DEF SameTx
<1>15. CASE Commit(h)
  <2>1. rows' = rows
    BY <1>6, <1>15, CommitFacts DEF Snapshot
  <2>2. /\ call'[h].ins = {} /\ call'[h].del = {}
        /\ call'[h].got = call[h].got /\ call'[h].live = call[h].live
        /\ Found(h, call[h].tx)
        /\ \/ call'[h].tx = call[h].tx + 1 /\ call'[h].step # "apply"
           \/ call'[h].tx = call[h].tx /\ ~(call[h].tx < Len(call[h].req.txs))
    BY <1>15, CommitFacts DEF Active, Idle
  <2>3. \A i : Found(h, i) => Found(h, i)'
    BY <2>2, FoundStays
  <2>4. /\ call[h].tx \in 1 .. Len(call[h].req.txs)
        /\ Len(call[h].req.txs) \in Nat
    BY TxWellFormed DEF Placed, WellFormed
  <2>5. \A i \in 1 .. call'[h].tx - 1 : Found(h, i)
    BY <1>6, <2>2, <2>4
  <2>6. call'[h].step = "apply" =>
           call'[h].tx = Len(call[h].req.txs) /\ Found(h, call'[h].tx)
    BY <2>2, <2>4
  <2> QED
    BY <1>6, <2>1, <2>2, <2>3, <2>5, <2>6 DEF Registered
<1> QED
  BY <1>9, <1>10, <1>11, <1>12, <1>13, <1>14, <1>15

\* What a call has found and is about to write was registered.
LEMMA AppliedIsLive ==
    ASSUME Shape, \A h \in Handlers : Placed(h), \A h \in Handlers : Registered(h)
    PROVE  AppliedWasRegistered
<1> SUFFICES ASSUME NEW h \in Handlers, call[h].step = "apply",
                    NEW w \in call[h].req.apply
             PROVE  w \in call[h].live
  BY DEF AppliedWasRegistered
<1>1. Active(h)
  BY DEF Active
<1>2. /\ call[h].got \subseteq call[h].live
      /\ \A i \in 1 .. call[h].tx - 1 : Found(h, i)
      /\ call[h].tx = Len(call[h].req.txs) /\ Found(h, call[h].tx)
      /\ \A r \in call[h].got : IsRow(r) /\ r.tenant = call[h].req.tenant
  BY <1>1 DEF Registered
<1>3. WellFormed(call[h].req)
  BY <1>1, TxWellFormed
<1>4. IsRow(w) /\ w.tenant = call[h].req.tenant
  BY <1>3 DEF WellFormed
<1>5. PICK i \in 1 .. Len(call[h].req.txs) : w \in call[h].req.want[i]
  BY <1>3 DEF WellFormed
<1>6. Found(h, i)
  <2>1. Len(call[h].req.txs) \in Nat
    BY <1>3 DEF WellFormed
  <2> QED
    BY <1>2, <2>1
<1>7. PICK g \in call[h].got : g.table = w.table /\ g.id = w.id /\ g.val = w.val
  BY <1>5, <1>6 DEF Found
<1>8. g = w
  BY <1>2, <1>4, <1>7 DEF IsRow, Row
<1> QED
  BY <1>2, <1>7, <1>8

---------------------------------------------------------------------------
\* Associations.

\* A transaction that is alone overlaps no other of its tenant.
Alone ==
    \A h, k \in Handlers :
        h # k /\ InTx(h) /\ InTx(k) /\ call[h].alone =>
            call[h].req.tenant # call[k].req.tenant

\* After a transaction's first statement has deleted the associations of a
\* queue, no committed one is left, unless it is not alone.
Replaces(h) ==
    InTx(h) /\ call[h].alone =>
        \A q : Tx(h).stmts[1] = Delete("queue_dispositions", 1, {q}) =>
            LET left == Associations(rows \ call[h].del, call[h].req.tenant, q) IN
            /\ call[h].step = "deleting" /\ call[h].stmt = 1 =>
                  left \subseteq call[h].targets
            /\ call[h].stmt > 1 => left = {}

\* Nobody becomes alone while in a transaction.
LEMMA OthersAlone ==
    ASSUME Shape, \A h \in Handlers : Placed(h), NEW h \in Handlers, Step(h),
           NEW k \in Handlers, k # h, InTx(k), call'[k].alone
    PROVE  call[k].alone
<1>1. CASE OthersKept(h)
  BY <1>1 DEF OthersKept
<1>2. ASSUME NEW r \in Requests[workload], Receive(h, r)
      PROVE  OthersKept(h)
  BY <1>2, ReceiveFacts DEF OthersKept
<1>3. CASE Begin(h)
  BY <1>3, BeginFacts
<1>4. CASE Commit(h)
  BY <1>4, CommitFacts, CallShape
<1>5. SetTenant(h) => OthersKept(h)
  BY SetTenantFacts
<1>6. RunInsert(h) /\ ~Rollback(h) => OthersKept(h)
  BY InsertFacts, InsertedRow
<1>7. FindRows(h) => OthersKept(h)
  BY FindRowsFacts
<1>8. DeleteRows(h) => OthersKept(h)
  BY DeleteRowsFacts
<1>9. RunSelect(h) => OthersKept(h)
  BY SelectFacts
<1>10. Leaves(h) => OthersKept(h)
  BY LeavesFacts
<1>11. Rollback(h) => OthersKept(h)
  BY RollbackFacts
<1> QED
  BY <1>1, <1>2, <1>3, <1>4, <1>5, <1>6, <1>7, <1>8, <1>9, <1>10, <1>11 DEF Step

\* A step that ends inside a transaction either began it or left its call,
\* its number and alone as they were.
LEMMA StaysInTx ==
    ASSUME Shape, \A h \in Handlers : Placed(h), NEW h \in Handlers, Step(h),
           InTx(h)'
    PROVE  /\ call'[h].req = call[h].req /\ call'[h].tx = call[h].tx
           /\ Tx(h)' = Tx(h) /\ Active(h)
           /\ Begin(h) \/ (InTx(h) /\ SameTx(h) /\ rows' = rows)
<1>1. ASSUME NEW r \in Requests[workload], Receive(h, r)
      PROVE  FALSE
  BY <1>1, ReceiveFacts DEF InTx
<1>2. CASE Begin(h)
  BY <1>2, BeginFacts DEF Tx, Active
<1>3. ASSUME InTx(h), SameTx(h), rows' = rows
      PROVE  /\ call'[h].req = call[h].req /\ call'[h].tx = call[h].tx
             /\ Tx(h)' = Tx(h) /\ Active(h)
             /\ Begin(h) \/ (InTx(h) /\ SameTx(h) /\ rows' = rows)
  BY <1>3, CallShape DEF SameTx, Tx
<1>4. CASE SetTenant(h)
  <2>1. InTx(h) /\ rows' = rows
    BY <1>4 DEF SetTenant, InTx
  <2> QED
    BY <1>3, <1>4, <2>1, SetTenantFacts
<1>5. CASE RunInsert(h) /\ ~Rollback(h)
  <2>1. InTx(h) /\ rows' = rows /\ SameTx(h)
    BY <1>5, InsertFacts, InsertedRow DEF Executing, InTx
  <2> QED
    BY <1>3, <2>1
<1>6. CASE FindRows(h)
  <2>1. InTx(h) /\ rows' = rows
    BY <1>6 DEF FindRows, InTx, Executing
  <2> QED
    BY <1>3, <1>6, <2>1, FindRowsFacts
<1>7. CASE DeleteRows(h)
  <2>1. InTx(h) /\ rows' = rows
    BY <1>7 DEF DeleteRows, InTx
  <2> QED
    BY <1>3, <1>7, <2>1, DeleteRowsFacts
<1>8. CASE RunSelect(h)
  <2>1. InTx(h) /\ rows' = rows
    BY <1>8 DEF RunSelect, InTx, Executing
  <2> QED
    BY <1>3, <1>8, <2>1, SelectFacts
<1>9. CASE Commit(h)
  BY <1>9, CommitFacts DEF InTx, Idle
<1>10. CASE Leaves(h)
  BY <1>10, LeavesFacts DEF InTx, Idle
<1>11. CASE InTx(h) /\ Rollback(h)
  <2>1. call'[h].step = "idle"
    BY <1>11, RollbackFacts DEF Idle
  <2> QED
    BY <2>1 DEF InTx
<1> QED
  BY <1>1, <1>2, <1>4, <1>5, <1>6, <1>7, <1>8, <1>9, <1>10, <1>11 DEF Step

\* A transaction that begins beside another of its tenant is not alone, and
\* neither is the other one any more.
LEMMA AloneStep ==
    ASSUME Shape, \A h \in Handlers : Placed(h), Alone,
           NEW h \in Handlers, Step(h), UNCHANGED workload
    PROVE  Alone'
<1>1. OthersSame(h)
  BY OthersSameStep
<1>2. \A k \in Handlers : k # h =>
          /\ InTx(k)' <=> InTx(k)
          /\ InTx(k) => call'[k].req = call[k].req
          /\ InTx(k) /\ call'[k].alone => call[k].alone
  <2> SUFFICES ASSUME NEW k \in Handlers, k # h
               PROVE  /\ InTx(k)' <=> InTx(k)
                      /\ InTx(k) => call'[k].req = call[k].req
                      /\ InTx(k) /\ call'[k].alone => call[k].alone
    OBVIOUS
  <2>1. InTx(k) => Active(k)
    BY CallShape
  <2>2. InTx(k)' <=> InTx(k)
    BY <1>1 DEF OthersSame, InTx
  <2>3. InTx(k) => call'[k].req = call[k].req
    BY <1>1, <2>1 DEF OthersSame
  <2>4. InTx(k) /\ call'[k].alone => call[k].alone
    BY OthersAlone
  <2> QED
    BY <2>2, <2>3, <2>4
<1> SUFFICES ASSUME NEW i \in Handlers, NEW k \in Handlers, i # k,
                    InTx(i)', InTx(k)', call'[i].alone
             PROVE  call'[i].req.tenant # call'[k].req.tenant
  BY DEF Alone
<1>3. CASE i # h /\ k # h
  BY <1>2, <1>3 DEF Alone
<1>4. CASE i = h
  <2>1. call'[h].req = call[h].req /\ (Begin(h) \/ (InTx(h) /\ SameTx(h)))
    BY <1>4, StaysInTx
  <2>2. InTx(k) /\ call'[k].req = call[k].req
    BY <1>2, <1>4
  <2>3. CASE Begin(h)
    BY <1>4, <2>1, <2>2, <2>3, BeginFacts
  <2>4. CASE InTx(h) /\ SameTx(h)
    BY <1>4, <2>2, <2>4 DEF SameTx, Alone
  <2> QED
    BY <2>1, <2>3, <2>4
<1>5. CASE k = h
  <2>1. call'[h].req = call[h].req /\ (Begin(h) \/ (InTx(h) /\ SameTx(h)))
    BY <1>5, StaysInTx
  <2>2. InTx(i) /\ call'[i].req = call[i].req /\ call[i].alone
    BY <1>2, <1>5
  <2>3. CASE Begin(h)
    <3>1. i # h /\ call'[i].alone
      BY <1>5
    <3>2. call[i].req.tenant # call[h].req.tenant
      BY <2>2, <2>3, <3>1, BeginFacts
    <3> QED
      BY <1>5, <2>1, <2>2, <3>2
  <2>4. CASE InTx(h) /\ SameTx(h)
    BY <1>5, <2>1, <2>2, <2>4 DEF Alone
  <2> QED
    BY <2>1, <2>3, <2>4
<1> QED
  BY <1>3, <1>4, <1>5

\* Another tenant's commit does not touch the associations of this one.
LEMMA OtherCommit ==
    ASSUME Shape, \A h \in Handlers : Placed(h), \A h \in Handlers : OwnData(h),
           NEW h \in Handlers, NEW t, NEW q, NEW D,
           Commit(h), call[h].req.tenant # t
    PROVE  Associations(rows' \ D, t, q) \subseteq
               Associations(rows \ D, t, q) \ call[h].del
<1>1. Active(h) /\ rows' = (rows \ call[h].del) \cup call[h].ins
  BY DEF Commit, Active, Snapshot
<1>2. \A r \in call[h].ins : r.tenant # t
  BY <1>1 DEF OwnData
<1> QED
  BY <1>1, <1>2 DEF Associations

\* No committed association of the queue comes back after the DELETE, unless
\* another transaction of the tenant overlaps.
LEMMA ReplacesStep ==
    ASSUME Shape, \A h \in Handlers : Placed(h),
           \A h \in Handlers : SessionSet(h), \A h \in Handlers : OwnData(h),
           Alone, \A h \in Handlers : Replaces(h),
           NEW h \in Handlers, Step(h), UNCHANGED workload
    PROVE  \A k \in Handlers : Replaces(k)'
<1>1. OthersSame(h)
  BY OthersSameStep
<1>2. ASSUME NEW k \in Handlers, k # h
      PROVE  Replaces(k)'
  <2> SUFFICES ASSUME InTx(k)', call'[k].alone, NEW q,
                      Tx(k)'.stmts[1] = Delete("queue_dispositions", 1, {q})
               PROVE  LET left == Associations(rows' \ call'[k].del,
                                               call'[k].req.tenant, q) IN
                      /\ call'[k].step = "deleting" /\ call'[k].stmt = 1 =>
                            left \subseteq call'[k].targets
                      /\ call'[k].stmt > 1 => left = {}
    BY DEF Replaces
  <2>1. InTx(k) /\ Active(k)
    BY <1>1, <1>2, CallShape DEF OthersSame, InTx
  <2>2. /\ call'[k].step = call[k].step /\ call'[k].req = call[k].req
        /\ call'[k].stmt = call[k].stmt /\ call'[k].del = call[k].del
        /\ Tx(k)' = Tx(k)
    BY <1>1, <1>2, <2>1 DEF OthersSame, Tx
  <2>3. call[k].alone
    BY <1>2, <2>1, OthersAlone
  <2> DEFINE left == Associations(rows \ call[k].del, call[k].req.tenant, q)
  <2>4. /\ call[k].step = "deleting" /\ call[k].stmt = 1 =>
               left \subseteq call[k].targets
        /\ call[k].stmt > 1 => left = {}
    BY <2>1, <2>2, <2>3 DEF Replaces
  <2>5. CASE Commit(h)
    <3>1. call[h].req.tenant # call[k].req.tenant
      BY <1>2, <2>1, <2>3, <2>5 DEF Alone, Commit, InTx
    <3>2. Associations(rows' \ call[k].del, call[k].req.tenant, q)
              \subseteq left \ call[h].del
      BY <2>5, <3>1, OtherCommit
    <3>3. call'[k].targets = call[k].targets \ call[h].del
      BY <1>2, <2>1, <2>5, CommitFacts
    <3> HIDE DEF left
    <3> QED
      BY <2>2, <2>4, <3>2, <3>3
  <2>6. CASE ~Commit(h)
    <3>1. rows' = rows
      BY <2>6, RowsStep
    <3>2. call'[k].targets = call[k].targets
      <4>1. CASE OthersKept(h)
        BY <1>2, <4>1 DEF OthersKept
      <4>2. ASSUME NEW r \in Requests[workload], Receive(h, r)
            PROVE  OthersKept(h)
        BY <4>2, ReceiveFacts DEF OthersKept
      <4>3. CASE Begin(h)
        <5>1. \/ call'[k] = call[k]
              \/ call'[k] = [call[k] EXCEPT !.alone = FALSE]
          BY <1>2, <4>3, BeginFacts
        <5>2. call[k] \in CallState
          BY <2>1, CallShape
        <5> QED
          BY <5>1, <5>2 DEF CallState
      <4>4. SetTenant(h) => OthersKept(h)
        BY SetTenantFacts
      <4>5. RunInsert(h) /\ ~Rollback(h) => OthersKept(h)
        BY InsertFacts, InsertedRow
      <4>6. FindRows(h) => OthersKept(h)
        BY FindRowsFacts
      <4>7. DeleteRows(h) => OthersKept(h)
        BY DeleteRowsFacts
      <4>8. RunSelect(h) => OthersKept(h)
        BY SelectFacts
      <4>9. Leaves(h) => OthersKept(h)
        BY LeavesFacts
      <4>10. Rollback(h) => OthersKept(h)
        BY RollbackFacts
      <4> QED
        BY <2>6, <4>1, <4>2, <4>3, <4>4, <4>5, <4>6, <4>7, <4>8, <4>9, <4>10
           DEF Step
    <3> QED
      BY <2>2, <2>4, <3>1, <3>2
  <2> QED
    BY <2>5, <2>6
<1> SUFFICES ASSUME InTx(h)', call'[h].alone, NEW q,
                    Tx(h)'.stmts[1] = Delete("queue_dispositions", 1, {q})
             PROVE  LET left == Associations(rows' \ call'[h].del,
                                             call'[h].req.tenant, q) IN
                    /\ call'[h].step = "deleting" /\ call'[h].stmt = 1 =>
                          left \subseteq call'[h].targets
                    /\ call'[h].stmt > 1 => left = {}
  BY <1>2 DEF Replaces
<1>3. /\ call'[h].req = call[h].req /\ Tx(h)' = Tx(h) /\ Active(h)
      /\ Begin(h) \/ (InTx(h) /\ SameTx(h) /\ rows' = rows)
  BY StaysInTx
<1>4. CASE Begin(h)
  BY <1>4, BeginFacts
<1> SUFFICES ASSUME InTx(h), SameTx(h), rows' = rows, ~Begin(h)
             PROVE  LET left == Associations(rows \ call'[h].del,
                                             call[h].req.tenant, q) IN
                    /\ call'[h].step = "deleting" /\ call'[h].stmt = 1 =>
                          left \subseteq call'[h].targets
                    /\ call'[h].stmt > 1 => left = {}
  BY <1>3, <1>4
<1> DEFINE left == Associations(rows \ call[h].del, call[h].req.tenant, q)
<1>5. /\ call[h].step = "deleting" /\ call[h].stmt = 1 => left \subseteq call[h].targets
      /\ call[h].stmt > 1 => left = {}
      /\ Tx(h).stmts[1] = Delete("queue_dispositions", 1, {q})
  BY <1>3 DEF Replaces, SameTx
<1>6. call[h].stmt = 1 => Statement(h) = Delete("queue_dispositions", 1, {q})
                          /\ Statement(h).do = "delete"
  BY <1>5 DEF Statement, Delete
<1>7. call[h].stmt \in Nat \ {0}
  <2>1. WellFormedTx(call[h].req.tenant, Tx(h))
    BY <1>3, TxWellFormed
  <2> QED
    BY <1>3, <2>1 DEF Placed, WellFormedTx
<1>8. ASSUME call'[h].del = call[h].del, call[h].stmt # 1, call'[h].stmt # 1
      PROVE  LET L == Associations(rows \ call'[h].del, call[h].req.tenant, q) IN
             /\ call'[h].step = "deleting" /\ call'[h].stmt = 1 =>
                   L \subseteq call'[h].targets
             /\ call'[h].stmt > 1 => L = {}
  BY <1>5, <1>7, <1>8
<1>9. CASE SetTenant(h)
  BY <1>9, SetTenantFacts DEF Placed, Active
<1>10. CASE RunInsert(h) /\ ~Rollback(h)
  <2>1. Statement(h).do = "insert" /\ call'[h].del = call[h].del
        /\ call'[h].stmt = call[h].stmt + 1
    BY <1>10, InsertFacts, InsertedRow DEF Executing
  <2>2. call[h].stmt # 1
    BY <1>6, <2>1
  <2>3. call'[h].stmt # 1
    BY <1>7, <2>1
  <2> QED
    BY <1>8, <2>1, <2>2, <2>3
<1>11. CASE FindRows(h)
  <2>1. /\ Executing(h, "delete") /\ call'[h].stmt = call[h].stmt
        /\ call[h].step = "exec" /\ call'[h].del = call[h].del
        /\ call'[h].targets = {r \in Visible(h) : Matches(Statement(h), r)}
    BY <1>11, FindRowsFacts DEF Executing
  <2>2. CASE call[h].stmt # 1
    BY <1>8, <2>1, <2>2
  <2>3. CASE call[h].stmt = 1
    <3>1. call[h].ins = {} /\ call[h].del = {}
      BY <1>3, <2>3 DEF Placed
    <3>2. session[call[h].conn] = call[h].req.tenant \/ ~Tx(h).scoped
      BY <2>1 DEF SessionSet
    <3>3. \A r \in rows : r.tenant = call[h].req.tenant => r \in Visible(h)
      BY <3>1, <3>2 DEF Visible, Snapshot, Allowed
    <3>4. \A r : r.table = "queue_dispositions" /\ r.id[1] = q => Matches(Statement(h), r)
      BY <1>6, <2>3 DEF Matches, Delete
    <3>5. Associations(rows \ call'[h].del, call[h].req.tenant, q) \subseteq call'[h].targets
      BY <2>1, <3>3, <3>4 DEF Associations
    <3> QED
      BY <2>1, <2>3, <3>5
  <2> QED
    BY <2>2, <2>3
<1>12. CASE DeleteRows(h)
  <2>1. /\ call'[h].del = call[h].del \cup (call[h].targets \cap rows)
        /\ call'[h].stmt = call[h].stmt + 1 /\ call[h].step = "deleting"
    BY <1>12, DeleteRowsFacts
  <2>2. left \subseteq call[h].targets
    <3> HIDE DEF left
    <3>1. CASE call[h].stmt = 1
      BY <1>5, <2>1, <3>1
    <3>2. CASE call[h].stmt # 1
      <4>1. call[h].stmt > 1
        BY <1>7, <3>2
      <4> QED
        BY <1>5, <4>1
    <3> QED
      BY <3>1, <3>2
  <2>3. Associations(rows \ call'[h].del, call[h].req.tenant, q) = {}
    BY <2>1, <2>2 DEF Associations
  <2>4. call'[h].stmt # 1
    BY <1>7, <2>1
  <2> QED
    BY <2>3, <2>4
<1>13. CASE RunSelect(h)
  <2>1. /\ Statement(h).do \in {"select", "join"} /\ call'[h].del = call[h].del
        /\ call'[h].stmt = call[h].stmt + 1
    BY <1>13, SelectFacts DEF Executing
  <2>2. call[h].stmt # 1
    BY <1>6, <2>1
  <2>3. call'[h].stmt # 1
    BY <1>7, <2>1
  <2> QED
    BY <1>8, <2>1, <2>2, <2>3
<1>14. CASE Commit(h)
  BY <1>14, CommitFacts DEF InTx, Idle
<1>15. CASE Leaves(h)
  BY <1>15, LeavesFacts DEF InTx, Idle
<1>16. CASE Rollback(h)
  <2>1. call'[h].step = "idle"
    BY <1>16, RollbackFacts DEF Idle
  <2> QED
    BY <2>1 DEF InTx
<1>17. ASSUME NEW r \in Requests[workload], Receive(h, r)
       PROVE  FALSE
  BY <1>17, ReceiveFacts DEF InTx
<1> QED
  BY <1>9, <1>10, <1>11, <1>12, <1>13, <1>14, <1>15, <1>16, <1>17 DEF Step

---------------------------------------------------------------------------
\* The invariant and what follows from it.

DataInv ==
    /\ Shape
    /\ \A h \in Handlers : Placed(h)
    /\ Connections
    /\ \A h \in Handlers : SessionSet(h)
    /\ \A h \in Handlers : OwnData(h)
    /\ Winner
    /\ RowsAreRows
    /\ \A h \in Handlers : Registered(h)
    /\ Alone
    /\ \A h \in Handlers : Replaces(h)

\* Every step leaves the variables in their sets.
LEMMA ShapeStep ==
    ASSUME Shape, \A h \in Handlers : Placed(h), NEW h \in Handlers,
           Work(h) \/ Fail(h) \/ \E r \in Requests[workload] : Receive(h, r),
           UNCHANGED workload
    PROVE  Shape'
<1>1. Step(h)
  BY StepCases
<1>2. MaxCalls[workload] \in Nat /\ MaxFaults[workload] \in Nat
  BY TenantDataConstants DEF Shape
<1>3. call[h].step \in {"set", "exec", "deleting"} =>
          call[h].conn \in Conns /\ call[h].req \in Requests[workload]
  BY DEF Placed, Active, InTx
<1>4. CallsShape(call')
  <2>1. ASSUME NEW r \in Requests[workload], Receive(h, r)
        PROVE  CallsShape(call')
    BY <2>1, ReceiveFacts DEF CallsShape
  <2>2. Begin(h) => CallsShape(call')
    BY BeginFacts DEF CallsShape
  <2>3. SetTenant(h) => CallsShape(call')
    BY SetTenantFacts
  <2>4. RunInsert(h) /\ ~Rollback(h) => CallsShape(call')
    BY InsertFacts, InsertedRow
  <2>5. FindRows(h) => CallsShape(call')
    BY FindRowsFacts
  <2>6. DeleteRows(h) => CallsShape(call')
    BY DeleteRowsFacts
  <2>7. RunSelect(h) => CallsShape(call')
    BY SelectFacts
  <2>8. Commit(h) => CallsShape(call')
    BY CommitFacts
  <2>9. Leaves(h) => CallsShape(call')
    BY LeavesFacts
  <2>10. Rollback(h) => CallsShape(call')
    BY RollbackFacts
  <2> QED
    BY <1>1, <2>1, <2>2, <2>3, <2>4, <2>5, <2>6, <2>7, <2>8, <2>9, <2>10 DEF Step
<1>5. rows' \in SUBSET AllRows
  <2>1. CASE rows' = rows
    BY <2>1 DEF Shape
  <2>2. CASE Commit(h)
    BY <2>2, CommitFacts DEF Snapshot, Shape, CallState
  <2> QED
    BY <1>1, <2>1, <2>2, RowsStep
<1> DEFINE Tenants == {r.tenant : r \in Requests[workload]} \cup {Unset}
<1>6. session' \in [Conns -> Tenants] /\ pool' \in SUBSET Conns
  <2> DEFINE Good == session' \in [Conns -> Tenants] /\ pool' \in SUBSET Conns
  <2>1. UNCHANGED <<session, pool>> => Good
    BY DEF Shape
  <2>2. InTx(h) /\ EndTx(h) => Good
    BY <1>3 DEF EndTx, InTx, Shape
  <2>3. ASSUME NEW r \in Requests[workload], Receive(h, r)
        PROVE  UNCHANGED <<session, pool>>
    BY <2>3 DEF Receive
  <2>4. CASE Begin(h)
    <3>1. session' = session
      BY <2>4 DEF Begin
    <3>2. pool' \in SUBSET Conns
      BY <2>4, BeginFacts DEF Shape
    <3> QED
      BY <3>1, <3>2 DEF Shape
  <2>5. CASE SetTenant(h)
    <3>1. call[h].conn \in Conns /\ call[h].req \in Requests[workload]
      BY <1>3, <2>5 DEF SetTenant
    <3>2. call[h].req.tenant \in Tenants
      BY <3>1
    <3>3. /\ session' = [session EXCEPT ![call[h].conn] = call[h].req.tenant]
          /\ pool' = pool
      BY <2>5 DEF SetTenant
    <3> HIDE DEF Tenants
    <3>4. session \in [Conns -> Tenants]
      BY DEF Shape, Tenants
    <3> QED
      BY <3>1, <3>2, <3>3, <3>4 DEF Shape
  <2> HIDE DEF Good
  <2>6. RunInsert(h) /\ ~Rollback(h) => UNCHANGED <<session, pool>>
    BY DEF RunInsert
  <2>7. FindRows(h) \/ DeleteRows(h) \/ RunSelect(h) => UNCHANGED <<session, pool>>
    BY DEF FindRows, DeleteRows, RunSelect
  <2>8. Leaves(h) => UNCHANGED <<session, pool>>
    BY DEF Leaves
  <2>9. Commit(h) => InTx(h) /\ EndTx(h)
    BY DEF Commit, InTx
  <2>10. Rollback(h) => EndTx(h)
    BY DEF Rollback
  <2>11. Good
    BY <1>1, <2>1, <2>2, <2>3, <2>4, <2>5, <2>6, <2>7, <2>8, <2>9, <2>10
       DEF Step, Good
  <2> QED
    BY <2>11 DEF Good
<1>7. calls' \in 0 .. MaxCalls[workload]
  <2>1. ASSUME NEW r \in Requests[workload], Receive(h, r)
        PROVE  calls < MaxCalls[workload] /\ calls' = calls + 1
    BY <2>1 DEF Receive
  <2>2. Rollback(h) => calls' = calls
    BY DEF Rollback
  <2>3. RunInsert(h) => calls' = calls
    BY <2>2 DEF RunInsert
  <2>4. Begin(h) => calls' = calls
    BY DEF Begin
  <2>5. SetTenant(h) \/ FindRows(h) \/ DeleteRows(h) \/ RunSelect(h) => calls' = calls
    BY DEF SetTenant, FindRows, DeleteRows, RunSelect
  <2>6. Commit(h) => calls' = calls
    BY DEF Commit
  <2>7. Leaves(h) => calls' = calls
    BY DEF Leaves
  <2>8. calls' = calls \/ (calls < MaxCalls[workload] /\ calls' = calls + 1)
    BY <1>1, <2>1, <2>2, <2>3, <2>4, <2>5, <2>6, <2>7 DEF Step
  <2> QED
    BY <1>2, <2>8 DEF Shape
<1>8. faults' \in 0 .. MaxFaults[workload]
  <2>1. ASSUME NEW r \in Requests[workload], Receive(h, r)
        PROVE  faults' = faults
    BY <2>1 DEF Receive
  <2>2. Fail(h) => faults < MaxFaults[workload] /\ faults' = faults + 1
    BY DEF Fail
  <2>3. Begin(h) => faults' = faults
    BY DEF Begin
  <2>4. RunInsert(h) => faults' = faults
    BY DEF RunInsert
  <2>5. SetTenant(h) \/ FindRows(h) \/ DeleteRows(h) \/ RunSelect(h) =>
            faults' = faults
    BY DEF SetTenant, FindRows, DeleteRows, RunSelect
  <2>6. Commit(h) => faults' = faults
    BY DEF Commit
  <2>7. WriteRedis(h) => faults' = faults
    BY DEF WriteRedis
  <2>8. DeadlockDetected(h) => faults' = faults
    BY DEF DeadlockDetected
  <2>9. faults' = faults \/ (faults < MaxFaults[workload] /\ faults' = faults + 1)
    BY <2>1, <2>2, <2>3, <2>4, <2>5, <2>6, <2>7, <2>8 DEF Work
  <2> QED
    BY <1>2, <2>9 DEF Shape
<1>9. workload' = workload /\ workload \in Workloads
  BY DEF Shape
<1> QED
  BY <1>4, <1>5, <1>6, <1>7, <1>8, <1>9 DEF Shape, CallsShape

\* Nothing is going on: the start, and after a crash.
LEMMA NothingGoingOn ==
    ASSUME Shape, \A h \in Handlers : call[h] = Idle, pool = Conns,
           UniqueKeys(rows), RowsAreRows
    PROVE  DataInv
<1>1. \A h \in Handlers : ~Active(h) /\ ~InTx(h) /\ call[h].step = "idle"
  BY DEF Active, InTx, Idle
<1>2. \A h \in Handlers : Placed(h) /\ SessionSet(h) /\ OwnData(h) /\ Registered(h)
                          /\ Replaces(h)
  BY <1>1 DEF Placed, SessionSet, OwnData, Registered, Replaces
<1>3. {call[h].conn : h \in {k \in Handlers : InTx(k)}} = {}
  BY <1>1
<1>4. Connections /\ Winner /\ Alone
  BY <1>1, <1>3 DEF Connections, Winner, Alone
<1> QED
  BY <1>2, <1>4 DEF DataInv

\* At the start nothing is going on and the rows are those from before.
LEMMA InitData ==
    ASSUME Init
    PROVE  DataInv
<1>1. workload \in Workloads
  BY DEF Init
<1>2. MaxCalls[workload] \in Nat /\ MaxFaults[workload] \in Nat
  BY <1>1, TenantDataConstants
<1>3. Shape
  BY <1>1, <1>2 DEF Init, Shape, AllRows
<1>4. RowsAreRows
  BY TenantDataConstants DEF Init, RowsAreRows
<1>5. UniqueKeys(rows)
  <2> SUFFICES ASSUME NEW r1 \in InitialRows, NEW r2 \in InitialRows,
                      Key(r1) = Key(r2)
               PROVE  r1 = r2
    BY DEF UniqueKeys, Init
  <2>1. r1.table = r2.table /\ r1.tenant = r2.tenant /\ r1.id = r2.id
    BY DEF Key
  <2> QED
    BY <2>1, TenantDataConstants
<1>6. pool = Conns /\ \A h \in Handlers : call[h] = Idle
  BY DEF Init
<1> QED
  BY <1>3, <1>4, <1>5, <1>6, NothingGoingOn

\* A crash leaves the committed rows and nothing else.
LEMMA CrashData ==
    ASSUME DataInv, Crash, UNCHANGED workload
    PROVE  DataInv'
<1>1. Shape /\ MaxFaults[workload] \in Nat
  BY TenantDataConstants DEF DataInv, Shape
<1>2. \A h \in Handlers : call'[h] = Idle
  BY DEF Crash
<1>3. Shape'
  <2>1. call' \in [Handlers -> {Idle} \cup CallState]
    BY DEF Crash
  <2>2. session' \in [Conns -> {r.tenant : r \in Requests[workload]} \cup {Unset}]
    BY DEF Crash
  <2>3. /\ rows' = rows /\ calls' = calls /\ pool' = Conns
        /\ faults < MaxFaults[workload] /\ faults' = faults + 1
    BY DEF Crash
  <2> QED
    BY <1>1, <2>1, <2>2, <2>3 DEF Shape
<1>4. \A h \in Handlers : ~Active(h)' /\ ~InTx(h)' /\ call'[h].step = "idle"
  BY <1>2 DEF Active, InTx, Idle
<1>5. \A h \in Handlers : Placed(h)' /\ SessionSet(h)' /\ OwnData(h)'
                          /\ Registered(h)' /\ Replaces(h)'
  BY <1>4 DEF Placed, SessionSet, OwnData, Registered, Replaces
<1>6. Connections'
  <2>1. {call'[h].conn : h \in {k \in Handlers : InTx(k)'}} = {}
    BY <1>4
  <2>2. pool' = Conns
    BY DEF Crash
  <2> QED
    BY <1>4, <2>1, <2>2 DEF Connections
<1>7. rows' = rows
  BY DEF Crash
<1>8. Winner' /\ Alone' /\ RowsAreRows'
  BY <1>4, <1>7 DEF DataInv, Winner, Alone, RowsAreRows, UniqueKeys
<1> QED
  BY <1>3, <1>5, <1>6, <1>8 DEF DataInv

\* A step that changes nothing.
LEMMA SameData ==
    ASSUME DataInv, UNCHANGED vars
    PROVE  DataInv'
<1> USE DEF vars
<1>1. \A h \in Handlers : /\ Active(h)' <=> Active(h)
                          /\ InTx(h)' <=> InTx(h)
                          /\ Tx(h)' = Tx(h) /\ Statement(h)' = Statement(h)
                          /\ \A i : Found(h, i)' <=> Found(h, i)
  BY DEF Active, InTx, Tx, Statement, Found
<1>2. Shape'
  BY DEF DataInv, Shape
<1>3. \A h \in Handlers : Placed(h)' /\ SessionSet(h)'
  BY <1>1 DEF DataInv, Placed, SessionSet
<1>4. \A h \in Handlers : OwnData(h)' /\ Registered(h)'
  BY <1>1 DEF DataInv, OwnData, Inserts, Registered
<1>5. Connections'
  BY <1>1 DEF DataInv, Connections
<1>6. Winner' /\ RowsAreRows' /\ Alone'
  BY <1>1 DEF DataInv, Winner, RowsAreRows, Alone, UniqueKeys, Apart
<1>7. \A h \in Handlers : Replaces(h)'
  BY <1>1 DEF DataInv, Replaces
<1> QED
  BY <1>2, <1>3, <1>4, <1>5, <1>6, <1>7 DEF DataInv

\* The invariant of concurrent calls on Postgres: WithTenant's setting belongs
\* to the transaction that has the connection, so what each open transaction
\* has read and written is its tenant's, and conflicting writes wait.
THEOREM TenantDataSound == Spec => []DataInv
<1>1. Init => DataInv
  BY InitData
<1>2. DataInv /\ [Next]_vars => DataInv'
  <2> SUFFICES ASSUME DataInv, [Next]_vars
               PROVE  DataInv'
    OBVIOUS
  <2>1. CASE UNCHANGED vars
    BY <2>1, SameData
  <2>2. CASE Next
    <3>1. UNCHANGED workload
      BY <2>2 DEF Next
    <3>2. CASE Crash
      BY <3>1, <3>2, CrashData
    <3>3. ASSUME NEW h \in Handlers,
                 Work(h) \/ Fail(h) \/ \E r \in Requests[workload] : Receive(h, r)
          PROVE  DataInv'
      <4>1. Step(h)
        BY <3>3, StepCases
      <4>2. /\ Shape /\ Connections /\ Winner /\ RowsAreRows /\ Alone
            /\ \A k \in Handlers : Placed(k)
            /\ \A k \in Handlers : SessionSet(k)
            /\ \A k \in Handlers : OwnData(k)
            /\ \A k \in Handlers : Registered(k)
            /\ \A k \in Handlers : Replaces(k)
        BY DEF DataInv
      <4>3. Shape'
        BY <3>1, <3>3, <4>2, ShapeStep
      <4>4. \A k \in Handlers : Placed(k)'
        BY <3>1, <4>1, <4>2, PlacedStep
      <4>5. Connections'
        BY <3>1, <4>1, <4>2, ConnectionsStep
      <4>6. \A k \in Handlers : SessionSet(k)'
        BY <3>1, <4>1, <4>2, SessionStep
      <4>7. \A k \in Handlers : OwnData(k)'
        BY <3>1, <4>1, <4>2, OwnDataStep
      <4>8. Winner'
        BY <3>1, <4>1, <4>2, WinnerStep
      <4>9. RowsAreRows'
        BY <4>1, <4>2, RowsAreRowsStep
      <4>10. \A k \in Handlers : Registered(k)'
        BY <3>1, <4>1, <4>2, RegisteredStep
      <4>11. Alone'
        BY <3>1, <4>1, <4>2, AloneStep
      <4>12. \A k \in Handlers : Replaces(k)'
        BY <3>1, <4>1, <4>2, ReplacesStep
      <4> QED
        BY <4>3, <4>4, <4>5, <4>6, <4>7, <4>8, <4>9, <4>10, <4>11, <4>12 DEF DataInv
    <3> QED
      BY <2>2, <3>2, <3>3 DEF Next
  <2> QED
    BY <2>1, <2>2
<1> QED
  BY <1>1, <1>2, PTL DEF Spec

\* Each connection of pgtenant's pool is with one transaction or free, and
\* every call is at a statement of one of its transactions.
THEOREM TenantDataTypeCorrect == Spec => []TypeOK
<1>1. DataInv => TypeOK
  <2> SUFFICES ASSUME DataInv
               PROVE  TypeOK
    OBVIOUS
  <2>1. Shape /\ Connections /\ \A h \in Handlers : Placed(h)
    BY DEF DataInv
  <2>2. ASSUME NEW h \in Handlers, Active(h)
        PROVE  /\ call[h].req \in Requests[workload]
               /\ call[h].step \in {"begin", "set", "exec", "deleting", "apply"}
               /\ call[h].tx \in DOMAIN call[h].req.txs
               /\ InTx(h) => call[h].conn \in Conns
               /\ call[h].stmt \in 1 .. Len(Tx(h).stmts) + 1
    <3>1. WellFormed(call[h].req) /\ call[h] \in CallState
      BY <2>1, <2>2, TxWellFormed
    <3>2. DOMAIN call[h].req.txs = 1 .. Len(call[h].req.txs)
      BY <3>1 DEF WellFormed
    <3> QED
      BY <2>1, <2>2, <3>1, <3>2 DEF Placed, CallState
  <2> QED
    BY <2>1, <2>2 DEF TypeOK, Shape, Connections
<1> QED
  BY <1>1, TenantDataSound, PTL

\* A call sees and writes only its own tenant's rows, whatever the statements
\* leave out: the policies add the tenant that WithTenant has set.
THEOREM OwnRowsAlways == Spec => []OwnRowsOnly
<1>1. DataInv => OwnRowsOnly
  BY DEF DataInv, OwnData, OwnRowsOnly
<1> QED
  BY <1>1, TenantDataSound, PTL

\* Of concurrent registrations of one key, one wins: the primary keys make the
\* second INSERT wait and then fail.
THEOREM OneRegistrationWins == Spec => []OneWinner
<1>1. DataInv => OneWinner
  BY WinnerIsOne DEF DataInv
<1> QED
  BY <1>1, TenantDataSound, PTL

\* What a handler has validated, in however many transactions, and writes to
\* Redis was registered at some time during the call.
THEOREM AppliedRegistered == Spec => []AppliedWasRegistered
<1>1. DataInv => AppliedWasRegistered
  BY AppliedIsLive DEF DataInv
<1> QED
  BY <1>1, TenantDataSound, PTL

\* Rows appear and disappear only when a transaction of their tenant ends.
THEOREM TenantsIsolated == Spec => TenantIsolation
<1>1. DataInv /\ [Next]_vars =>
          [\A r \in (rows' \ rows) \cup (rows \ rows') :
              \E h \in Handlers :
                  /\ InTx(h) /\ ~(InTx(h))'
                  /\ call[h].req.tenant = r.tenant]_rows
  <2> SUFFICES ASSUME DataInv, [Next]_vars, rows' # rows,
                      NEW r \in (rows' \ rows) \cup (rows \ rows')
               PROVE  \E h \in Handlers :
                          /\ InTx(h) /\ ~(InTx(h))'
                          /\ call[h].req.tenant = r.tenant
    OBVIOUS
  <2>1. PICK h \in Handlers :
            Work(h) \/ Fail(h) \/ \E x \in Requests[workload] : Receive(h, x)
    BY DEF Next, vars, Crash
  <2>2. Commit(h)
    BY <2>1, StepCases, RowsStep
  <2>3. Shape /\ OwnData(h)
    BY DEF DataInv
  <2>4. /\ InTx(h) /\ ~InTx(h)' /\ Active(h)
        /\ rows' = (rows \ call[h].del) \cup call[h].ins
    BY <2>2, <2>3, CommitFacts DEF InTx, Active, Idle, Snapshot
  <2>5. call[h].req.tenant = r.tenant
    BY <2>3, <2>4 DEF OwnData
  <2> QED
    BY <2>4, <2>5
<1> QED
  BY <1>1, TenantDataSound, PTL DEF Spec, TenantIsolation

\* AssociateQueueDispositions replaces a queue's whole list, unless another
\* transaction of the tenant overlaps it.
THEOREM AssociationsReplaced == Spec => ReplacedUnlessConcurrent
<1>1. DataInv /\ [Next]_vars =>
          [\A h \in Handlers :
             InTx(h) /\ call[h].alone /\ rows' = Snapshot(h) =>
                \A r \in call[h].ins :
                   r.table = "queue_dispositions" =>
                      Associations(rows', r.tenant, r.id[1]) =
                      Associations(call[h].ins, r.tenant, r.id[1])]_rows
  <2> SUFFICES ASSUME DataInv, NEW h \in Handlers, InTx(h), call[h].alone,
                      rows' = Snapshot(h), NEW r \in call[h].ins,
                      r.table = "queue_dispositions"
               PROVE  Associations(rows', r.tenant, r.id[1]) =
                      Associations(call[h].ins, r.tenant, r.id[1])
    OBVIOUS
  <2>1. Shape /\ Placed(h) /\ OwnData(h) /\ Replaces(h)
    BY DEF DataInv
  <2>2. Active(h)
    BY <2>1, CallShape
  <2>3. /\ r.tenant = call[h].req.tenant /\ call[h].stmt > 1
        /\ Tx(h).stmts[1] = Delete("queue_dispositions", 1, {r.id[1]})
    BY <2>1, <2>2, InsertedBy
  <2>4. Associations(rows \ call[h].del, r.tenant, r.id[1]) = {}
    BY <2>1, <2>3 DEF Replaces
  <2> QED
    BY <2>4 DEF Associations, Snapshot
<1> QED
  BY <1>1, TenantDataSound, PTL DEF Spec, ReplacedUnlessConcurrent
=============================================================================
