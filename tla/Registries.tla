----------------------------- MODULE Registries -----------------------------
(***************************************************************************)
(* What tenant identity and the task router ask of Postgres: each function *)
(* of pgstore and pgconfig as the transaction it runs, each RPC as the     *)
(* transactions it needs one after the other.  TenantData executes them.   *)
(*                                                                         *)
(* Most statements do not name the tenant.  Row-level security adds it,    *)
(* from the setting that WithTenant makes.                                 *)
(***************************************************************************)
EXTENDS Naturals, Sequences

\* A row: its tenant, the rest of its primary key, and what else a caller
\* looks at, which is the type of an attribute.
Row(table, t, id, val) == [table |-> table, tenant |-> t, id |-> id, val |-> val]
Plain(table, t, id) == Row(table, t, id, "none")

\* Statements.  A WHERE clause constrains one column of the key; column 0
\* stands for no clause.
Select(table, col, values) ==
    [do |-> "select", table |-> table, col |-> col, values |-> values]
Delete(table, col, values) ==
    [do |-> "delete", table |-> table, col |-> col, values |-> values]
Join(q) == [do |-> "join", queue |-> q]
Insert(row) == [do |-> "insert", row |-> row, onConflict |-> "fail"]
InsertIfAbsent(row) == [do |-> "insert", row |-> row, onConflict |-> "skip"]

\* Variants named Bug... are faults the properties must detect.  The WHERE
\* clause names the last column of the key.
BugMatches(s, r) ==
    r.table = s.table /\ (s.col = 0 \/ r.id[Len(r.id)] \in s.values)

Matches(s, r) == r.table = s.table /\ (s.col = 0 \/ r.id[s.col] \in s.values)

\* A transaction through WithTenant, and a statement on the raw pool.
Scoped(stmts) == [scoped |-> TRUE, stmts |-> stmts]
Raw(stmt) == [scoped |-> FALSE, stmts |-> <<stmt>>]

---------------------------------------------------------------------------
(***************************************************************************)
(* pgconfig.                                                               *)
(***************************************************************************)
RegisterQueue(t, q) == Scoped(<<Insert(Plain("queues", t, <<q>>))>>)
ListQueues == Scoped(<<Select("queues", 0, {})>>)
GetQueue(q) == Scoped(<<Select("queues", 1, {q})>>)
QueueExists(q) == Scoped(<<Select("queues", 1, {q})>>)
QueuesExist(Q) == Scoped(<<Select("queues", 1, Q)>>)
RemoveQueue(q) == Scoped(<<Delete("queues", 1, {q})>>)

DefaultStatuses == <<"Available", "Break", "Offline", "Not Responding", "WrapUp">>
EnsureDefaultStatuses(t) ==
    Scoped([i \in DOMAIN DefaultStatuses |->
              InsertIfAbsent(Plain("statuses", t, <<DefaultStatuses[i]>>))])
RegisterStatus(t, s) == Scoped(<<Insert(Plain("statuses", t, <<s>>))>>)
ListStatuses == Scoped(<<Select("statuses", 0, {})>>)
StatusExists(s) == Scoped(<<Select("statuses", 1, {s})>>)
RemoveStatus(s) == Scoped(<<Delete("statuses", 1, {s})>>)

RegisterAttribute(t, a, type) ==
    Scoped(<<Insert(Row("attributes", t, <<a>>, type))>>)
ListAttributes == Scoped(<<Select("attributes", 0, {})>>)
GetAttribute(a) == Scoped(<<Select("attributes", 1, {a})>>)
RemoveAttribute(a) == Scoped(<<Delete("attributes", 1, {a})>>)
AttributeTypes(names) == Scoped(<<Select("attributes", 1, names)>>)

RegisterDisposition(t, d) == Scoped(<<Insert(Plain("dispositions", t, <<d>>))>>)
ListDispositions == Scoped(<<Select("dispositions", 0, {})>>)
GetDisposition(d) == Scoped(<<Select("dispositions", 1, {d})>>)
RemoveDisposition(d) ==
    Scoped(<<Delete("queue_dispositions", 2, {d}), Delete("dispositions", 1, {d})>>)
DispositionsExist(D) == Scoped(<<Select("dispositions", 1, D)>>)
AssociateQueueDispositions(t, q, ds) ==
    Scoped(<<Delete("queue_dispositions", 1, {q})>> \o
           [i \in DOMAIN ds |-> Insert(Plain("queue_dispositions", t, <<q, ds[i]>>))])
ListQueueDispositions(q) == Scoped(<<Join(q)>>)

(***************************************************************************)
(* Tenant identity's pgstore.  Nothing removes a tenant or a user.         *)
(***************************************************************************)
CreateTenant(t) == Raw(Insert(Plain("tenants", t, <<t>>)))
GetTenant(t) == Raw(Select("tenants", 1, {t}))
ListTenants == Raw(Select("tenants", 0, {}))
TenantExists(t) == Raw(Select("tenants", 1, {t}))
CreateUser(t, u) == Scoped(<<Insert(Plain("users", t, <<u>>))>>)
GetUser(u) == Scoped(<<Select("users", 1, {u})>>)
GetUserByUsername(u) == Scoped(<<Select("users", 1, {u})>>)
ListUsers == Scoped(<<Select("users", 0, {})>>)

---------------------------------------------------------------------------
(***************************************************************************)
(* The RPCs.  A call runs its transactions one after the other and goes on *)
(* after transaction i only if that found the rows want[i]; it ends by     *)
(* writing references to Redis: to the rows apply, which it has validated, *)
(* and to the rows unchecked, which it has not looked for.                 *)
(***************************************************************************)
Call(t, txs, want, apply, unchecked) ==
    [tenant |-> t, txs |-> txs, want |-> want, apply |-> apply,
     unchecked |-> unchecked]
Simple(t, tx) == Call(t, <<tx>>, <<{}>>, {}, {})
Validated(t, tx, rows) == Call(t, <<tx>>, <<rows>>, rows, {})

QueueAdmin(t, q) ==
    {Simple(t, RegisterQueue(t, q)), Simple(t, ListQueues),
     Simple(t, GetQueue(q)), Simple(t, RemoveQueue(q))}
StatusAdmin(t, s) ==
    {Simple(t, RegisterStatus(t, s)), Simple(t, ListStatuses),
     Simple(t, RemoveStatus(s))}
AttributeAdmin(t, a, type) ==
    {Simple(t, RegisterAttribute(t, a, type)), Simple(t, ListAttributes),
     Simple(t, GetAttribute(a)), Simple(t, RemoveAttribute(a))}
DispositionAdmin(t, d) ==
    {Simple(t, RegisterDisposition(t, d)), Simple(t, ListDispositions),
     Simple(t, RemoveDisposition(d))}

\* The handler checks every disposition first, in a transaction of its own;
\* an empty list is not checked.
AssociateQueueDispositionsCall(t, q, ds) ==
    LET D == {ds[i] : i \in DOMAIN ds} IN
    IF ds = <<>>
    THEN Simple(t, AssociateQueueDispositions(t, q, ds))
    ELSE Call(t, <<DispositionsExist(D), AssociateQueueDispositions(t, q, ds)>>,
              <<{Plain("dispositions", t, <<d>>) : d \in D}, {}>>, {}, {})
ListQueueDispositionsCall(t, q) == Simple(t, ListQueueDispositions(q))

\* ValidateAttributes: every name registered with the value's own type.
\* attrs is a function from names to types.  The empty one is always valid;
\* the code then runs no transaction, here it runs one that reads nothing,
\* as for an empty list of queues.
ValidateAttributes(t, attrs) ==
    [tx |-> AttributeTypes(DOMAIN attrs),
     want |-> {Row("attributes", t, <<a>>, attrs[a]) : a \in DOMAIN attrs}]
ReplaceAgentAttributesCall(t, attrs) ==
    LET v == ValidateAttributes(t, attrs) IN Validated(t, v.tx, v.want)
SetAgentStatusCall(t, s) ==
    Validated(t, StatusExists(s), {Plain("statuses", t, <<s>>)})
ReplaceAgentQueuesCall(t, Q) ==
    Validated(t, QueuesExist(Q), {Plain("queues", t, <<q>>) : q \in Q})
\* The queue and the attributes are looked up in a transaction each.
EnqueueTaskCall(t, q, attrs) ==
    LET v == ValidateAttributes(t, attrs)
        queue == {Plain("queues", t, <<q>>)}
    IN  Call(t, <<QueueExists(q), v.tx>>, <<queue, v.want>>, queue \cup v.want, {})
\* Of a new agent only the attributes are validated.
CreateAgentCall(t, Q, s, attrs) ==
    LET v == ValidateAttributes(t, attrs)
    IN  Call(t, <<v.tx>>, <<v.want>>, v.want,
             {Plain("queues", t, <<q>>) : q \in Q} \cup
             {Plain("statuses", t, <<s>>)})
SetTaskDispositionCall(t, d) ==
    Validated(t, GetDisposition(d), {Plain("dispositions", t, <<d>>)})

TenantCalls(t) ==
    {Simple(t, CreateTenant(t)), Simple(t, GetTenant(t)), Simple(t, ListTenants)}

CreateUserCall(t, u) ==
    Call(t, <<TenantExists(t), CreateUser(t, u)>>,
         <<{Plain("tenants", t, <<t>>)}, {}>>, {}, {})
\* Login needs the user for its password and answers with a token.
LoginCall(t, u) ==
    Call(t, <<GetUserByUsername(u)>>, <<{Plain("users", t, <<u>>)}>>, {}, {})
UserCalls(t, u) == {Simple(t, GetUser(u)), Simple(t, ListUsers)}

\* main's seeding of the bootstrap tenant.
BootstrapCall(t) == Simple(t, EnsureDefaultStatuses(t))

---------------------------------------------------------------------------
(***************************************************************************)
(* What all the calls above have in common.  A statement on the raw pool   *)
(* reads the registry of tenants or adds the call's own tenant to it.      *)
(* A call that applies rows only reads, and applies what it asked for.     *)
(*  Associations are added only after those of the queue *)
(* have been deleted in the same transaction.                              *)
(***************************************************************************)
IsRow(r) == r = Row(r.table, r.tenant, r.id, r.val)

\* Statement j of transaction tx of a call for tenant t.
WellFormedStatement(t, tx, j) ==
    LET s == tx.stmts[j] IN
    /\ s.do \in {"select", "join", "delete", "insert"}
    /\ ~tx.scoped => /\ s.do \in {"select", "insert"}
                     /\ s.do = "select" => s.table = "tenants"
                     /\ s.do = "insert" => s.row.table = "tenants" /\ s.row.tenant = t
    /\ s.do = "insert" =>
          /\ IsRow(s.row) /\ s.onConflict \in {"fail", "skip"}
          /\ s.row.table = "queue_dispositions" =>
                j > 1 /\ tx.stmts[1] = Delete("queue_dispositions", 1, {s.row.id[1]})

WellFormedTx(t, tx) ==
    /\ Len(tx.stmts) \in Nat /\ DOMAIN tx.stmts = 1 .. Len(tx.stmts)
    /\ \A j \in 1 .. Len(tx.stmts) : WellFormedStatement(t, tx, j)

OnlyReads(tx) ==
    /\ tx.scoped
    /\ \A j \in DOMAIN tx.stmts : tx.stmts[j].do \in {"select", "join"}

WellFormed(c) ==
    /\ Len(c.txs) \in Nat \ {0} /\ DOMAIN c.txs = 1 .. Len(c.txs)
    /\ DOMAIN c.want = DOMAIN c.txs
    /\ \A i \in 1 .. Len(c.txs) : WellFormedTx(c.tenant, c.txs[i])
    /\ c.apply # {} =>
          /\ \A i \in 1 .. Len(c.txs) : OnlyReads(c.txs[i])
          /\ \A w \in c.apply :
                /\ IsRow(w) /\ w.tenant = c.tenant
                /\ \E i \in 1 .. Len(c.txs) : w \in c.want[i]
=============================================================================
