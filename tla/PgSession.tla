------------------------------ MODULE PgSession ------------------------------
(***************************************************************************)
(* One Postgres session as the runtime guards of tenant-guard use it: the  *)
(* transaction block, its savepoints, SET LOCAL ROLE, the tenant identity  *)
(* held in a transaction-scoped setting, row level security per command,   *)
(* table privileges, and the two rules the guards depend on most:          *)
(*   - an error outside a savepoint aborts the whole transaction (25P02),  *)
(*   - a statement sent with no transaction open commits on its own.       *)
(* Postgres is not code of the repository: everything here is external and *)
(* models what src/src/guards/*.mjs sends to it and relies on.             *)
(***************************************************************************)
EXTENDS Integers, Sequences, FiniteSets

CONSTANTS Tables,        \* the tables of the scanned schemas
          Tenants,       \* tenant ids
          NullTenant,    \* the SQL NULL in a tenant column
          NoTenant,      \* the session has assumed no identity
          MaxWrites,     \* BOUND: commits other sessions may make
          MaxDrops       \* BOUND: times the connection may be lost

ASSUME SentinelAssumption ==
  NullTenant \notin Tenants /\ NoTenant \notin Tenants \cup {NullTenant}

ASSUME BoundAssumption == MaxWrites \in Nat /\ MaxDrops \in Nat

VARIABLES shape,      \* [Tables -> Shape]: RLS flags, policies, grants: DDL state
          committed,  \* [Tables -> SUBSET Row]: what the database holds durably
          others,     \* [Tables -> SUBSET Row]: what it would hold had the guard never run
          work,       \* [Tables -> SUBSET Row]: what the guard's session sees
          status,     \* of the guard's connection
          role,       \* "conn" (the privileged connecting role) or "app" (SET LOCAL ROLE)
          acting,     \* the tenant the identity setting names, or NoTenant
          saves,      \* the savepoints of the open transaction, innermost last
          writes,     \* commits of other sessions so far
          drops       \* lost connections so far

session == <<status, role, acting, saves>>
pgVars  == <<shape, committed, others, work, session, writes, drops>>

-----------------------------------------------------------------------------
(* Catalog and data. A policy is one of the predicates that the properties *)
(* tell apart; "none" is the absence of a policy for the command.          *)

Policies == {"none", "all", "own", "shared", "open", "ownOpen"}
Commands == {"select", "insert", "update", "delete"}

Shape == [rls: BOOLEAN, forced: BOOLEAN,
          owned: BOOLEAN,            \* the app role owns the table
          sampled: BOOLEAN,          \* the connecting role can read it
          grants: SUBSET Commands,   \* privileges of the app role
          sel: Policies, ins: Policies, upd: Policies, chk: Policies, del: Policies,
          notNull: BOOLEAN,          \* the tenant column is NOT NULL
          trigger: {"none", "stamp", "swallow"},  \* BEFORE INSERT: sets the tenant, or returns NULL
          strict: SUBSET Commands]   \* commands a constraint or a reference makes fail

\* open stands for the other columns: what policies and references look at.
Row == [id: Int, tenant: Tenants \cup {NullTenant}, open: BOOLEAN]

\* A row that may not be updated or deleted, e.g. one a foreign key refers to.
Pinned(t, cmd, r) == cmd \in shape[t].strict /\ r.open

Passes(policy, who, r) ==
  \/ policy = "all"
  \/ policy = "own" /\ r.tenant = who
  \/ policy = "shared" /\ r.tenant \in {who, NullTenant}
  \/ policy = "open" /\ r.open
  \/ policy = "ownOpen" /\ r.tenant = who /\ r.open

HasPolicy(t) ==
  \E p \in {shape[t].sel, shape[t].ins, shape[t].upd, shape[t].del} : p # "none"

\* Row level security does not apply to: a table without it, its owner unless
\* FORCEd, a superuser or BYPASSRLS role.
Unrestricted(t, bypassrls) ==
  \/ bypassrls
  \/ ~shape[t].rls
  \/ shape[t].owned /\ ~shape[t].forced

Exempt(t, bypassrls) == role = "conn" \/ Unrestricted(t, bypassrls)

-----------------------------------------------------------------------------
(* Statements: what each one fails with ("" when it succeeds), the rows it *)
(* reaches, the rows it leaves.                                            *)

Denied(t, cmd) == role = "app" /\ cmd \notin shape[t].grants

\* An error that does not depend on the statement: no connection, or an
\* aborted transaction block refusing everything until it is rolled back.
SessionError == CASE status \in {"lost", "closed"} -> "lost"
                  [] status = "aborted"            -> "aborted"
                  [] OTHER                         -> ""

Reach(t, cmd, policy, bypassrls) ==
  {r \in work[t] : Exempt(t, bypassrls) \/ Passes(policy, acting, r)}

Visible(t, bypassrls) == Reach(t, "select", shape[t].sel, bypassrls)

SelectError(t) ==
  IF SessionError # "" THEN SessionError
  ELSE IF Denied(t, "select") THEN "denied" ELSE ""

Retenant(rows, v) == {[r EXCEPT !.tenant = v] : r \in rows}

\* UPDATE t SET tenant = v, with no WHERE: the USING clause selects the rows,
\* the WITH CHECK clause must accept every new version or the statement fails.
UpdateError(t, v, bypassrls) ==
  LET hit == Reach(t, "update", shape[t].upd, bypassrls)
  IN  IF SessionError # "" THEN SessionError
      ELSE IF Denied(t, "update") THEN "denied"
      ELSE IF /\ ~Exempt(t, bypassrls)
              /\ \E r \in Retenant(hit, v) : ~Passes(shape[t].chk, acting, r) THEN "check"
      ELSE IF \E r \in hit : Pinned(t, "update", r) THEN "constraint" ELSE ""

AfterUpdate(t, v, bypassrls) ==
  LET hit == Reach(t, "update", shape[t].upd, bypassrls)
  IN  (work[t] \ hit) \cup Retenant(hit, v)

DeleteError(t, bypassrls) ==
  LET hit == Reach(t, "delete", shape[t].del, bypassrls)
  IN  IF SessionError # "" THEN SessionError
      ELSE IF Denied(t, "delete") THEN "denied"
      ELSE IF \E r \in hit : Pinned(t, "delete", r) THEN "constraint" ELSE ""

AfterDelete(t, bypassrls) == work[t] \ Reach(t, "delete", shape[t].del, bypassrls)

\* INSERT INTO t (tenant) VALUES (v): a trigger may stamp the acting tenant,
\* then the WITH CHECK clause, then the constraints. Other columns default.
Landed(t, v, id) ==
  [id |-> id,
   tenant |-> IF shape[t].trigger # "stamp" THEN v
              ELSE IF acting \in Tenants THEN acting ELSE NullTenant,
   open |-> FALSE]

InsertError(t, v, bypassrls) ==
  LET new == Landed(t, v, 0)
  IN  IF SessionError # "" THEN SessionError
      ELSE IF Denied(t, "insert") THEN "denied"
      ELSE IF shape[t].trigger = "swallow" THEN ""
      ELSE IF ~Exempt(t, bypassrls) /\ ~Passes(shape[t].ins, acting, new) THEN "check"
      ELSE IF shape[t].notNull /\ new.tenant = NullTenant THEN "nulltenant"
      ELSE IF "insert" \in shape[t].strict THEN "constraint" ELSE ""

AfterInsert(t, v, id) ==
  IF shape[t].trigger = "swallow" THEN work[t] ELSE work[t] \cup {Landed(t, v, id)}

\* The effect of a statement that succeeds: outside a transaction block it is
\* committed at once.
Apply(t, rows) ==
  /\ work' = [work EXCEPT ![t] = rows]
  /\ committed' = IF status = "idle" THEN [committed EXCEPT ![t] = rows] ELSE committed
  /\ UNCHANGED <<shape, others, session, writes, drops>>

\* The effect of a statement that fails.
Fail ==
  /\ status' = IF status = "open" THEN "aborted" ELSE status
  /\ UNCHANGED <<shape, committed, others, work, role, acting, saves, writes, drops>>

-----------------------------------------------------------------------------
(* Transaction control.                                                    *)

Begin ==
  /\ status' = IF status = "idle" THEN "open" ELSE status
  /\ UNCHANGED <<shape, committed, others, work, role, acting, saves, writes, drops>>

\* ROLLBACK undoes the work, SET LOCAL and set_config(..., true). On a lost
\* connection it only raises, which every caller ignores.
Rollback ==
  /\ IF status \in {"open", "aborted"}
       THEN /\ status' = "idle" /\ role' = "conn" /\ acting' = NoTenant
            /\ saves' = <<>> /\ work' = committed
       ELSE UNCHANGED <<work, session>>
  /\ UNCHANGED <<shape, committed, others, writes, drops>>

SetSavepoint ==
  /\ saves' = Append(saves, [work |-> work, role |-> role, acting |-> acting])
  /\ UNCHANGED <<shape, committed, others, work, status, role, acting, writes, drops>>

\* ROLLBACK TO SAVEPOINT followed by RELEASE: the only statements an aborted
\* transaction accepts, and they also restore the role and the identity.
UndoSavepoint ==
  /\ IF status \in {"open", "aborted"} /\ saves # <<>>
       THEN LET sp == saves[Len(saves)]
            IN  /\ work' = sp.work /\ role' = sp.role /\ acting' = sp.acting
                /\ status' = "open" /\ saves' = SubSeq(saves, 1, Len(saves) - 1)
       ELSE UNCHANGED <<work, session>>
  /\ UNCHANGED <<shape, committed, others, writes, drops>>

\* client.end(): the server discards whatever transaction is still open.
EndSession ==
  /\ status' = "closed" /\ role' = "conn" /\ acting' = NoTenant
  /\ saves' = <<>> /\ work' = committed
  /\ UNCHANGED <<shape, committed, others, writes, drops>>

-----------------------------------------------------------------------------
(* The rest of the world: other sessions commit rows (READ COMMITTED, so   *)
(* the guard's next statement sees them), and the connection may drop.     *)

Patched(d, t, gone, new) == [d EXCEPT ![t] = (@ \ gone) \cup new]

\* A commit of another session: it shows through every snapshot the guard holds.
CommitElsewhere(t, gone, new) ==
  /\ writes < MaxWrites
  /\ writes' = writes + 1
  /\ committed' = Patched(committed, t, gone, new)
  /\ others' = Patched(others, t, gone, new)
  /\ work' = Patched(work, t, gone, new)
  /\ saves' = [i \in 1..Len(saves) |->
                [saves[i] EXCEPT !.work = Patched(@, t, gone, new)]]
  /\ UNCHANGED <<shape, status, role, acting, drops>>

OtherInsert(t, x) ==
  CommitElsewhere(t, {}, {[id |-> 10 + writes, tenant |-> x, open |-> TRUE]})

\* A row the guard's open probe has changed is locked until it is undone.
OtherDelete(t, r) == r \in work[t] /\ CommitElsewhere(t, {r}, {})

OtherSessions ==
  \E t \in Tables :
    \/ \E x \in Tenants : OtherInsert(t, x)
    \/ \E r \in committed[t] : OtherDelete(t, r)

Drop ==
  /\ drops < MaxDrops
  /\ status \in {"idle", "open", "aborted"}
  /\ drops' = drops + 1
  /\ status' = "lost" /\ role' = "conn" /\ acting' = NoTenant
  /\ saves' = <<>> /\ work' = committed
  /\ UNCHANGED <<shape, committed, others, writes>>

-----------------------------------------------------------------------------
Snapshot == [work: [Tables -> SUBSET Row], role: {"conn", "app"},
             acting: Tenants \cup {NoTenant}]

PgTypeOK ==
  /\ shape \in [Tables -> Shape]
  /\ committed \in [Tables -> SUBSET Row]
  /\ others \in [Tables -> SUBSET Row]
  /\ work \in [Tables -> SUBSET Row]
  /\ status \in {"closed", "idle", "open", "aborted", "lost"}
  /\ role \in {"conn", "app"}
  /\ acting \in Tenants \cup {NoTenant}
  /\ saves \in Seq(Snapshot)
  /\ writes \in 0..MaxWrites
  /\ drops \in 0..MaxDrops
=============================================================================
