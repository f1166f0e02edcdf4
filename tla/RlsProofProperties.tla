-------------------------- MODULE RlsProofProperties --------------------------
(***************************************************************************)
(* What the rls-proof guard promises, stated over the machine of RlsProof. *)
(***************************************************************************)
EXTENDS RlsProof

-----------------------------------------------------------------------------
(* Types.                                                                  *)

Measures == [own: Nat, cross: Nat, write: Nat, inserts: SUBSET Answers,
             orphans: SUBSET Answers, selfIns: Answers, denied: BOOLEAN, failed: BOOLEAN]

Results == [outcome: {"running", "skip", "report", "throw"},
            refused: {"none", "seed", "canary"},
            violations: SUBSET (Tables \X Kinds),
            noted: SUBSET Tables, scanned: SUBSET Tables,
            proven: SUBSET Tables, readOnly: SUBSET Tables]

Places == {"start", "plan", "begin", "seed", "sample", "counts", "role", "canary",
           "table", "probe", "unwind", "close", "done"}
Phases == {"idle", "before", "run", "after", "undo", "caught"}

GuardTypeOK ==
  /\ cfg \in Setup
  /\ pc \in Places
  /\ plan \in Seq(Tables)
  /\ i \in Nat \ {0}
  /\ tenants \in [Tables -> Seq(Tenants)]
  /\ owned \in [Tables -> [1..2 -> Nat]]
  /\ unsampled \in SUBSET Tables
  /\ seedLeft \in Seq(Tenants \X Tables)
  /\ seeded \in [Tables -> SUBSET Row]
  /\ canaryReady \in BOOLEAN
  /\ todo \in Seq(Step)
  /\ probe \in [phase: Phases, count: Nat, answer: Answers]
  /\ m \in Measures
  /\ result \in Results

\* Every variable stays in its type: the guard's own state and the session's.
TypeOK == PgTypeOK /\ GuardTypeOK

-----------------------------------------------------------------------------
(* The database is left as it was found.                                   *)

\* "Non-destructive by construction ... nothing is ever committed": at every
\* moment, and after every way of ending (report, refusal, failed seed, thrown
\* error, lost connection), the database holds exactly what the other sessions
\* put there.
Unharmed == committed = others

\* The rows a probe must find: what the other sessions committed, and the seed.
Baseline(t) == others[t] \cup seeded[t]

\* Each probe sees intact data: outside a probe the open transaction holds the
\* baseline again, and no savepoint is left behind, so that no measurement
\* counts a row an earlier probe moved, deleted or inserted.
NoTrace ==
  status = "open" /\ probe.phase = "idle" =>
    saves = <<>> /\ \A t \in Tables : work[t] = Baseline(t)

-----------------------------------------------------------------------------
(* Who is asking.                                                          *)

\* Every statement that measures a table is executed as the app role and as the
\* tenant the measurement is attributed to: the identity survives the savepoint
\* rollbacks of earlier probes and the swap to the second tenant.
ActsAsClaimed ==
  (pc = "probe" /\ todo # <<>> /\ status = "open" /\ Head(todo).op # "become") =>
    /\ role = "app"
    /\ cfg.identity = "ok" => acting = Head(todo).me

\* "Every isolated result would be a vacuous pass, and the guard fails instead":
\* no table is counted as proven when row level security does not bind the app
\* role, or does not bind it on a table introspection says the role owns.
NoVacuousPass ==
  \A t \in result.proven \cup result.readOnly :
    /\ ~cfg.bypass
    /\ ~OwnerBypass(t)

\* A green report only follows a negative control that was really set up, and a
\* sampling pass without an error: a failure of either aborts the transaction,
\* and the unguarded SET LOCAL ROLE then makes prove() reject.
GreenMeansControlled ==
  Ok => canaryReady /\ unsampled = {}

-----------------------------------------------------------------------------
(* The truth about the database, independently of how the guard looks.     *)

Anyone == Tenants \cup {NoTenant}

May(x, t, cmd, policy, r) ==
  /\ cmd \in shape[t].grants
  /\ Unrestricted(t, cfg.bypass) \/ Passes(policy, x, r)

CanRead(x, t, r) == May(x, t, "select", shape[t].sel, r)
CanDelete(x, t, r) ==
  May(x, t, "delete", shape[t].del, r) /\ ~Pinned(t, "delete", r)
CanUpdate(x, t, r, v) ==
  /\ May(x, t, "update", shape[t].upd, r)
  /\ May(x, t, "update", shape[t].chk, [r EXCEPT !.tenant = v])
  /\ ~Pinned(t, "update", r)
\* The row a plain INSERT for v makes. A trigger that stamps the tenant lets x
\* create rows of x only, and of nobody when the session has no identity.
Fresh(v) == [id |-> 0, tenant |-> v, open |-> FALSE]
Stamp(x) == IF x \in Tenants THEN x ELSE NullTenant
CanInsert(x, t, v) ==
  /\ shape[t].trigger # "swallow"
  /\ shape[t].trigger = "stamp" => v = Stamp(x)
  /\ May(x, t, "insert", shape[t].ins, Fresh(v))
  /\ "insert" \notin shape[t].strict
  /\ v = NullTenant => ~shape[t].notNull

\* x reads a row of another of the tenants ys.
Reads(x, t, ys) == \E r \in Baseline(t) : r.tenant \in ys \ {x} /\ CanRead(x, t, r)

\* x deletes, or takes over, a row that is not its own.
Takes(x, t, ys) ==
  \E r \in Baseline(t) : r.tenant \in ys \ {x} /\ (CanDelete(x, t, r) \/ CanUpdate(x, t, r, x))

\* x moves one of its rows into another tenant, or some row into one.
Hops(x, t, ys) ==
  \E r \in Baseline(t), y \in ys \ {x} : r.tenant # y /\ CanUpdate(x, t, r, y)

\* x creates a row in another tenant; or one of nobody, which it can see.
Plants(x, t, ys) == \E y \in ys \ {x} : CanInsert(x, t, y)
Orphans(x, t) ==
  /\ CanInsert(x, t, NullTenant)
  /\ CanRead(x, t, Fresh(NullTenant))

\* What a leak of each kind is: a thing some session of the app role, with any
\* identity or none, can do to the table.
Owners == Tenants \cup {NullTenant}
ReadLeak(t)   == \E x \in Anyone : Reads(x, t, Owners)
WriteLeak(t)  == \E x \in Anyone : Takes(x, t, Owners) \/ Hops(x, t, Owners)
InsertLeak(t) == \E x \in Anyone : Plants(x, t, Owners)
OrphanLeak(t) == \E x \in Anyone : Orphans(x, t)

Leak(t, kind) ==
  \/ kind = "read" /\ ReadLeak(t)
  \/ kind = "write" /\ WriteLeak(t)
  \/ kind = "insert" /\ InsertLeak(t)
  \/ kind = "orphan" /\ OrphanLeak(t)

\* With a sample of one, "the only tenant in this table" is a guess.
Undersampled(t) == SoleTenant(t) /\ SampleLimit = 1

\* A row that a trigger stamps with the acting tenant, out of that tenant's
\* own sight: the count before and after cannot tell where it landed.
Mislaid(t) ==
  /\ shape[t].trigger = "stamp"
  /\ cfg.identity = "ok" => \E x \in Tenants : ~CanRead(x, t, Fresh(x))

\* "Conservative, never invents a leak": while no other session commits, what is
\* reported as a leak of a table is one, unless a write was measured on a table
\* sampled for one tenant only, or an INSERT on a table that hides from a tenant
\* the rows it stamps for it. Lost connections invent nothing, nor does a wrong
\* identity anything else.
LeaksAreReal ==
  writes = 0 =>
    \A v \in result.violations :
      \/ Leak(v[1], v[2])
      \/ v[2] = "write" /\ Undersampled(v[1])
      \/ v[2] = "insert" /\ Mislaid(v[1])

\* The tenants a table was proven against: its two samples, or its only one
\* and everybody else.
Pair(t) == IF Len(tenants[t]) >= 2 THEN {tenants[t][1], tenants[t][2]} ELSE Tenants

\* Whole-table probes treat all rows of a tenant alike: the write policies look
\* at the tenant only, and rows cannot be changed either all or none.
Plain(t) ==
  /\ {shape[t].upd, shape[t].chk, shape[t].del} \subseteq {"none", "all", "own", "shared"}
  /\ \A cmd \in {"update", "delete"} : \A r, s \in Baseline(t) :
       Pinned(t, cmd, r) => Pinned(t, cmd, s)

\* A one-tenant table whose sample was large enough to know it, and whose probes
\* were all sent.
SeenWhole(t) == SoleTenant(t) => SampleLimit > 1
AskedWhole(t) == SoleTenant(t) => "select" \in shape[t].grants /\ drops = 0

\* "A's session can neither READ nor WRITE tenant B's rows": while no other
\* session commits, and becomeTenant sets the identity the policies read, a table
\* counted as proven, or proven for reads, has no cross-tenant read between the
\* tenants it was proven against. When the write path is probed there is no
\* cross-tenant UPDATE or DELETE either; and where two tenants were compared no
\* tenant hop and, unless a note says that INSERT stayed inconclusive, no insert
\* into the other tenant and no orphan row.
ProvenIsolated ==
  writes = 0 /\ cfg.identity = "ok" =>
    \A t \in result.proven \cup result.readOnly : SeenWhole(t) => \A x \in Pair(t) :
      /\ ~Reads(x, t, Pair(t))
      /\ cfg.probeWrites /\ Plain(t) /\ AskedWhole(t) =>
           /\ ~Takes(x, t, Pair(t))
           /\ Len(tenants[t]) >= 2 => ~Hops(x, t, Pair(t))
      /\ cfg.probeWrites /\ Len(tenants[t]) >= 2 /\ t \notin result.noted =>
           ~Plants(x, t, Pair(t)) /\ ~Orphans(x, t)

\* A skip is never a pass: once prove() reports, each planned table is proven,
\* proven for reads, blamed or noted; never both proven and blamed; and the
\* "not proven" number of the summary is the number of scanned tables that are
\* neither proven nor blamed.
EveryTableAnswered ==
  result.outcome = "report" /\ result.refused = "none" =>
    /\ \A k \in 1..Len(plan) :
         plan[k] \in result.proven \cup result.readOnly \cup Blamed \cup result.noted
    /\ result.proven \cap Blamed = {}
    /\ NotProven = Cardinality(result.scanned \ (result.proven \cup Blamed))

-----------------------------------------------------------------------------
(* Liveness.                                                               *)

\* The guard always ends, with an outcome and with its connection closed,
\* provided every query it awaits settles (WF on its own steps).
Terminates == <>(pc = "done" /\ status = "closed" /\ result.outcome # "running")

-----------------------------------------------------------------------------
(* Statements of the documentation that the code does not keep.            *)

\* "This guard names it and fails your build": a green report means that no
\* planned table lets one sampled tenant read the other's rows.
LeakFailsBuild ==
  Ok => \A k \in 1..Len(plan) :
          LET t == plan[k]
          IN  \A x \in Pair(t) : Len(tenants[t]) >= 2 => ~Reads(x, t, Pair(t))

\* "Conservative, never invents a leak": whatever other sessions commit, however
\* few tenants are sampled and whatever a trigger does.
NeverInvented == \A v \in result.violations : Leak(v[1], v[2])

\* "A's session can neither READ nor WRITE tenant B's rows": of a proven table
\* whose writes were probed, whatever the probes ran into.
ProvenMeansIsolated ==
  cfg.probeWrites => \A t \in result.proven : \A x \in Pair(t) : ~Takes(x, t, Pair(t))

\* "RLS on, zero policies ... reported as `no policy`, never as a pass."
NoPolicyNeverProven == \A t \in result.proven : ~KnownNoPolicy(t)
=============================================================================
