------------------------------- MODULE RlsProof -------------------------------
(***************************************************************************)
(* The rls-proof guard (src/src/guards/rls-proof.mjs): prove() and run().  *)
(* One connection, one transaction that is always rolled back. A           *)
(* privileged pass samples two tenants per table, a negative control checks*)
(* that row level security binds the app role, and then every planned table*)
(* is probed statement by statement while impersonating a tenant.          *)
(* One action is one awaited query (or one step of the code between two),  *)
(* so other sessions and a lost connection interleave with all of them.    *)
(***************************************************************************)
EXTENDS PgSession, SequencesExt

CONSTANTS CatalogOrder,  \* tables with a tenant column, in catalog order
          Setups,        \* configurations and environments to start from
          Databases,     \* initial [shape, rows] of the database
          SeedPair,      \* the two synthetic tenants of seeding mode
          SampleLimit    \* sampleLimit: distinct tenants sampled per table

ASSUME SetupAssumption ==
  /\ CatalogOrder \in Seq(Tables)
  /\ SeedPair \in [1..2 -> Tenants] /\ SeedPair[1] # SeedPair[2]
  /\ SampleLimit \in Nat \ {0}

\* A table occurs once: planTables keys a Map by schema.table (line 161), and
\* cfg.tables is taken to name each table once.
ASSUME OrderAssumption ==
  \A j, k \in 1..Len(CatalogOrder) : CatalogOrder[j] = CatalogOrder[k] => j = k

\* cfg of prove() with the facts of the environment that decide its branches.
Setup == [url: BOOLEAN, driver: BOOLEAN,       \* a database URL; the pg package
          explicit: BOOLEAN,                   \* cfg.tables given: no introspection
          grandfather: SUBSET Tables,
          seed: {"off", "empty", "on"}, seedSetup: Seq(Tables),
          probeWrites: BOOLEAN,
          temp: BOOLEAN,                       \* the connecting role may create temp tables
          member: BOOLEAN,                     \* it may SET ROLE to the app role
          bypass: BOOLEAN,                     \* the app role is superuser or BYPASSRLS
          identity: {"ok", "mismatch", "error"}]  \* what becomeTenant achieves

Database == [shape: [Tables -> Shape], rows: [Tables -> SUBSET Row]]

ASSUME InputAssumption ==
  /\ \A c \in Setups : c \in Setup
  /\ \A d \in Databases :
       /\ d.shape \in [Tables -> Shape] /\ d.rows \in [Tables -> SUBSET Row]
       /\ \A t \in Tables : IsFiniteSet(d.rows[t]) /\ \A r \in d.rows[t] : r.id > 0

VARIABLES cfg,         \* configuration and environment, fixed by Init
          pc,          \* where prove() is
          plan,        \* Seq(Tables)
          i,           \* index of the table in hand, in Pass 1 and in the probe loop
          tenants,     \* t.tenants
          owned,       \* [Tables -> <<t.ownA, t.ownB>>]
          unsampled,   \* tables with t.introspectError
          seedLeft,    \* seed statements still to send, as <<tenant, table>>
          seeded,      \* rows the seed created (history)
          canaryReady,
          todo,        \* statements left for the table in hand
          probe,       \* the probe under way: phase, rows counted before or affected, answer
          m,           \* what was measured on the table in hand
          result       \* what prove() has accumulated

guardVars == <<cfg, pc, plan, i, tenants, owned, unsampled, seedLeft, seeded,
               canaryReady, todo, probe, m, result>>
vars == <<pgVars, guardVars>>

Ops == {"become", "own", "cross", "claim", "wipe", "move", "insert", "omit", "self"}
InsertOps == {"insert", "omit", "self"}
ProbeOps  == {"claim", "wipe", "move"} \cup InsertOps
Kinds     == {"read", "write", "insert", "orphan"}
Answers   == {"none", "leak", "blocked", "inconclusive", "visible", "invisible", "rejected"}
Step      == [op: Ops, me: Tenants, other: Tenants, base: Nat]

NoProbe == [phase |-> "idle", count |-> 0, answer |-> "none"]

\* lines 916-923 (839-841 in the foreign-tenant branch)
NoMeasure == [own |-> 0, cross |-> 0, write |-> 0, inserts |-> {}, orphans |-> {},
              selfIns |-> "none", denied |-> FALSE, failed |-> FALSE]

NoResult == [outcome |-> "running", refused |-> "none", violations |-> {},
             noted |-> {}, scanned |-> {}, proven |-> {}, readOnly |-> {}]

Init ==
  /\ cfg \in Setups
  /\ \E d \in Databases : shape = d.shape /\ committed = d.rows
  /\ others = committed /\ work = committed
  /\ status = "closed" /\ role = "conn" /\ acting = NoTenant /\ saves = <<>>
  /\ writes = 0 /\ drops = 0
  /\ pc = "start" /\ plan = <<>> /\ i = 1
  /\ tenants = [t \in Tables |-> <<>>]
  /\ owned = [t \in Tables |-> <<0, 0>>]
  /\ unsampled = {} /\ seedLeft = <<>> /\ seeded = [t \in Tables |-> {}]
  /\ canaryReady = FALSE /\ todo = <<>> /\ probe = NoProbe /\ m = NoMeasure
  /\ result = NoResult

-----------------------------------------------------------------------------
(* run(): lines 1082-1113.                                                 *)

Goto(label) == pc' = label
Report(r) == result' = [r EXCEPT !.outcome = "report"]
Skip == result' = [result EXCEPT !.outcome = "skip"]
Throws == result' = [result EXCEPT !.outcome = "throw"]

StartOther == UNCHANGED <<cfg, plan, i, tenants, owned, unsampled, seedLeft, seeded,
                          canaryReady, todo, probe, m>>

\* No URL, or no pg package: the guard skips without touching the network.
SkipRun ==
  /\ pc = "start" /\ ~(cfg.url /\ cfg.driver)
  /\ Skip /\ Goto("done") /\ StartOther /\ UNCHANGED pgVars

Connect ==
  /\ pc = "start" /\ cfg.url /\ cfg.driver
  /\ Goto("plan") /\ StartOther
  /\ status' = "idle"
  /\ UNCHANGED <<shape, committed, others, work, role, acting, saves, writes, drops, result>>

\* client.connect() stands before the try: run() rejects with nothing to close.
ConnectFails ==
  /\ pc = "start" /\ cfg.url /\ cfg.driver
  /\ drops < MaxDrops /\ drops' = drops + 1
  /\ Throws /\ Goto("done") /\ StartOther
  /\ UNCHANGED <<shape, committed, others, work, session, writes>>

\* finally { await client.end() }
Close ==
  /\ pc = "close"
  /\ EndSession /\ Goto("done") /\ StartOther /\ UNCHANGED result

-----------------------------------------------------------------------------
(* The plan and the seed: lines 534-598.                                   *)

\* planTables and the filter over cfg.tables: grandfathered tables are dropped,
\* the others keep the order of the catalog (or of cfg.tables).
Planned == ToSet(CatalogOrder) \ cfg.grandfather
Before(t, u) ==
  \E j, k \in 1..Len(CatalogOrder) : j < k /\ CatalogOrder[j] = t /\ CatalogOrder[k] = u
PlanTables ==
  {p \in [1..Cardinality(Planned) -> Planned] :
     \A j, k \in 1..Cardinality(Planned) : j < k => Before(p[j], p[k])}

SeedStatements ==
  [k \in 1..(2 * Len(cfg.seedSetup)) |->
     LET n == Len(cfg.seedSetup)
     IN  IF k <= n THEN <<SeedPair[1], cfg.seedSetup[k]>>
         ELSE <<SeedPair[2], cfg.seedSetup[k - n]>>]

\* Introspection fails only with the connection; prove() then rejects.
MakePlan ==
  /\ pc = "plan"
  /\ UNCHANGED <<cfg, i, tenants, owned, unsampled, seeded, canaryReady, todo, probe, m>>
  /\ \/ /\ SessionError # "" /\ ~cfg.explicit
        /\ Throws /\ Goto("close") /\ UNCHANGED <<plan, seedLeft, pgVars>>
     \/ /\ SessionError = "" \/ cfg.explicit
        /\ plan' \in PlanTables
        /\ UNCHANGED pgVars
        /\ IF Planned = {} \/ cfg.seed = "empty"
             THEN Skip /\ Goto("close") /\ UNCHANGED seedLeft
             ELSE /\ UNCHANGED result /\ Goto("begin")
                  /\ seedLeft' = IF cfg.seed = "on" THEN SeedStatements ELSE <<>>

\* MUTANT of BeginProof: the transaction is never opened.
BeginForgotten ==
  /\ pc = "begin" /\ Goto("seed")
  /\ StartOther /\ UNCHANGED <<pgVars, result>>

\* begin is sent before the try: if it fails, prove() rejects with no rollback.
BeginProof ==
  /\ pc = "begin"
  /\ Begin
  /\ IF SessionError # "" THEN Throws /\ Goto("close")
     ELSE UNCHANGED result /\ Goto("seed")
  /\ StartOther

SeedRow(s) == [id |-> IF s[1] = SeedPair[1] THEN -1 ELSE -2, tenant |-> s[1], open |-> FALSE]

\* One statement of seed.setup, privileged, as <<tenant, table>>.
SeedOne ==
  /\ pc = "seed" /\ seedLeft # <<>>
  /\ LET s == Head(seedLeft)
         t == s[2]
     IN  /\ SessionError = "" /\ "insert" \notin shape[t].strict
         /\ Apply(t, work[t] \cup {SeedRow(s)})
         /\ seeded' = [seeded EXCEPT ![t] = @ \cup {SeedRow(s)}]
  /\ seedLeft' = Tail(seedLeft)
  /\ UNCHANGED <<cfg, pc, plan, i, tenants, owned, unsampled, canaryReady, todo, probe, m, result>>

\* A seed statement failed: roll back and return the "(seed)" violation.
SeedFails ==
  /\ pc = "seed" /\ seedLeft # <<>>
  /\ SessionError # "" \/ "insert" \in shape[Head(seedLeft)[2]].strict
  /\ Rollback
  /\ Report([result EXCEPT !.refused = "seed"])
  /\ Goto("unwind") /\ seeded' = [t \in Tables |-> {}]
  /\ UNCHANGED <<cfg, plan, i, tenants, owned, unsampled, seedLeft, canaryReady, todo, probe, m>>

-----------------------------------------------------------------------------
(* Pass 1, privileged: lines 602-620.                                      *)

Present(t) == {r.tenant : r \in work[t]} \ {NullTenant}

\* select distinct ... limit n: any n of the tenants present, in any order.
Samples(t) ==
  LET n == IF Cardinality(Present(t)) < SampleLimit THEN Cardinality(Present(t)) ELSE SampleLimit
  IN  {s \in [1..n -> Present(t)] : \A a, b \in 1..n : s[a] = s[b] => a = b}

StartSampling ==
  /\ pc = "seed" /\ seedLeft = <<>>
  /\ Goto("sample") /\ i' = 1
  /\ UNCHANGED <<pgVars, cfg, plan, tenants, owned, unsampled, seedLeft, seeded,
                 canaryReady, todo, probe, m, result>>

NextSampled == i' = i + 1 /\ Goto("sample")

\* The catch of the loop body: no savepoint, so the transaction is aborted.
SamplingFails(t) ==
  /\ Fail /\ NextSampled
  /\ unsampled' = unsampled \cup {t}
  /\ tenants' = [tenants EXCEPT ![t] = <<>>]
  /\ UNCHANGED owned

SamplingOther == UNCHANGED <<cfg, plan, seedLeft, seeded, canaryReady, todo, probe, m, result>>

SampleTenants ==
  /\ pc = "sample" /\ i <= Len(plan)
  /\ SamplingOther
  /\ LET t == plan[i]
     IN  \/ /\ cfg.seed = "on"
            /\ tenants' = [tenants EXCEPT ![t] = SeedPair]
            /\ Goto("counts") /\ UNCHANGED <<i, unsampled, owned, pgVars>>
         \/ /\ cfg.seed = "off" /\ SessionError = "" /\ shape[t].sampled
            /\ \E s \in Samples(t) :
                 /\ tenants' = [tenants EXCEPT ![t] = s]
                 /\ IF Len(s) >= 2 THEN Goto("counts") /\ UNCHANGED i ELSE NextSampled
            /\ UNCHANGED <<unsampled, owned, pgVars>>
         \/ /\ cfg.seed = "off" /\ (SessionError # "" \/ ~shape[t].sampled)
            /\ SamplingFails(t)

CountOf(t, x) == Cardinality({r \in work[t] : r.tenant = x})

\* tenantCountsSql: the rows each of the two tenants owns, counted now.
SampleCounts ==
  /\ pc = "counts"
  /\ SamplingOther
  /\ LET t == plan[i]
     IN  IF SessionError # "" \/ ~shape[t].sampled THEN SamplingFails(t)
         ELSE /\ owned' = [owned EXCEPT ![t] = <<CountOf(t, tenants[t][1]), CountOf(t, tenants[t][2])>>]
              /\ NextSampled /\ UNCHANGED <<tenants, unsampled, pgVars>>

-----------------------------------------------------------------------------
(* The negative control and the switch of identity: lines 629-664.         *)

\* The canary: a deny-all table granted to the app role. A failure is noted,
\* but it has aborted the transaction.
SetUpCanary ==
  /\ pc = "sample" /\ i > Len(plan)
  /\ IF SessionError = "" /\ cfg.temp
       THEN canaryReady' = TRUE /\ UNCHANGED pgVars
       ELSE canaryReady' = FALSE /\ Fail
  /\ Goto("role")
  /\ UNCHANGED <<cfg, plan, i, tenants, owned, unsampled, seedLeft, seeded, todo, probe, m, result>>

\* MUTANT of SetRole: the switch of role is inside a try that swallows its error.
SetRoleSwallowed ==
  /\ pc = "role"
  /\ IF SessionError = "" /\ cfg.member
       THEN /\ role' = "app"
            /\ UNCHANGED <<shape, committed, others, work, status, acting, saves, writes, drops>>
       ELSE Fail
  /\ Goto("canary") /\ StartOther /\ UNCHANGED result

\* set local role, outside any catch: an error leaves through finally.
SetRole ==
  /\ pc = "role"
  /\ IF SessionError = "" /\ cfg.member
       THEN /\ role' = "app" /\ Goto("canary") /\ UNCHANGED result
            /\ UNCHANGED <<shape, committed, others, work, status, acting, saves, writes, drops>>
       ELSE Fail /\ Throws /\ Goto("unwind")
  /\ StartOther

\* MUTANT of CanarySeen: the count of the negative control is not looked at.
CanaryIgnored == FALSE

\* The app role must see no row of it. An error while reading counts as enforced.
CanarySeen == canaryReady /\ SessionError = "" /\ cfg.bypass

ReadCanary ==
  /\ pc = "canary" /\ ~CanarySeen
  /\ Goto("table") /\ i' = 1
  /\ UNCHANGED <<pgVars, cfg, plan, tenants, owned, unsampled, seedLeft, seeded,
                 canaryReady, todo, probe, m, result>>

RefuseVacuousPass ==
  /\ pc = "canary" /\ CanarySeen
  /\ Rollback
  /\ Report([result EXCEPT !.refused = "canary"])
  /\ Goto("unwind") /\ StartOther

-----------------------------------------------------------------------------
(* One table of the plan: lines 805-913, up to its first statement.        *)

\* What introspection tells prove() about a table; nothing for cfg.tables.
KnownRls(t) == ~cfg.explicit /\ shape[t].rls
KnownNoPolicy(t) == KnownRls(t) /\ ~HasPolicy(t)
OwnerBypass(t) == KnownRls(t) /\ ~shape[t].forced /\ shape[t].owned

\* The first of all sampled tenants, in the order of the plan, that is not mine.
IsForeign(f, mine) ==
  \E j \in 1..Len(plan) :
    LET s == tenants[plan[j]]
    IN  /\ \A b \in 1..(j - 1) : ToSet(tenants[plan[b]]) \subseteq {mine}
        /\ \E k \in 1..Len(s) : f = s[k] /\ f # mine /\ \A a \in 1..(k - 1) : s[a] = mine
SoleTenant(t) == Len(tenants[t]) = 1
Unmatched(t) == SoleTenant(t) => \A x \in Tenants : ~IsForeign(x, tenants[t][1])

Steps(ops, me, other, base) ==
  [k \in 1..Len(ops) |-> [op |-> ops[k], me |-> me, other |-> other, base |-> base]]

ForeignScript(t, f) ==
  Steps(IF cfg.probeWrites THEN <<"become", "cross", "claim", "wipe">>
        ELSE <<"become", "cross">>, f, tenants[t][1], 0)

\* MUTANT of PairScript: no tenant hop.
PairScriptWithoutHop(t) ==
  LET a == tenants[t][1]
      b == tenants[t][2]
  IN  IF cfg.probeWrites
        THEN Steps(<<"become", "own", "cross", "claim", "wipe", "insert", "omit", "self">>,
                   a, b, owned[t][1])
             \o Steps(<<"become", "cross", "claim", "wipe", "insert", "omit">>,
                      b, a, owned[t][2])
        ELSE Steps(<<"become", "own", "cross">>, a, b, owned[t][1])
             \o Steps(<<"become", "cross">>, b, a, owned[t][2])

PairScript(t) ==
  LET a == tenants[t][1]
      b == tenants[t][2]
  IN  IF cfg.probeWrites
        THEN Steps(<<"become", "own", "cross", "claim", "wipe", "move", "insert", "omit", "self">>,
                   a, b, owned[t][1])
             \o Steps(<<"become", "cross", "claim", "wipe", "move", "insert", "omit">>,
                      b, a, owned[t][2])
        ELSE Steps(<<"become", "own", "cross">>, a, b, owned[t][1])
             \o Steps(<<"become", "cross">>, b, a, owned[t][2])

SeedLess(t) == cfg.seed = "on" /\ (owned[t][1] = 0 \/ owned[t][2] = 0)

TableOther == UNCHANGED <<pgVars, cfg, plan, tenants, owned, unsampled, seedLeft,
                          seeded, canaryReady, probe>>

\* A table that is noted as not proven without a single statement.
PassOver ==
  /\ pc = "table" /\ i <= Len(plan)
  /\ LET t == plan[i]
         note == [result EXCEPT !.noted = @ \cup {t}]
         looked == [note EXCEPT !.scanned = @ \cup {t}]
     IN  \/ t \in unsampled /\ result' = note
         \/ t \notin unsampled /\ OwnerBypass(t) /\ result' = looked
         \/ /\ t \notin unsampled /\ ~OwnerBypass(t) /\ Len(tenants[t]) < 2
            /\ Unmatched(t)
            /\ result' = looked
         \/ /\ t \notin unsampled /\ ~OwnerBypass(t) /\ Len(tenants[t]) >= 2
            /\ SeedLess(t)
            /\ result' = looked
  /\ i' = i + 1
  /\ UNCHANGED <<pc, todo, m>> /\ TableOther

Probeable(t) == t \notin unsampled /\ ~OwnerBypass(t)

\* Impersonate a tenant that exists elsewhere, or the two tenants in turn.
StartTable ==
  /\ pc = "table" /\ i <= Len(plan)
  /\ LET t == plan[i]
     IN  /\ Probeable(t)
         /\ \/ SoleTenant(t) /\ \E f \in Tenants : IsForeign(f, tenants[t][1]) /\ todo' = ForeignScript(t, f)
            \/ Len(tenants[t]) >= 2 /\ ~SeedLess(t) /\ todo' = PairScript(t)
         /\ result' = [result EXCEPT !.scanned = @ \cup {t}]
  /\ m' = NoMeasure /\ Goto("probe")
  /\ UNCHANGED i /\ TableOther

-----------------------------------------------------------------------------
(* The statements of one table: lines 842-862 and 924-981.                 *)

Larger(a, b) == IF a > b THEN a ELSE b

ProbeOther == UNCHANGED <<cfg, pc, plan, i, tenants, owned, unsampled, seedLeft, seeded,
                          canaryReady, result>>

Now(ops) == pc = "probe" /\ todo # <<>> /\ probe.phase = "idle" /\ Head(todo).op \in ops

IsPermissionDenied(e) == e \in {"denied", "check"}

\* The catch around a table's statements: the rest of the script is skipped.
Abandon(e) ==
  /\ Fail
  /\ m' = IF IsPermissionDenied(e) THEN [m EXCEPT !.denied = TRUE] ELSE [m EXCEPT !.failed = TRUE]
  /\ todo' = <<>> /\ UNCHANGED probe

BecomeError == IF SessionError # "" THEN SessionError
               ELSE IF cfg.identity = "error" THEN "other" ELSE ""

\* MUTANT of Assumed: the identity is set only once.
AssumedOnce(me) == IF acting # NoTenant THEN acting ELSE IF cfg.identity = "ok" THEN me ELSE NoTenant

\* becomeTenant, with a claim the policies do or do not read.
Assumed(me) == IF cfg.identity = "ok" THEN me ELSE NoTenant

Become ==
  /\ Now({"become"}) /\ ProbeOther
  /\ IF BecomeError # "" THEN Abandon(BecomeError)
     ELSE /\ acting' = Assumed(Head(todo).me)
          /\ todo' = Tail(todo)
          /\ UNCHANGED <<shape, committed, others, work, status, role, saves, writes, drops, m, probe>>

VisibleCount(t, x) == Cardinality({r \in Visible(t, cfg.bypass) : r.tenant = x})

\* tenantRowCountSql as the acting tenant: its own rows, or the other's.
CountRows ==
  /\ Now({"own", "cross"}) /\ ProbeOther
  /\ LET t == plan[i]
         s == Head(todo)
     IN  IF SelectError(t) # "" THEN Abandon(SelectError(t))
         ELSE /\ m' = IF s.op = "own" THEN [m EXCEPT !.own = VisibleCount(t, s.me)]
                      ELSE [m EXCEPT !.cross = Larger(@, VisibleCount(t, s.other))]
              /\ todo' = Tail(todo) /\ UNCHANGED <<probe, pgVars>>

\* "savepoint tg_w" and its siblings stand outside the probe's own try.
OpenProbe ==
  /\ Now(ProbeOps) /\ ProbeOther
  /\ IF SessionError # "" THEN Abandon(SessionError)
     ELSE /\ SetSavepoint
          /\ probe' = [NoProbe EXCEPT !.phase = IF Head(todo).op \in InsertOps THEN "before" ELSE "run"]
          /\ UNCHANGED <<todo, m>>

In(phase) == pc = "probe" /\ probe.phase = phase /\ todo # <<>>

\* How the catch of an INSERT probe reads an error.
InsertAnswer(op, e) ==
  IF IsPermissionDenied(e) THEN (IF op = "self" THEN "rejected" ELSE "blocked")
  ELSE IF op = "omit" /\ e = "nulltenant" THEN "blocked"
  ELSE "inconclusive"

\* The count an INSERT probe is judged by: own rows, or NULL-tenant rows.
Watched(t, s) == VisibleCount(t, IF s.op = "omit" THEN NullTenant ELSE s.me)

CountBefore ==
  /\ In("before") /\ ProbeOther
  /\ LET t == plan[i]
         s == Head(todo)
     IN  IF SelectError(t) # ""
           THEN Fail /\ probe' = [probe EXCEPT !.phase = "caught", !.answer = InsertAnswer(s.op, SelectError(t))]
           ELSE probe' = [probe EXCEPT !.phase = "run", !.count = Watched(t, s)] /\ UNCHANGED pgVars
  /\ UNCHANGED <<todo, m>>

\* probeWrite: any error counts as no row affected.
RunWrite ==
  /\ In("run") /\ Head(todo).op \in ProbeOps \ InsertOps /\ ProbeOther
  /\ LET t == plan[i]
         s == Head(todo)
         v == IF s.op = "claim" THEN s.me ELSE s.other
         e == IF s.op = "wipe" THEN DeleteError(t, cfg.bypass) ELSE UpdateError(t, v, cfg.bypass)
         hit == IF s.op = "wipe" THEN Reach(t, "delete", shape[t].del, cfg.bypass)
                ELSE Reach(t, "update", shape[t].upd, cfg.bypass)
     IN  IF e # "" THEN Fail /\ probe' = [probe EXCEPT !.phase = "caught"]
         ELSE /\ Apply(t, IF s.op = "wipe" THEN AfterDelete(t, cfg.bypass)
                          ELSE AfterUpdate(t, v, cfg.bypass))
              /\ probe' = [probe EXCEPT !.phase = "undo", !.count = Cardinality(hit)]
  /\ UNCHANGED <<todo, m>>

RunInsert ==
  /\ In("run") /\ Head(todo).op \in InsertOps /\ ProbeOther
  /\ LET t == plan[i]
         s == Head(todo)
         v == CASE s.op = "insert" -> s.other [] s.op = "omit" -> NullTenant [] s.op = "self" -> s.me
         e == InsertError(t, v, cfg.bypass)
     IN  IF e # "" THEN Fail /\ probe' = [probe EXCEPT !.phase = "caught", !.answer = InsertAnswer(s.op, e)]
         ELSE /\ Apply(t, AfterInsert(t, v, 0))
              /\ probe' = IF shape[t].trigger = "swallow"   \* affected < 1
                            THEN [probe EXCEPT !.phase = "undo",
                                               !.answer = IF s.op = "self" THEN "rejected" ELSE "blocked"]
                            ELSE [probe EXCEPT !.phase = "after"]
  /\ UNCHANGED <<todo, m>>

\* MUTANT of Grew: an INSERT that affected a row is always a cross-tenant INSERT.
GrewIgnored(op, grew) ==
  CASE op = "insert" -> "leak"
    [] op = "omit"   -> IF grew THEN "leak" ELSE "blocked"
    [] op = "self"   -> IF grew THEN "visible" ELSE "invisible"

\* Where the row landed, read from the count.
Grew(op, grew) ==
  CASE op = "insert" -> IF grew THEN "blocked" ELSE "leak"
    [] op = "omit"   -> IF grew THEN "leak" ELSE "blocked"
    [] op = "self"   -> IF grew THEN "visible" ELSE "invisible"

CountAfter ==
  /\ In("after") /\ ProbeOther
  /\ LET t == plan[i]
         s == Head(todo)
     IN  IF SelectError(t) # ""
           THEN Fail /\ probe' = [probe EXCEPT !.phase = "caught", !.answer = InsertAnswer(s.op, SelectError(t))]
           ELSE /\ probe' = [probe EXCEPT !.phase = "undo", !.answer = Grew(s.op, Watched(t, s) > probe.count)]
                /\ UNCHANGED pgVars
  /\ UNCHANGED <<todo, m>>

\* After a statement that succeeded, the rollback to the savepoint stands inside
\* the try (except in probeOwnInsert): if the connection is lost just then, its
\* error replaces what was measured.
Disowned == probe.phase = "undo" /\ SessionError # "" /\ Head(todo).op # "self"
Affected == IF Disowned THEN 0 ELSE probe.count
Answer == IF Disowned THEN "inconclusive" ELSE probe.answer

\* MUTANT of Measure: the last probe's number instead of the maximum.
MeasureLast(n) == m' = [m EXCEPT !.write = n]

Measure(n) == m' = [m EXCEPT !.write = Larger(@, n)]

\* The outcome of a probe joins the measures of the table; claiming and deleting
\* one's own rows is no leak.
Record(s) ==
  CASE s.op = "insert" -> m' = [m EXCEPT !.inserts = @ \cup {Answer}]
    [] s.op = "omit"   -> m' = [m EXCEPT !.orphans = @ \cup {Answer}]
    [] s.op = "self"   -> m' = [m EXCEPT !.selfIns = Answer]
    [] s.op = "move"   -> Measure(Affected)
    [] OTHER           -> Measure(Affected - s.base)

Undoing == In("undo") \/ In("caught")

\* MUTANT of UndoProbe: the savepoint is released without rolling back to it.
UndoProbeReleased ==
  /\ Undoing /\ ProbeOther
  /\ saves' = <<>>
  /\ UNCHANGED <<shape, committed, others, work, status, role, acting, writes, drops>>
  /\ Record(Head(todo))
  /\ probe' = NoProbe /\ todo' = Tail(todo)

\* rollback to savepoint, release savepoint; then the outcome is recorded.
UndoProbe ==
  /\ Undoing /\ ProbeOther
  /\ UndoSavepoint
  /\ Record(Head(todo))
  /\ probe' = NoProbe /\ todo' = Tail(todo)

-----------------------------------------------------------------------------
(* The verdict on a table: classifyTableResult (418-511), 863-903, 986-1032.*)

Leaks(x) ==
  (IF x.cross > 0 THEN {"read"} ELSE {}) \cup
  (IF x.write > 0 THEN {"write"} ELSE {}) \cup
  (IF "leak" \in x.inserts THEN {"insert"} ELSE {}) \cup
  (IF "leak" \in x.orphans THEN {"orphan"} ELSE {})

ClassifyTableResult(x, noPolicy, tenantCount) ==
  IF x.denied THEN "no-access"
  ELSE IF tenantCount < 2 THEN "insufficient-data"
  ELSE IF noPolicy THEN "no-policy"
  ELSE IF Leaks(x) # {} THEN "leak"
  ELSE IF x.own = 0 THEN "over-restrictive"
  ELSE IF x.selfIns = "invisible" THEN "write-read-asymmetry"
  ELSE "isolated"

Inconclusive(x) ==
  /\ "leak" \notin x.inserts \cup x.orphans
  /\ "inconclusive" \in x.inserts \cup x.orphans

Blame(r, t, kinds) == [r EXCEPT !.violations = @ \cup {<<t, k>> : k \in kinds}]
Note(r, t) == [r EXCEPT !.noted = @ \cup {t}]
Prove(r, t) == [r EXCEPT !.proven = @ \cup {t}]

JudgeSole(r, t) ==
  IF m.failed THEN Note(r, t)
  ELSE IF m.cross > 0 THEN Blame(r, t, {"read"})
  ELSE IF m.write > 0 THEN Blame(r, t, {"write"})
  ELSE IF cfg.probeWrites THEN Prove(r, t)
  ELSE [Note(r, t) EXCEPT !.readOnly = @ \cup {t}]

\* MUTANT of JudgePair: a table whose statements failed is left out of the notes.
JudgePairSilent(r, t) ==
  LET verdict == ClassifyTableResult(m, KnownNoPolicy(t), Len(tenants[t]))
  IN  IF m.failed THEN r
      ELSE IF verdict = "leak" THEN Blame(r, t, Leaks(m))
      ELSE IF verdict = "isolated" THEN Prove(r, t)
      ELSE Note(r, t)

JudgePair(r, t) ==
  LET verdict == ClassifyTableResult(m, KnownNoPolicy(t), Len(tenants[t]))
      noting == IF verdict # "leak" /\ Inconclusive(m) THEN Note(r, t) ELSE r
  IN  IF m.failed THEN Note(r, t)
      ELSE IF verdict = "leak" THEN Blame(noting, t, Leaks(m))
      ELSE IF verdict = "isolated" THEN Prove(noting, t)
      ELSE Note(noting, t)

JudgeTable ==
  /\ pc = "probe" /\ todo = <<>>
  /\ LET t == plan[i]
     IN  result' = IF Len(tenants[t]) < 2 THEN JudgeSole(result, t) ELSE JudgePair(result, t)
  /\ i' = i + 1 /\ Goto("table")
  /\ UNCHANGED <<pgVars, cfg, plan, tenants, owned, unsampled, seedLeft, seeded,
                 canaryReady, todo, probe, m>>

-----------------------------------------------------------------------------
(* The end: finally { rollback } and the returned object, lines 1034-1072. *)

FinishTables ==
  /\ pc = "table" /\ i > Len(plan)
  /\ Report(result) /\ Goto("unwind") /\ StartOther /\ UNCHANGED pgVars

\* MUTANT of Unwind: a rollback that fails is sent again.
UnwindRetried ==
  /\ pc = "unwind"
  /\ Rollback /\ StartOther /\ UNCHANGED result
  /\ IF status = "lost" THEN UNCHANGED pc ELSE Goto("close")

Unwind ==
  /\ pc = "unwind"
  /\ Rollback /\ Goto("close") /\ StartOther /\ UNCHANGED result

Ok == result.outcome = "report" /\ result.violations = {} /\ result.refused = "none"
Blamed == {v[1] : v \in result.violations}
NotProven == Larger(Cardinality(result.scanned) - Cardinality(result.proven) - Cardinality(Blamed), 0)

-----------------------------------------------------------------------------
Guard ==
  \/ SkipRun \/ Connect \/ ConnectFails \/ Close
  \/ MakePlan \/ BeginProof \/ SeedOne \/ SeedFails
  \/ StartSampling \/ SampleTenants \/ SampleCounts
  \/ SetUpCanary \/ SetRole \/ ReadCanary \/ RefuseVacuousPass
  \/ PassOver \/ StartTable
  \/ Become \/ CountRows \/ OpenProbe \/ CountBefore \/ RunWrite \/ RunInsert
  \/ CountAfter \/ UndoProbe
  \/ JudgeTable \/ FinishTables \/ Unwind

Environment == pc # "done" /\ (OtherSessions \/ Drop) /\ UNCHANGED guardVars

Finished == pc = "done" /\ UNCHANGED vars

Next == Guard \/ Environment \/ Finished

Spec == Init /\ [][Next]_vars
FairSpec == Spec /\ WF_vars(Guard)
=============================================================================
