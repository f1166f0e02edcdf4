------------------------------- MODULE Catalog -------------------------------
(***************************************************************************)
(* The part of the Postgres catalog a migration changes and tenant-guard   *)
(* reads: tables, row level security, policies, functions and their        *)
(* EXECUTE grants, views and who may write through them. Postgres is not   *)
(* code of the repository: this is what the guards that replay migrations  *)
(* rely on.                                                                *)
(***************************************************************************)
EXTENDS Naturals, Sequences, FiniteSets, SequencesExt

CONSTANTS Relations, Views, PolicyNames, Routines,
          PlatformGrants   \* what the platform lets whom write in every new view

Roles      == {"public", "anon", "authenticated"}
Privileges == {"insert", "update", "delete"}

ASSUME CatalogAssumption == Relations # {} /\ PlatformGrants \subseteq Roles \X Privileges

\* One relation and nothing else, a FROM that is no relation, a construct that
\* makes a view read-only, a materialized view.
Shapes == {"plain", "computed", "aggregate", "materialized"}

Kinds == {"create table", "drop table", "rename table", "use table",
          "enable rls", "disable rls", "create policy", "drop policy",
          "create function", "drop function", "grant", "revoke",
          "create view", "drop view", "alter view", "create rule",
          "grant writes", "revoke writes", "default grant", "default revoke"}

\* A statement; the fields a kind has no use for keep their value in Blank.
Statement == [kind: Kinds, table: Relations, to: Relations, policy: PolicyNames,
              routine: Routines, grantee: Roles,
              view: Views, base: Relations \cup Views, shape: Shapes,
              invoker: BOOLEAN, replace: BOOLEAN,
              privs: SUBSET Privileges,
              everything: BOOLEAN,     \* ON ALL TABLES IN SCHEMA
              ifExists: BOOLEAN,       \* IF [NOT] EXISTS
              definer: BOOLEAN, writes: BOOLEAN, trigger: BOOLEAN,
              resolved: BOOLEAN]       \* of a function body: LANGUAGE sql, read at CREATE

\* A function that exists; open: who holds EXECUTE.
Routine == [definer: BOOLEAN, writes: BOOLEAN, trigger: BOOLEAN,
            open: SUBSET Roles]
NoRoutine == [definer |-> FALSE, writes |-> FALSE, trigger |-> FALSE, open |-> {}]

\* A view that exists; writers: who holds which write privilege; rule: a rule or
\* an INSTEAD OF trigger takes its writes.
View == [shape: Shapes, base: Relations \cup Views, invoker: BOOLEAN, rule: BOOLEAN,
         writers: SUBSET (Roles \X Privileges)]
NoView == [shape |-> "plain", base |-> CHOOSE t \in Relations : TRUE, invoker |-> FALSE,
           rule |-> FALSE, writers |-> {}]

Catalogs == [tables: SUBSET Relations, rls: SUBSET Relations,
             policies: SUBSET (Relations \X PolicyNames),
             routines: SUBSET Routines, code: [Routines -> Routine],
             views: SUBSET Views, view: [Views -> View],
             defaults: SUBSET (Roles \X Privileges)]

EmptyCatalog == [tables |-> {}, rls |-> {}, policies |-> {}, routines |-> {},
                 code |-> [f \in Routines |-> NoRoutine],
                 views |-> {}, view |-> [v \in Views |-> NoView], defaults |-> PlatformGrants]

PoliciesOf(cat, t) == {p \in cat.policies : p[1] = t}

-----------------------------------------------------------------------------
\* The objects a statement cannot do without.
NeedsTable(s) ==
  \/ s.kind \in {"drop table", "rename table", "enable rls", "disable rls", "drop policy"}
     /\ ~s.ifExists
  \/ s.kind \in {"use table", "create policy"}
  \/ s.kind = "create function" /\ s.resolved

NeedsRoutine(s) ==
  \/ s.kind \in {"grant", "revoke"}
  \/ s.kind = "drop function" /\ ~s.ifExists

NeedsView(s) ==
  \/ s.kind = "drop view" /\ ~s.ifExists
  \/ s.kind \in {"alter view", "create rule"}
  \/ s.kind \in {"grant writes", "revoke writes"} /\ ~s.everything

NeedsBase(s) == s.kind = "create view" /\ s.shape # "computed"

ViewsOver(cat, x) == {v \in cat.views : cat.view[v].shape # "computed" /\ cat.view[v].base = x}

Refused(cat, s) ==
  \/ NeedsView(s) /\ s.view \notin cat.views
  \/ NeedsBase(s) /\ s.base \notin cat.tables \cup cat.views
  \/ s.kind = "create view" /\ s.view \in cat.views
       /\ (~s.replace \/ "materialized" \in {s.shape, cat.view[s.view].shape})
  \/ s.kind = "create rule" /\ cat.view[s.view].shape = "materialized"
  \/ s.kind = "drop view" /\ ViewsOver(cat, s.view) # {}
  \/ s.kind = "drop table" /\ ViewsOver(cat, s.table) # {}
  \/ NeedsTable(s) /\ s.table \notin cat.tables
  \/ NeedsRoutine(s) /\ s.routine \notin cat.routines
  \/ s.kind = "create table" /\ s.table \in cat.tables /\ ~s.ifExists
  \/ s.kind = "rename table" /\ s.table \in cat.tables /\ s.to \in cat.tables
  \/ s.kind = "create policy" /\ <<s.table, s.policy>> \in cat.policies
  \/ s.kind = "drop policy" /\ <<s.table, s.policy>> \notin cat.policies /\ ~s.ifExists

Rename(cat, t, u) ==
  [cat EXCEPT !.tables = (@ \ {t}) \cup {u},
              !.rls = IF t \in @ THEN (@ \ {t}) \cup {u} ELSE @,
              !.policies = (@ \ PoliciesOf(cat, t)) \cup {<<u, p[2]>> : p \in PoliciesOf(cat, t)},
              !.view = [v \in Views |-> IF v \in ViewsOver(cat, t) THEN [@[v] EXCEPT !.base = u] ELSE @[v]]]

\* A new function is executable by PUBLIC; replacing one keeps its grants.
Define(cat, s) ==
  [cat EXCEPT !.routines = @ \cup {s.routine},
              !.code[s.routine] =
                [definer |-> s.definer, writes |-> s.writes, trigger |-> s.trigger,
                 open |-> IF s.routine \in cat.routines THEN @.open ELSE {"public"}]]

\* A new view has the default grants; replacing one keeps its grants and rules.
DefineView(cat, s) ==
  LET old == cat.view[s.view]
  IN  [cat EXCEPT !.views = @ \cup {s.view},
                  !.view[s.view] =
                    [shape |-> s.shape, base |-> s.base, invoker |-> s.invoker, rule |-> old.rule,
                     writers |-> IF s.view \in cat.views THEN old.writers ELSE cat.defaults]]

Writers(s) == {s.grantee} \X s.privs
Named(cat, s) == IF s.everything THEN cat.views ELSE {s.view}

\* The views after a GRANT, or a REVOKE, of writes.
Given(cat, s) ==
  [v \in Views |-> IF v \in Named(cat, s) THEN [cat.view[v] EXCEPT !.writers = @ \cup Writers(s)] ELSE cat.view[v]]
Taken(cat, s) ==
  [v \in Views |-> IF v \in Named(cat, s) THEN [cat.view[v] EXCEPT !.writers = @ \ Writers(s)] ELSE cat.view[v]]

\* A statement that is not refused.
After(cat, s) ==
  CASE s.kind = "create table"    -> [cat EXCEPT !.tables = @ \cup {s.table}]
    [] s.kind = "drop table"      -> [cat EXCEPT !.tables = @ \ {s.table}, !.rls = @ \ {s.table},
                                                 !.policies = @ \ PoliciesOf(cat, s.table)]
    [] s.kind = "rename table"    -> IF s.table \in cat.tables THEN Rename(cat, s.table, s.to) ELSE cat
    [] s.kind = "use table"       -> cat
    [] s.kind = "enable rls"      -> [cat EXCEPT !.rls = @ \cup ({s.table} \cap cat.tables)]
    [] s.kind = "disable rls"     -> [cat EXCEPT !.rls = @ \ {s.table}]
    [] s.kind = "create policy"   -> [cat EXCEPT !.policies = @ \cup {<<s.table, s.policy>>}]
    [] s.kind = "drop policy"     -> [cat EXCEPT !.policies = @ \ {<<s.table, s.policy>>}]
    [] s.kind = "create function" -> Define(cat, s)
    [] s.kind = "drop function"   -> [cat EXCEPT !.routines = @ \ {s.routine},
                                                 !.code[s.routine] = NoRoutine]
    [] s.kind = "grant"           -> [cat EXCEPT !.code[s.routine].open = @ \cup {s.grantee}]
    [] s.kind = "revoke"          -> [cat EXCEPT !.code[s.routine].open = @ \ {s.grantee}]
    [] s.kind = "create view"     -> DefineView(cat, s)
    [] s.kind = "drop view"       -> [cat EXCEPT !.views = @ \ {s.view}, !.view[s.view] = NoView]
    [] s.kind = "alter view"      -> [cat EXCEPT !.view[s.view].invoker = s.invoker]
    [] s.kind = "create rule"     -> [cat EXCEPT !.view[s.view].rule = TRUE]
    [] s.kind = "grant writes"    -> [cat EXCEPT !.view = Given(cat, s)]
    [] s.kind = "revoke writes"   -> [cat EXCEPT !.view = Taken(cat, s)]
    [] s.kind = "default grant"   -> [cat EXCEPT !.defaults = @ \cup Writers(s)]
    [] s.kind = "default revoke"  -> [cat EXCEPT !.defaults = @ \ Writers(s)]

-----------------------------------------------------------------------------
(* Writing through views.                                                  *)

\* The tables, and the views a write passes through: by a rule, or when they are
\* nothing but one relation a write reaches.
Writable(cat) ==
  LET Reach[n \in 0..Cardinality(Views)] ==
        IF n = 0 THEN cat.tables
        ELSE Reach[n-1] \cup {v \in cat.views :
               LET w == cat.view[v] IN w.rule \/ (w.shape = "plain" /\ w.base \in Reach[n-1])}
  IN  Reach[Cardinality(Views)]

\* Views with their owner's rights that somebody may write through: row level
\* security of the table does not apply to whoever does.
WritesThrough(cat) == {v \in cat.views \cap Writable(cat) : ~cat.view[v].invoker /\ cat.view[v].writers # {}}

-----------------------------------------------------------------------------
\* A migration runs in one transaction: all of its statements, or none.
Execute(acc, s) ==
  IF ~acc.ok \/ Refused(acc.cat, s) THEN [acc EXCEPT !.ok = FALSE] ELSE [acc EXCEPT !.cat = After(@, s)]
Outcome(cat, stmts) == FoldLeft(Execute, [ok |-> TRUE, cat |-> cat], stmts)

Applies(cat, stmts) == Outcome(cat, stmts).ok
Applied(cat, stmts) == Outcome(cat, stmts).cat
=============================================================================
