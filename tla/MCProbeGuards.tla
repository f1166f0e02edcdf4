---------------------------- MODULE MCProbeGuards ----------------------------
(***************************************************************************)
(* The databases the probing guards are run against. For every guard: one  *)
(* target of every shape, pairs in which the first one raises or holds and *)
(* the second one is exposed, the ways the run can fail to start, and one  *)
(* world or two in which a fault may strike anywhere.                      *)
(***************************************************************************)
EXTENDS ProbeGuards, TLC

Ones(S)     == {<<s>> : s \in S}
Pairs(S, T) == {<<s, t>> : s \in S, t \in T}

\* A sound database: the role is bound by RLS and can be assumed.
Sound == [temp : {TRUE}, member : {TRUE}, bypass : {FALSE}]
Odd   == [temp : BOOLEAN, member : BOOLEAN, bypass : BOOLEAN]

With(settings, more) == {s @@ m : s \in settings, m \in more}

Named(guard, setup, worlds) == With({[guard |-> guard, setup |-> setup]}, worlds)

\* usual: no fault; odd: roles that do not fit; struck: a fault may come.
Databases(guard, usual, odd, struck) ==
  Named(guard, "ok", With(Sound, usual) \cup With(Odd, odd))
  \cup Named(guard, "faulty", With(Sound, struck))
  \cup Named(guard, "none", With(Sound, struck)) \cup Named(guard, "refused", With(Sound, struck))

-----------------------------------------------------------------------------
ReadTargets ==
  [kind : {"table", "view", "plain"}, grant : BOOLEAN, rls : BOOLEAN,
   rows : {"some", "none", "unreadable"}, anon : {"some", "none", "error"}]
OpenTable == [kind |-> "table", grant |-> TRUE, rls |-> TRUE, rows |-> "some", anon |-> "some"]
ReadWorlds ==
  LET set(anonRole, old, targets) == [anonRole : anonRole, oldCatalog : old, targets : targets]
      raising == {[OpenTable EXCEPT !.rows = "unreadable"], [OpenTable EXCEPT !.anon = "error"]}
  IN  Databases("anon-reads",
        set({TRUE}, BOOLEAN, Ones(ReadTargets)) \cup set({TRUE}, {FALSE}, Pairs(raising, {OpenTable})),
        set(BOOLEAN, {FALSE}, {<<OpenTable>>}),
        set({TRUE}, {FALSE}, Pairs({OpenTable, [OpenTable EXCEPT !.anon = "none"]},
                                   {[OpenTable EXCEPT !.kind = k] : k \in {"table", "view", "plain"}})))

-----------------------------------------------------------------------------
Effects == {"nogrant", "nocol", "none", "denied", "rows", "key", "error"}
WriteTargets ==
  [view : BOOLEAN, rls : BOOLEAN, updatable : {TRUE}, invoker : BOOLEAN, insert : {TRUE}, open : BOOLEAN,
   update : Effects, delete : Effects \ {"nocol"}]
OpenWrite == [view |-> FALSE, rls |-> TRUE, updatable |-> TRUE, invoker |-> FALSE, insert |-> FALSE, open |-> FALSE,
              update |-> "rows", delete |-> "key"]
WriteWorlds ==
  LET set(anonRole, old, targets) == [anonRole : anonRole, oldCatalog : old, targets : targets]
      raising == {[OpenWrite EXCEPT !.update = e, !.delete = e] : e \in {"error", "key", "denied"}}
  IN  Databases("anon-writes",
        set({TRUE}, {FALSE}, Ones({t \in WriteTargets : t.delete \in {"none", "rows", "error"} \/ t.update = "rows"})
                             \cup Pairs(raising, {OpenWrite, [OpenWrite EXCEPT !.view = TRUE]})),
        set(BOOLEAN, BOOLEAN, {<<OpenWrite, [OpenWrite EXCEPT !.view = TRUE]>>}),
        set({TRUE}, {FALSE}, Pairs(raising, {OpenWrite, [OpenWrite EXCEPT !.view = TRUE],
                                             [OpenWrite EXCEPT !.view = TRUE, !.update = "nogrant", !.delete = "rows"]})))

-----------------------------------------------------------------------------
ViewTargets ==
  [mat : BOOLEAN, tenants : {"one", "two", "unreadable"}, reads : {"denied", "none", "own", "down", "all"}]
OpenView == [mat |-> FALSE, tenants |-> "two", reads |-> "all"]
ViewWorlds ==
  LET set(hook, targets) == [hook : hook, targets : targets]
      DownView == [OpenView EXCEPT !.reads = "down"]
  IN  Databases("view-isolation",
        set({"own", "other", "fails"}, Ones(ViewTargets)) \cup set({"own"}, Pairs(ViewTargets, {OpenView, DownView})),
        set({"own"}, {<<OpenView>>, <<>>}),
        set({"own"}, Pairs({OpenView, [OpenView EXCEPT !.reads = "own"]}, {DownView, [OpenView EXCEPT !.mat = TRUE]})))

-----------------------------------------------------------------------------
Access == {"denied", "none", "own", "all"}
Buckets == [public : BOOLEAN, folders : {"flat", "one", "two"}, anon : Access, reads : Access, writes : Access]
Bucket == [public |-> FALSE, folders |-> "two", anon |-> "own", reads |-> "own", writes |-> "own"]
StorageWorlds ==
  LET set(present, rls, anonRole, uploads, orphans, hook, targets) ==
        [present : present, rls : rls, anonRole : anonRole, uploads : uploads, orphans : orphans, hook : hook,
         targets : targets]
      T == {TRUE}
  IN  Databases("storage-isolation",
        set(T, T, BOOLEAN, BOOLEAN, {"off"}, {"own"}, Ones({b \in Buckets : b.folders = "two" \/ b.reads = b.writes}))
        \cup set(T, {FALSE}, T, T, {"off"}, {"own"}, Ones({b \in Buckets : b.reads = b.writes}) \cup {<<>>})
        \cup set(T, T, T, T, {"off"}, {"own", "other"}, Pairs({Bucket}, {b \in Buckets : b.folders = "two" /\ ~b.public})),
        set(BOOLEAN, T, T, T, {"off", "some", "unlinked", "error"}, {"own", "fails"}, {<<Bucket>>}),
        set(T, T, T, T, {"off"}, {"own"}, Pairs({Bucket, [Bucket EXCEPT !.anon = "all"]},
                                                      {[Bucket EXCEPT !.writes = "all"], [Bucket EXCEPT !.reads = "all"]})))

-----------------------------------------------------------------------------
Channels == [reads : Access, writes : Access]
RealtimeWorlds ==
  LET set(present, streams, rls, policies, tenants, uploads, hook, targets) ==
        [present : present, streams : streams, rls : rls, policies : policies, tenants : tenants, uploads : uploads,
         hook : hook, targets : targets]
      T    == {TRUE}
      open == [reads |-> "own", writes |-> "all"]
  IN  Databases("realtime-isolation",
        set(T, {"some"}, T, T, {2}, BOOLEAN, {"own", "other"}, Ones(Channels))
        \cup set(BOOLEAN, {"none", "error"}, BOOLEAN, BOOLEAN, {1, 2}, T, {"own"}, {<<open>>}),
        set(T, {"none"}, T, BOOLEAN, {2}, T, {"own", "fails"}, {<<open>>}),
        set(T, {"none"}, T, T, {2}, T, {"own"}, Ones([reads : {"own", "all"}, writes : {"own", "all"}])))

-----------------------------------------------------------------------------
Paths == {<<"public">>, <<"pg_temp", "app">>, <<"pg_catalog", "public", "app">>, <<"pg_catalog", "app", "pg_temp">>,
          <<"public", "app", "pg_temp">>, <<"ext", "public", "app", "pg_temp">>}
Functions == [canExecute : BOOLEAN, body : {"bound"}, pinned : {TRUE}, path : {<<"pg_catalog", "app", "pg_temp">>},
              home : {"app"}, volatile : BOOLEAN, smell : BOOLEAN, args : {"none", "tenant", "other"},
              foreign : {"some", "none", "denied", "error"}, control : {"some", "none", "error"}]
OpenFunction == [canExecute |-> TRUE, body |-> "injectable", pinned |-> FALSE, path |-> <<>>, home |-> "app",
                 volatile |-> FALSE, smell |-> FALSE, args |-> "tenant", foreign |-> "some", control |-> "none"]
Bodies == {[OpenFunction EXCEPT !.body = b, !.pinned = p, !.path = IF p THEN s ELSE <<>>, !.args = "none"] :
             b \in {"injectable", "unmapped", "bound"}, p \in BOOLEAN, s \in Paths}
RpcWorlds ==
  LET set(old, samples, writable, targets) ==
        [oldCatalog : old, samples : samples, writable : writable, targets : targets]
      two == <<"error", "two">>
  IN  Databases("definer-rpc",
        set({FALSE}, {two}, {{}}, Ones(Functions) \cup Pairs(Functions, {OpenFunction}))
        \cup set(BOOLEAN, {two, <<"one">>}, SUBSET {"public", "app"}, Ones(Bodies)),
        set({FALSE}, {two}, {{}}, {<<OpenFunction>>, <<>>}),
        set({FALSE}, {two}, {{"public"}}, Pairs({OpenFunction, [OpenFunction EXCEPT !.foreign = "none"]},
                                             {OpenFunction, [OpenFunction EXCEPT !.args = "none"]})))

-----------------------------------------------------------------------------
Policies ==
  {[cmd |-> "SELECT", restrictive |-> FALSE, applies |-> TRUE, source |-> "metadata", using |-> "pins", check |-> "absent", roles |-> FALSE]}
  \cup [cmd : {"UPDATE", "INSERT"}, restrictive : BOOLEAN, applies : BOOLEAN, source : {"none", "guc"},
        using : {"open", "pins"}, check : {"open", "pins", "absent"}, roles : BOOLEAN]
Table(policies) ==
  [tenant |-> TRUE, tenants |-> 2, rls |-> TRUE, owned |-> FALSE, policies |-> policies, grants |-> {"UPDATE"},
   writable |-> {"tenant", "role"}, authority |-> TRUE, forge |-> "more"]
Metadata == {p \in Policies : p.source = "metadata"}
Writing  == {p \in Policies : p.applies /\ p.source = "none" /\ p.cmd = "UPDATE"}
Tables ==
  {Table(Metadata \cup {p}) : p \in Policies} \cup {Table({p, q}) : p, q \in Writing}
  \cup {Table({[p EXCEPT !.using = "absent"]}) : p \in Writing}
  \cup [tenant : BOOLEAN, tenants : {2}, rls : BOOLEAN, owned : BOOLEAN, policies : {Writing, {}},
        grants : SUBSET {"UPDATE", "INSERT"}, writable : {{}, {"role"}}, authority : BOOLEAN, forge : {"same"}]
IdentityWorlds ==
  LET set(fns, targets) == [fns : fns, targets : targets]
      Forged == {[Table(Metadata) EXCEPT !.tenants = n, !.forge = f] : n \in {1, 2}, f \in {"more", "same", "denied", "error"}}
      fn == [executable |-> TRUE, fromParam |-> TRUE, authorizes |-> FALSE]
      Fns == Ones([executable : BOOLEAN, fromParam : BOOLEAN, authorizes : BOOLEAN])
      Guc == {Table({p}) : p \in {q \in Policies : q.source = "guc" /\ q.applies /\ q.cmd = "UPDATE" /\ ~q.restrictive}}
  IN  Databases("identity-trust",
        set({<<>>}, Ones(Tables)) \cup set({<<>>}, Pairs(Forged, Forged)) \cup set(Fns, Ones(Guc)),
        set({<<fn>>}, {<<Table(Metadata)>>, <<Table({})>>}),
        set({<<fn>>}, Pairs({Table(Metadata), [Table(Metadata) EXCEPT !.forge = "same"]}, {Table(Metadata)})))

-----------------------------------------------------------------------------
Columns == [sensitive : BOOLEAN, tenant : BOOLEAN, read : {"values", "nulls", "denied", "error"}]
Bare == [sensitive |-> TRUE, tenant |-> FALSE, read |-> "values"]
ColumnWorlds ==
  LET set(anonRole, targets) == [anonRole : anonRole, targets : targets]
  IN  Databases("column-exposure", set({TRUE}, Ones(Columns) \cup Pairs(Columns, Columns)), set(BOOLEAN, {<<Bare>>}),
                set({TRUE}, Pairs({Bare, [Bare EXCEPT !.read = "nulls"]}, {Bare})))

-----------------------------------------------------------------------------
TriggerWorlds ==
  LET set(rls, tables, targets) == [rls : rls, tables : tables, targets : targets]
      Counts == {[all |-> 2, conn |-> c, app |-> a, denies |-> d] : c, a \in {1, 2}, d \in SUBSET {"conn", "app"}}
      Some   == {c \in Counts : c.conn = 2}
      Shapes == [definer : BOOLEAN, enforces : BOOLEAN, reads : SUBSET {1, 2}]
      both   == [definer |-> FALSE, enforces |-> TRUE, reads |-> {1, 2}]
      plain  == [all |-> 2, conn |-> 2, app |-> 2, denies |-> {}]
  IN  Databases("trigger-visibility",
        set({TRUE}, Pairs(Counts, Some), {<<both>>, <<[both EXCEPT !.reads = {1}], [both EXCEPT !.reads = {2}]>>})
        \cup set({TRUE}, Pairs(Some, {plain}), Ones(Shapes)),
        set(BOOLEAN, {<<plain, plain>>}, {<<both>>, <<>>}),
        set({TRUE}, {<<plain, [plain EXCEPT !.app = 1]>>, <<plain, plain>>}, {<<both>>, <<both, [both EXCEPT !.reads = {1}]>>}))

-----------------------------------------------------------------------------
SchemaWorlds ==
  LET set(pattern, targets) == [pattern : pattern, targets : targets]
      Tries    == [grant : BOOLEAN, read : {"ok", "denied", "error"}]
      schema(shape, usable, tries) == [shape |-> shape, named |-> TRUE, usable |-> usable, tries |-> tries]
      ok       == [grant |-> TRUE, read |-> "ok"]
      no       == [grant |-> TRUE, read |-> "denied"]
      AB       == {"a", "b"}
      Walks    == {schema(AB, u, t) : u \in BOOLEAN, t \in Ones(Tries) \cup Pairs(Tries, Tries) \cup {<<no, no, no, ok>>}}
      open     == schema(AB, TRUE, <<no, ok>>)
      Near     == {schema(s, TRUE, <<ok>>) : s \in {{"a"}, AB, {"a", "b", "c"}, {"d"}}}
  IN  Databases("schema-tenancy",
        set({FALSE}, Pairs(Walks, {open})) \cup set(BOOLEAN, Pairs(Near, Near)),
        set({FALSE}, {<<open, open>>, <<open, open, schema({"d"}, TRUE, <<ok>>), schema({"d"}, TRUE, <<ok>>)>>}),
        set({FALSE}, {<<open, open>>}))

-----------------------------------------------------------------------------
PrivilegeWorlds ==
  LET set(others, old, targets) == [others : others, oldCatalog : old, targets : targets]
      Makes == {"nothing", "anon", "public", "guarded", "denied"}
      All   == [conn : Makes, other : Makes]
      open  == [conn |-> "public", other |-> "public"]
  IN  Databases("default-privileges",
        set(BOOLEAN, BOOLEAN, Ones(All)) \cup set({TRUE}, {FALSE}, Pairs(All, {open}) \cup {<<>>}),
        set({TRUE}, {FALSE}, {<<open>>}),
        set({TRUE}, {FALSE}, {<<open, open>>}))

-----------------------------------------------------------------------------
Keys == [tenants : BOOLEAN, carries : BOOLEAN, composite : BOOLEAN, existing : {"none", "some", "error"},
         parent : BOOLEAN, second : BOOLEAN, own : {"rows", "all", "none", "denied"},
         write : {"lands", "none", "denied", "error"}]
OpenKey == [tenants |-> TRUE, carries |-> FALSE, composite |-> FALSE, existing |-> "none", parent |-> TRUE,
            second |-> TRUE, own |-> "rows", write |-> "lands"]
KeyWorlds ==
  LET set(vanish, hook, targets) == [vanish : vanish, hook : hook, targets : targets]
      Probed == {k \in Keys : k.tenants /\ ~k.carries /\ ~k.composite /\ k.parent /\ k.second}
      Plain  == {k \in Keys : k.own = "rows" /\ k.write = "lands"}
  IN  Databases("cross-tenant-fk",
        set({FALSE}, {"own"}, Ones(Plain)) \cup set({FALSE}, {"own", "other", "fails"}, Ones(Probed))
        \cup set(BOOLEAN, {"own"}, Pairs(Probed, {OpenKey})),
        set({FALSE}, {"own"}, {<<OpenKey>>}),
        set({FALSE}, {"own"}, {<<OpenKey, OpenKey>>}))

-----------------------------------------------------------------------------
(* The guards that only read the catalog.                                  *)

Capabilities == [kind : {"bypass", "egress", "auth"}, granted : BOOLEAN, usage : BOOLEAN, allow : BOOLEAN, genuine : BOOLEAN]
CapabilityWorlds ==
  LET set(auth, targets) == [auth : auth, targets : targets]
      held == [granted : {TRUE}, usage : {TRUE}, allow : {FALSE}, genuine : {TRUE}, kind : {"bypass", "auth"}]
  IN  Databases("role-capabilities", set({"ok", "error"}, Ones({t \in Capabilities : t.kind = "auth" => t.genuine}) \cup Pairs(held, held)), {},
                set({"ok"}, Pairs(held, held)))

Indexes ==
  [kind : {"unique"}, tenant : BOOLEAN, primary : BOOLEAN, key : SUBSET {"tenant", "guess", "uuid", "secret"} \ {{}},
   includes : {{}, {"tenant"}, {"guess"}}, expression : {FALSE}, names : {{}}, scoped : {FALSE}, parent : {FALSE}, allow : {FALSE}]
  \cup [kind : {"unique"}, tenant : {TRUE}, primary : {FALSE}, key : SUBSET {"tenant", "guess"},
        includes : SUBSET {"tenant"}, expression : {TRUE}, names : SUBSET {"tenant", "guess", "uuid"}, scoped : BOOLEAN,
        parent : {FALSE}, allow : {FALSE}]
ForeignKeyShapes ==
  [kind : {"fk"}, tenant : BOOLEAN, primary : {FALSE}, key : SUBSET {"tenant", "uuid"}, includes : {{}},
   expression : {FALSE}, names : {{}}, scoped : {FALSE}, parent : BOOLEAN, allow : BOOLEAN]
OracleWorlds ==
  LET set(targets) == [targets : targets]
      open == [kind |-> "unique", tenant |-> TRUE, primary |-> FALSE, key |-> {"guess"}, includes |-> {}, expression |-> FALSE,
               names |-> {}, scoped |-> FALSE, parent |-> FALSE, allow |-> FALSE]
  IN  Databases("constraint-oracles", set(Ones(Indexes) \cup Pairs(ForeignKeyShapes, {open, [open EXCEPT !.allow = TRUE]})), {},
                set({<<open>>}))

PlaceShapes == [exists : BOOLEAN, public : BOOLEAN, direct : SUBSET {"app", "anon"}, indirect : SUBSET {"app", "anon"}]
GrantWorlds ==
  LET set(roles, allow, database, targets) == [roles : roles, allow : allow, database : database, targets : targets]
      both == {"app", "anon"}
      shut == [exists |-> TRUE, public |-> FALSE, direct |-> {}, indirect |-> {}]
      open == [shut EXCEPT !.public = TRUE, !.direct = {"anon"}]
      some == {shut, open, [open EXCEPT !.exists = FALSE]}
  IN  Databases("create-grants",
        set({{}, both}, {{}, {"PUBLIC"}}, some, Ones(PlaceShapes)) \cup set({{}, both}, {{}, {"PUBLIC"}}, PlaceShapes, Ones(some)), {},
        set({both}, {{}}, {open}, Pairs({open}, {open, shut})))

PolicyShapes ==
  [table : {1}, permissive : BOOLEAN, cmd : {"SELECT", "UPDATE", "ALL"}, role : {"public", "a", "b"},
   aal : {"no", "requires", "mentions", "hidden"}, allow : {FALSE}]
MfaWorlds ==
  LET set(member, roles, factors, targets) ==
        [member : member, temp : {TRUE}, bypass : {FALSE}, roles : roles, factors : factors, tables : {{1, 2}}, targets : targets]
      gate  == [table |-> 1, permissive |-> TRUE, cmd |-> "SELECT", role |-> "a", aal |-> "requires", allow |-> FALSE]
      gates == {gate, [gate EXCEPT !.role = "public"], [gate EXCEPT !.permissive = FALSE], [gate EXCEPT !.allow = TRUE]}
      grant == [gate EXCEPT !.aal = "no", !.role = "b"]
      named(setup, worlds) == Named("mfa-enforcement", setup, worlds)
  IN  named("ok", set(BOOLEAN, {"ok", "error"}, {"some"}, Pairs(gates, PolicyShapes))
                  \cup set({TRUE}, {"ok"}, {"none", "some", "error"}, Ones(PolicyShapes) \cup {<<>>, <<gate, grant, [gate EXCEPT !.aal = "no", !.table = 2]>>}))
      \cup named("faulty", set({TRUE}, {"ok"}, {"some"}, Pairs(gates, {grant})))

DestinationShapes ==
  [rls : BOOLEAN, select : BOOLEAN, policies : {"all", "other", "none"}, restrictive : BOOLEAN, tenant : BOOLEAN,
   named : {"plainly", "executed", "mentioned", "comment", "unresolved", "assembled"}, own : {FALSE}, allow : {FALSE}]
ShadowWorlds ==
  LET set(tenants, loose, targets) == [tenants : tenants, loose : loose, targets : targets]
      open == [rls |-> FALSE, select |-> TRUE, policies |-> "none", restrictive |-> FALSE, tenant |-> FALSE,
               named |-> "plainly", own |-> FALSE, allow |-> FALSE]
      near == {open, [open EXCEPT !.own = TRUE], [open EXCEPT !.allow = TRUE], [open EXCEPT !.named = "unresolved"],
               [open EXCEPT !.named = "executed"], [open EXCEPT !.named = "mentioned"], [open EXCEPT !.named = "assembled"]}
  IN  Databases("shadow-tables", set({TRUE}, BOOLEAN, Ones(DestinationShapes)) \cup set(BOOLEAN, {FALSE}, Pairs(near, near) \cup {<<>>}), {},
                set({TRUE}, {FALSE}, {<<open>>}))

BleedWorlds ==
  LET set(backends, functions, bodies, release, targets) ==
        [backends : backends, functions : functions, bodies : bodies, release : release, targets : targets]
      shapes(depth, hole, writes, hidden, reset, allow) ==
        [depth : depth, hole : hole, writes : writes, hidden : hidden, reset : reset, allow : allow]
      scopes == SUBSET {"session", "local", "unknown"}
      open   == shapes({0}, {FALSE}, {{"session"}}, {FALSE}, {"none"}, {FALSE})
      own    == shapes({0}, {FALSE}, scopes, BOOLEAN, {"none", "own", "all"}, BOOLEAN)
      deep   == shapes(0..5, BOOLEAN, {{"session"}}, {FALSE}, {"none"}, {FALSE})
      clears == shapes({0}, {FALSE}, {{}}, {FALSE}, {"own", "all"}, BOOLEAN)
      OK     == {"ok"}
      either == {"ok", "error"}
  IN  Databases("pooler-bleed",
        set({1}, OK, OK, BOOLEAN, Ones(own) \cup Pairs(open, clears))
        \cup set({1}, either, either, {FALSE}, Ones(deep) \cup Pairs(deep, open \cup {s \in deep : s.depth = 3})), {},
        set({1, 2}, OK, OK, {FALSE}, Pairs(open, {s \in deep : s.depth = 2})))

-----------------------------------------------------------------------------
\* Foreign keys only, with roles that may not be assumable.
KeysOnly == [g \in Names |-> IF g = "cross-tenant-fk" THEN KeyWorlds ELSE {}]

MCWorlds ==
  [g \in Names |->
     CASE g = "anon-reads"         -> ReadWorlds
       [] g = "anon-writes"        -> WriteWorlds
       [] g = "view-isolation"     -> ViewWorlds
       [] g = "storage-isolation"  -> StorageWorlds
       [] g = "realtime-isolation" -> RealtimeWorlds
       [] g = "definer-rpc"        -> RpcWorlds
       [] g = "identity-trust"     -> IdentityWorlds
       [] g = "column-exposure"    -> ColumnWorlds
       [] g = "trigger-visibility" -> TriggerWorlds
       [] g = "schema-tenancy"     -> SchemaWorlds
       [] g = "default-privileges" -> PrivilegeWorlds
       [] g = "cross-tenant-fk"    -> KeyWorlds
       [] g = "role-capabilities"  -> CapabilityWorlds
       [] g = "constraint-oracles" -> OracleWorlds
       [] g = "create-grants"      -> GrantWorlds
       [] g = "mfa-enforcement"    -> MfaWorlds
       [] g = "shadow-tables"      -> ShadowWorlds
       [] g = "pooler-bleed"       -> BleedWorlds]
=============================================================================
