----------------------------- MODULE DefinerRpc -----------------------------
(***************************************************************************)
(* The definer-rpc guard: what the SECURITY DEFINER functions hand out. A  *)
(* target is a function: whether the role may execute it, what it does     *)
(* with dynamic SQL (`body`: injectable, unmapped, bound), its search path *)
(* (`pinned`, `path`) and own schema (`home`), whether it is volatile and  *)
(* smells, its arguments (none, tenant, other), and what a call for        *)
(* another tenant and for one that cannot exist return (`foreign`,         *)
(* `control`: some, none, denied, error). `samples` is, table by table,    *)
(* whether two tenants were found.                                         *)
(***************************************************************************)
EXTENDS ProbeGuard

CONSTANT Worlds

Init == Enter(Worlds, [canary |-> FALSE, two |-> FALSE, tables |-> world.samples, writable |-> {}])

Run == Connect \/ Disconnect

-----------------------------------------------------------------------------
(* The body checks.                                                        *)

\* The walk along a pinned path: up to the function's own schema, through
\* pg_catalog and writable schemas, no further than the first other one.
BeforeHome(f) == {i \in 1..Len(f.path) : \A j \in 1..i : f.path[j] # f.home}

ShadowableSchemas(f, writable) ==
  {i \in BeforeHome(f) : f.path[i] \in writable /\ \A j \in 1..(i - 1) : f.path[j] \in writable \cup {"pg_catalog"}}

Names(f, schema)         == \E i \in 1..Len(f.path) : f.path[i] = schema
TemporarilyShadowable(f) == f.path # <<>> /\ ~Names(f, "pg_temp")

\* An unpinned path fails the run only with a schema to plant in.
ClassifyPath(f, writable) ==
  IF f.pinned THEN IF ShadowableSchemas(f, writable) # {} \/ TemporarilyShadowable(f) THEN {"leak"} ELSE {}
  ELSE IF writable # {} THEN {"leak"} ELSE {"note"}

DynamicSqlInjection(f) ==
  CASE f.body = "injectable" -> {"leak"} [] f.body = "unmapped" -> {"note"} [] OTHER -> {}

BodyChecks(m, k, f) ==
  IF ~f.canExecute THEN m
  ELSE [m EXCEPT !.said = @ \cup [on : {k}, arm : {"sql"}, says : DynamicSqlInjection(f)]
                           \cup [on : {k}, arm : {"path"}, says : ClassifyPath(f, m.loc.writable)]]

-----------------------------------------------------------------------------
(* The calls.                                                              *)

PlanCall(f) == f.args \in {"none", "tenant"}

Callable(f) == f.canExecute /\ ~f.volatile /\ PlanCall(f) /\ me.loc.two

\* A volatile function is never called; the others that are not leave a note.
NotCalled(m, k, f) ==
  IF ~f.canExecute \/ (f.volatile /\ ~f.smell) THEN m ELSE Said(m, k, "rows", "note")

-----------------------------------------------------------------------------
PlanFunctions == Await("plan", FALSE, pg, IF world.targets = <<>> THEN Ending(me, "skip") ELSE To("sample"))

\* Two tenants from the first table that has them; an error moves on.
SampleTenants ==
  LET s == Head(me.loc.tables)
      on == [me EXCEPT !.loc.tables = Tail(@)]
  IN  \/ me.at = "sample" /\ me.loc.tables = <<>> /\ Do(pg, To("schemas"))
      \/ /\ me.loc.tables # <<>>
         /\ Attempt("sample", s = "error", pg,
                    IF s = "two" THEN [To("schemas") EXCEPT !.loc.two = TRUE] ELSE on, on)

\* Optional, like the reads of TEMP and of the relations, which serve the wording.
WritableSchemas ==
  Attempt("schemas", world.oldCatalog, pg, [To("begin") EXCEPT !.loc.writable = world.writable], To("begin"))

Begin == Await("begin", FALSE, Began(pg), To("canary"))

SelfCheck == CreateCanary("role") \/ SwitchRole("check") \/ CheckCanary("become")

BecomeTenant ==
  \/ me.at = "become" /\ ~me.loc.two /\ Do(pg, To("next"))
  \/ me.loc.two /\ Await("become", FALSE, Acting(pg, "A"), To("next"))

NextFunction ==
  /\ me.at = "next"
  /\ IF me.todo = <<>> THEN Do(pg, To("finally"))
     ELSE LET m == BodyChecks(me, Current, Target)
          IN  IF Callable(Target) THEN Await("next", FALSE, Saved(pg), [m EXCEPT !.at = "call"])
              ELSE Do(pg, Onward(NotCalled(m, Current, Target)))

\* With another tenant's id, or without argument and counting foreign rows.
\* A refusal is no finding, any other error a note.
CallFunction ==
  Guarded("call", Target.foreign \in {"denied", "error"}, Released(pg),
    IF Target.foreign = "none" THEN Onward(Said(me, Current, "rows", "clear"))
    ELSE IF Target.args = "tenant" THEN To("control")
    ELSE Onward(Said(me, Current, "rows", "leak")),
    Onward(IF Live /\ Target.foreign = "denied" THEN me ELSE Said(me, Current, "rows", "note")))

ControlArm == Await("control", FALSE, Saved(pg), To("sentinel"))

\* It only tells which kind of leak; losing it must not lose the leak.
CallWithSentinel ==
  LET leak == Said(me, Current, "rows", "leak")
  IN  Guarded("sentinel", Target.control \in {"denied", "error"}, Released(pg),
              Onward(leak), Onward(Said(leak, Current, "control", "note")))

Check ==
  \/ PlanFunctions \/ SampleTenants \/ WritableSchemas \/ Begin \/ SelfCheck \/ BecomeTenant
  \/ NextFunction \/ CallFunction \/ ControlArm \/ CallWithSentinel \/ RollBack("close")

Next == Run \/ Check

-----------------------------------------------------------------------------
(* What is really exposed, and where the guard may miss it. The objects a  *)
(* body names are taken to be in the function's own schema: whatever can   *)
(* be planted before it hijacks the name, and pg_temp comes first of all   *)
(* unless the path says otherwise.                                         *)

Hijackable(f) ==
  \/ ~f.pinned \/ ~Names(f, "pg_temp")
  \/ \E i \in BeforeHome(f) : f.path[i] \in world.writable \cup {"pg_temp"}

Exposed ==
  LET f(k)   == world.targets[k]
      May    == {k \in 1..Len(world.targets) : f(k).canExecute}
  IN  [on : {k \in May : Hijackable(f(k))}, arm : {"path"}]
      \cup [on : {k \in May : f(k).body = "injectable"}, arm : {"sql"}]
      \cup [on : {k \in May : f(k).foreign = "some"}, arm : {"rows"}]

\* A volatile body is judged by its words; a pin that names pg_temp early, or a
\* writable schema behind another one, is taken for a good one.
Blind ==
  {e \in Exposed : LET f == world.targets[e.on]
                   IN  \/ e.arm = "rows" /\ f.volatile /\ ~f.smell
                       \/ e.arm = "path" /\ f.pinned /\ ~TemporarilyShadowable(f)
                            /\ (world.oldCatalog \/ ShadowableSchemas(f, world.writable) = {})}

Provable ==
  {e \in Exposed \ Blind : LET f == world.targets[e.on]
                           IN  /\ e.arm = "path" /\ ~f.pinned => world.writable # {} /\ ~world.oldCatalog
                               /\ e.arm = "rows" => /\ ~f.volatile /\ PlanCall(f)
                                                    /\ \E i \in 1..Len(world.samples) : world.samples[i] = "two"}

Spurious == {}

Fragile == ~world.temp \/ ~world.member

Truth == [exposed |-> Exposed, blind |-> Blind, provable |-> Provable, spurious |-> Spurious, fragile |-> Fragile]
=============================================================================
