--------------------------- MODULE ColumnExposure ---------------------------
(***************************************************************************)
(* The column-exposure guard: relations without tenant column whose        *)
(* sensitive columns the visitor can read. `read` is what a sample of them *)
(* yields: values, nulls (or no row), denied, error.                       *)
(***************************************************************************)
EXTENDS ProbeGuard

CONSTANT Worlds

Init == Enter(Worlds, [plan |-> <<>>])

Run == Connect \/ Disconnect

-----------------------------------------------------------------------------
\* planRelations: those with a tenant column are left to other guards.
Planable(t)  == t.sensitive /\ ~t.tenant
HandedOff    == {k \in 1..Len(world.targets) : world.targets[k].sensitive /\ world.targets[k].tenant}

HandOff(m) == IF HandedOff = {} THEN m ELSE Said(m, 0, "handoff", "note")

ClassifyExposure(read) == IF read = "values" THEN "leak" ELSE "note"

-----------------------------------------------------------------------------
PlanRelations ==
  LET plan == {k \in 1..Len(world.targets) : Planable(world.targets[k])}
  IN  Await("plan", FALSE, pg,
        IF ~world.anonRole THEN Ending(me, "skip")
        ELSE IF plan = {} THEN HandOff(To("close"))
        ELSE [To("grants") EXCEPT !.todo = Kept(plan)])

\* Who holds each SELECT, for the wording of the fix.
GrantPaths == Await("grants", FALSE, pg, To("begin"))

Begin == Await("begin", FALSE, Began(pg), To("role"))

\* A role that cannot be assumed is a skip, said out loud.
AssumeRole ==
  Attempt("role", ~world.member, AsRole(pg, "app"), To("next"),
          [To("finally") EXCEPT !.result = "skip"])

NextRelation ==
  \/ me.at = "next" /\ me.todo = <<>> /\ Do(pg, To("finally"))
  \/ me.todo # <<>> /\ Await("next", FALSE, Saved(pg), To("probe"))

\* Any error is a relation that cannot be reached, of which nothing is said.
ProbeRelation ==
  Guarded("probe", Target.read \in {"denied", "error"}, Released(pg),
          Onward(Said(me, Current, "columns", ClassifyExposure(Target.read))), Onward(me))

Finish ==
  /\ me.at = "handoff"
  /\ Do(pg, IF me.result = "skip" THEN To("close") ELSE HandOff(To("close")))

Check ==
  \/ PlanRelations \/ GrantPaths \/ Begin \/ AssumeRole \/ NextRelation \/ ProbeRelation
  \/ RollBack("handoff") \/ Finish

Next == Run \/ Check

-----------------------------------------------------------------------------
(* What is really exposed, and where the guard may miss it.                *)

Exposed == {[on |-> k, arm |-> "columns"] : k \in {i \in 1..Len(world.targets) :
              Planable(world.targets[i]) /\ world.targets[i].read = "values"}}

\* A probe that was cut short reads as a relation out of reach.
Blind == IF fault = "none" THEN {} ELSE Exposed

Provable == Exposed
Spurious == {}
Fragile  == FALSE

Truth == [exposed |-> Exposed, blind |-> Blind, provable |-> Provable, spurious |-> Spurious, fragile |-> Fragile]
=============================================================================
