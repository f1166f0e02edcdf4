---------------------------- MODULE CrossTenantFk ----------------------------
(***************************************************************************)
(* The cross-tenant-fk guard: foreign keys between tenant tables that do   *)
(* not carry the tenant. A target is a foreign key: whether both ends have *)
(* a tenant column (`tenants`) and the key carries it, whether it has more *)
(* than one column, whether rows already cross, whether there is a parent  *)
(* row and a child of a second tenant, what that tenant sees of its own    *)
(* rows (own) and what re-pointing them does (write).                      *)
(***************************************************************************)
EXTENDS ProbeGuard

CONSTANT Worlds

Init == Enter(Worlds, [probe |-> "unknown", gone |-> FALSE])

Run == Connect \/ Disconnect

-----------------------------------------------------------------------------
CandidateFk(f) == f.tenants /\ ~f.carries

Candidates == {k \in 1..Len(world.targets) : CandidateFk(world.targets[k])}

\* classifyFk of the probe; a refusal and a miss are passes of which nothing is said.
ClassifyFk(probe) == CASE probe = "landed"                 -> "leak"
                       [] probe \in {"blocked", "nomatch"} -> "clear"
                       [] OTHER                            -> "note"

Answered(says) == [Onward(Said(me, Current, "key", says)) EXCEPT !.loc.probe = "unknown"]

\* A permission error anywhere in the probe is a refusal of the write.
Caught(denied) == [To("undo") EXCEPT !.loc.probe = IF denied /\ Live THEN "blocked" ELSE "unknown"]

-----------------------------------------------------------------------------
PlanKeys == Await("plan", FALSE, pg, IF Candidates = {} THEN Ending(me, "skip")
                                     ELSE [To("next") EXCEPT !.todo = Kept(Candidates)])

NextKey ==
  /\ me.at = "next"
  /\ Do(pg, IF me.todo = <<>> THEN To("close")
            ELSE IF Target.composite THEN Answered("note") ELSE To("existing"))

\* With the connection's rights: rows that already cross, a parent row, another tenant.
ExistingRows ==
  Attempt("existing", Target.existing = "error", pg,
          IF Target.existing = "some" THEN Answered("leak") ELSE To("target"),
          Said(To("target"), Current, "existing", "note"))

ParentTarget == Attempt("target", FALSE, pg, IF Target.parent THEN To("other") ELSE Answered("note"), Answered("note"))

OtherChildTenant == Attempt("other", FALSE, pg, IF Target.second THEN To("begin") ELSE Answered("note"), Answered("note"))

\* Another session deletes the parent row that was found.
Vanish ==
  /\ me.at \in {"begin", "role", "become", "own", "repoint"}
  /\ world.vanish /\ ~me.loc.gone
  /\ Do(pg, [me EXCEPT !.loc.gone = TRUE])

Begin == Attempt("begin", FALSE, Began(pg), To("role"), Answered("note"))

Impersonate ==
  \/ Attempt("role", ~world.member, AsRole(pg, "app"), To("become"), Caught(TRUE))
  \/ Attempt("become", world.hook = "fails", Acting(pg, IF world.hook = "other" THEN pg.who ELSE "B"),
             To("own"), Caught(FALSE))

\* The control: without rows of its own the session has nothing to re-point.
OwnRows ==
  LET sees == Target.own = "all" \/ (Target.own = "rows" /\ pg.who = "B")
  IN  Attempt("own", Target.own = "denied", pg, IF sees THEN To("repoint") ELSE To("undo"), To("undo"))

Repoint ==
  LET lands == Target.write = "lands" /\ ~me.loc.gone
  IN  Attempt("repoint", ~lands /\ Target.write # "none", pg,
        [To("undo") EXCEPT !.loc.probe = IF lands THEN "landed" ELSE "nomatch"],
        Caught(Target.write = "denied"))

UndoProbe == me.at = "undo" /\ Do(RolledBack(pg), Answered(ClassifyFk(me.loc.probe)))

Check ==
  \/ PlanKeys \/ NextKey \/ ExistingRows \/ ParentTarget \/ OtherChildTenant \/ Vanish \/ Begin
  \/ Impersonate \/ OwnRows \/ Repoint \/ UndoProbe \/ RollBack("close")

Next == Run \/ Check

-----------------------------------------------------------------------------
(* What can really cross, and where the guard may miss it.                 *)

Crosses(f) ==
  \/ f.existing = "some"
  \/ f.parent /\ f.second /\ f.own \in {"rows", "all"} /\ f.write = "lands"

Exposed == {[on |-> k, arm |-> "key"] : k \in {j \in Candidates : Crosses(world.targets[j])}}

\* A role that may not be assumed reads as a refused write; rows that cross already
\* are seen without it.
Blind == {e \in Exposed : ~world.member /\ world.targets[e.on].existing # "some"}

Provable == {e \in Exposed :
               LET f == world.targets[e.on]
               IN  /\ ~f.composite
                   /\ f.existing = "some" \/ (world.member /\ ~world.vanish /\
                                              (world.hook = "own" \/ (world.hook = "other" /\ f.own = "all")))}

Spurious == {}
Fragile  == FALSE

Truth == [exposed |-> Exposed, blind |-> Blind, provable |-> Provable, spurious |-> Spurious, fragile |-> Fragile]
=============================================================================
