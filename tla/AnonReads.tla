----------------------------- MODULE AnonReads ------------------------------
(***************************************************************************)
(* The anon-reads guard: which relations the visitor can read. A target is *)
(* a tenant table, a view, a materialized view, or a table without tenant  *)
(* column and without RLS ("plain"); `rows` is what the connection's own   *)
(* role finds in it and `anon` what the visitor finds.                     *)
(***************************************************************************)
EXTENDS ProbeGuard

CONSTANT Worlds

Init == Enter(Worlds, [canary |-> FALSE, plan |-> <<>>, unread |-> {}, empty |-> {}, seen |-> FALSE])

Run == Connect \/ Disconnect

-----------------------------------------------------------------------------
\* The grant alone settles a table without RLS, and any relation without grant.
Structural(t) == t.kind = "plain" \/ (t.kind = "table" /\ ~t.rls)
Asked(t)      == t.grant /\ ~Structural(t)

\* classifyRead; nothing is said of a relation that is safe.
ClassifyRead(t, empty, seen) ==
  IF ~t.grant THEN "silent"
  ELSE IF Structural(t) \/ seen THEN "leak"
  ELSE IF empty THEN "note" ELSE "clear"

Answer(t, k, seen) ==
  LET says == ClassifyRead(t, k \in me.loc.empty, seen)
  IN  Onward(IF says = "silent" THEN me ELSE Said(me, k, "read", says))

-----------------------------------------------------------------------------
PlanRelations == Await("plan", FALSE, pg, IF world.anonRole THEN To("unprotected") ELSE Ending(me, "skip"))

\* Tables with RLS off and no tenant column; a catalog that refuses is ignored.
UnprotectedTables ==
  LET others == {k \in 1..Len(world.targets) : world.targets[k].kind # "plain"}
      plan(todo) == [Planned(todo) EXCEPT !.loc.plan = todo]
  IN  Attempt("unprotected", world.oldCatalog, pg, plan(me.todo), plan(Kept(others)))

Begin == Await("begin", FALSE, Began(pg), To("surface"))

\* First pass, with the connection's rights: the grant, and whether there is a row.
NextSurface ==
  \/ me.at = "surface" /\ me.todo = <<>> /\ Do(pg, [To("canary") EXCEPT !.todo = me.loc.plan])
  \/ me.todo # <<>> /\ Await("surface", FALSE, Saved(pg), To("facts"))

ReadSurface ==
  LET on == [me EXCEPT !.todo = Tail(@), !.at = "surface"]
  IN  Guarded("facts", Asked(Target) /\ Target.rows = "unreadable", Released(pg),
        IF Asked(Target) /\ Target.rows = "none" THEN [on EXCEPT !.loc.empty = @ \cup {Current}] ELSE on,
        [on EXCEPT !.loc.unread = @ \cup {Current}])

SelfCheck == CreateCanary("role") \/ SwitchRole("check") \/ CheckCanary("next")

\* Second pass, as the visitor.
NextRelation ==
  /\ me.at = "next"
  /\ IF me.todo = <<>> THEN Do(pg, To("finally"))
     ELSE IF Current \in me.loc.unread THEN Do(pg, Onward(Said(me, Current, "read", "note")))
     ELSE IF Asked(Target) THEN Await("next", FALSE, Saved(pg), To("count"))
     ELSE Do(pg, Answer(Target, Current, FALSE))

\* MUTANT of CountVisible: an error of the count is not caught.
CountUncaught ==
  Await("count", Target.anon = "error", pg, [To("undo") EXCEPT !.loc.seen = Target.anon = "some"])

\* Any error counts as no row seen.
CountVisible ==
  Attempt("count", Target.anon = "error", pg,
          [To("undo") EXCEPT !.loc.seen = Target.anon = "some"],
          [To("undo") EXCEPT !.loc.seen = FALSE])

UndoProbe == Undo("undo", Answer(Target, Current, me.loc.seen))

Check ==
  \/ PlanRelations \/ UnprotectedTables \/ Begin \/ NextSurface \/ ReadSurface \/ SelfCheck
  \/ NextRelation \/ CountVisible \/ UndoProbe \/ RollBack("close")

Next == Run \/ Check

-----------------------------------------------------------------------------
(* What is really exposed, and where the guard may miss it.                *)

Exposed == {[on |-> k, arm |-> "read"] : k \in {i \in 1..Len(world.targets) :
              LET t == world.targets[i] IN t.grant /\ (Structural(t) \/ t.anon = "some")}}

\* A read that was cancelled counts as none; the plain tables need their query.
Blind == {e \in Exposed :
            \/ fault = "cancelled" /\ Asked(world.targets[e.on])
            \/ world.oldCatalog /\ world.targets[e.on].kind = "plain"}

Provable == {e \in Exposed \ Blind : Asked(world.targets[e.on]) => world.targets[e.on].rows # "unreadable"}

Spurious == {}
Fragile  == ~world.temp \/ ~world.member

Truth == [exposed |-> Exposed, blind |-> Blind, provable |-> Provable, spurious |-> Spurious, fragile |-> Fragile]
=============================================================================
