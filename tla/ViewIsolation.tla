---------------------------- MODULE ViewIsolation ----------------------------
(***************************************************************************)
(* The view-isolation guard: views and materialized views with a tenant    *)
(* column. `tenants` is what the connection's own role finds (one, two, or *)
(* unreadable), `reads` what the application role finds: denied, nothing,  *)
(* own rows, all rows, or down (B also finds A's rows).                    *)
(***************************************************************************)
EXTENDS ProbeGuard

CONSTANT Worlds

Init == Enter(Worlds, [canary |-> FALSE, plan |-> <<>>, unread |-> {}, own |-> FALSE, cross |-> FALSE])

Run == Connect \/ Disconnect

-----------------------------------------------------------------------------
Becomes(x) == IF world.hook = "other" THEN pg.who ELSE x

\* Does the session find a row of that tenant in the view?
Finds(v, who, tenant) ==
  \/ v.reads = "all"
  \/ v.reads \in {"own", "down"} /\ who = tenant
  \/ v.reads = "down" /\ who = "B"

ClassifyViewResult(own, cross) ==
  IF cross THEN "leak" ELSE IF own THEN "clear" ELSE "note"

-----------------------------------------------------------------------------
PlanViews == Await("plan", FALSE, pg, [Planned(me.todo) EXCEPT !.loc.plan = me.todo])

Begin == Await("begin", FALSE, Began(pg), To("surface"))

\* First pass, with the connection's rights: the tenants in each view and, for
\* an ordinary one, the views below it, which only word the explanation.
NextSurface ==
  \/ me.at = "surface" /\ me.todo = <<>> /\ Do(pg, [To("canary") EXCEPT !.todo = me.loc.plan])
  \/ me.todo # <<>> /\ Await("surface", FALSE, Saved(pg), To("tenants"))

Surfaced(m) == [m EXCEPT !.todo = Tail(@), !.at = "surface"]

DistinctTenants ==
  LET after(m) == IF Target.mat THEN Surfaced(m) ELSE [m EXCEPT !.at = "deps"]
  IN  Guarded("tenants", Target.tenants = "unreadable", Released(pg), after(me),
              after([me EXCEPT !.loc.unread = @ \cup {Current}]))

NestedViewDeps ==
  \/ Await("deps", FALSE, Saved(pg), To("nested"))
  \/ Guarded("nested", FALSE, Released(pg), Surfaced(me), Surfaced(me))

SelfCheck == CreateCanary("role") \/ SwitchRole("check") \/ CheckCanary("next")

\* Second pass: the application, first as A and then as B, in one savepoint.
NextView ==
  /\ me.at = "next"
  /\ IF me.todo = <<>> THEN Do(pg, To("finally"))
     ELSE IF Current \in me.loc.unread \/ Target.tenants = "one"
       THEN Do(pg, Onward(Said(me, Current, "tenant", "note")))
     ELSE Await("next", FALSE, Saved(pg), To("forward"))

\* MUTANT of Unproven: the views that are left are not probed.
UnprovenAndOver == [Onward(Said(me, Current, "tenant", "note")) EXCEPT !.at = "finally"]

\* A view whose probe raised is noted, and the next one's turn comes.
Unproven == Onward(Said(me, Current, "tenant", "note"))

ProbeForward ==
  LET who == Becomes("A")
  IN  Guarded("forward", world.hook = "fails" \/ Target.reads = "denied", Acting(pg, who),
        [To("reverse") EXCEPT !.loc.own = Finds(Target, who, "A"), !.loc.cross = Finds(Target, who, "B")],
        Unproven)

\* MUTANT of ProbeReverse: only A is asked.
ReverseForgotten ==
  Guarded("reverse", FALSE, Released(pg),
    Onward(Said(me, Current, "tenant", ClassifyViewResult(me.loc.own, me.loc.cross))), Unproven)

ProbeReverse ==
  LET who   == Becomes("B")
      cross == me.loc.cross \/ Finds(Target, who, "A")
  IN  Guarded("reverse", FALSE, Released(Acting(pg, who)),
        Onward(Said(me, Current, "tenant", ClassifyViewResult(me.loc.own, cross))),
        Unproven)

Check ==
  \/ PlanViews \/ Begin \/ NextSurface \/ DistinctTenants \/ NestedViewDeps \/ SelfCheck
  \/ NextView \/ ProbeForward \/ ProbeReverse \/ RollBack("close")

Next == Run \/ Check

-----------------------------------------------------------------------------
(* What is really exposed, and what may stop the guard.                    *)

Exposed == {[on |-> k, arm |-> "tenant"] : k \in {i \in 1..Len(world.targets) :
              LET v == world.targets[i]
              IN  v.tenants # "one" /\ (v.reads = "all" \/ (v.reads = "down" /\ world.hook # "other"))}}

Blind == {}

Provable == {e \in Exposed : world.targets[e.on].tenants = "two" /\ world.hook # "fails"}

Spurious == {}
Fragile  == ~world.temp \/ ~world.member

Truth == [exposed |-> Exposed, blind |-> Blind, provable |-> Provable, spurious |-> Spurious, fragile |-> Fragile]
=============================================================================
