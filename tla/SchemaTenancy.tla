---------------------------- MODULE SchemaTenancy ----------------------------
(***************************************************************************)
(* The schema-tenancy guard: one schema per tenant, and a role that should *)
(* reach one of them. A target is a schema: `shape` the names of its       *)
(* tables, `usable` the USAGE privilege of the application role, `tries`   *)
(* its tables in the order they are probed, each with the SELECT privilege *)
(* the catalog reports (`grant`) and what a read does (ok, denied, error). *)
(***************************************************************************)
EXTENDS ProbeGuard

CONSTANT Worlds

ProbesPerSchema == 3

Init == Enter(Worlds, [tried |-> 0, refused |-> FALSE, reached |-> {}])

Run == Connect \/ Disconnect

-----------------------------------------------------------------------------
Schemas == 1..Len(world.targets)

\* Schemas of one shape are taken for tenants, or those the configuration names.
Alike(a, b) == IF world.pattern THEN world.targets[a].named /\ world.targets[b].named
               ELSE world.targets[a].shape = world.targets[b].shape

Groups == {g \in SUBSET Schemas :
             /\ Cardinality(g) >= 2
             /\ \A a \in g : g = {b \in Schemas : Alike(a, b)}}

\* Shapes that share at least half of their tables, but not all.
NearMiss(a, b) ==
  LET s == world.targets[a].shape
      t == world.targets[b].shape
      most == IF Cardinality(s) > Cardinality(t) THEN Cardinality(s) ELSE Cardinality(t)
  IN  s # t /\ s \cap t # {} /\ 2 * Cardinality(s \cap t) >= most

NearMissPairs ==
  IF world.pattern THEN {}
  ELSE {p \in Schemas \X Schemas : p[1] < p[2] /\ p[1] \notin UNION Groups /\ p[2] \notin UNION Groups
                                     /\ NearMiss(p[1], p[2])}

\* A group goes by its first schema.
First(g) == CHOOSE k \in g : \A j \in g : k <= j

\* MUTANT of ClassifySchemaReach: one schema is taken for several.
ReachesOne(g, reached) == Cardinality(g \cap reached) >= 1

\* One role that reaches two schemas of a group is not scoped to one tenant.
ClassifySchemaReach(g, reached) == Cardinality(g \cap reached) >= 2

-----------------------------------------------------------------------------
\* Shapes, groups, and what the role may use in them.
PlanSchemas ==
  LET notes  == [on : {p[1] : p \in NearMissPairs}, arm : {"near"}, says : {"note"}]
      usable == {k \in UNION Groups : world.targets[k].usable}
      several == IF Cardinality(Groups) > 1 THEN [on : {0}, arm : {"groups"}, says : {"note"}] ELSE {}
  IN  Await("plan", FALSE, pg,
        IF Groups = {} THEN Ending([me EXCEPT !.said = notes], "skip")
        ELSE [me EXCEPT !.said = notes \cup several, !.todo = Kept(usable), !.at = "begin"])

Begin == Await("begin", FALSE, Began(pg), To("role"))

\* Up to three tables are tried, the privileged ones first, until one is read.
Attempts == IF Len(Target.tries) < ProbesPerSchema THEN Len(Target.tries) ELSE ProbesPerSchema

NextSchema(m) == [Onward(m) EXCEPT !.loc.tried = 0, !.loc.refused = FALSE]

NextAttempt ==
  \/ me.at = "next" /\ me.todo = <<>> /\ Do(pg, To("reset"))
  \/ /\ me.at = "next" /\ me.todo # <<>> /\ me.loc.tried = Attempts
     /\ Do(pg, NextSchema(IF me.loc.refused THEN Said(me, Current, "disagrees", "note") ELSE me))
  \/ /\ me.todo # <<>> /\ me.loc.tried < Attempts
     /\ Await("next", FALSE, Saved(pg), [To("probe") EXCEPT !.loc.tried = @ + 1])

ProbeTable ==
  LET try      == Target.tries[me.loc.tried]
      missed   == IF Live /\ try.read = "denied"
                    THEN [To("next") EXCEPT !.loc.refused = @ \/ try.grant]
                    ELSE Said(To("next"), Current, "probe", "note")
  IN  Guarded("probe", try.read # "ok", Released(pg),
              NextSchema([me EXCEPT !.loc.reached = @ \cup {Current}]), missed)

ResetRole == Await("reset", FALSE, AsRole(pg, "conn"), To("finally"))

\* One verdict per group, after the transaction.
ClassifyGroups ==
  /\ me.at = "judge"
  /\ LET hit  == {g \in Groups : ClassifySchemaReach(g, me.loc.reached)}
         said == me.said \cup [on : {First(g) : g \in hit}, arm : {"reach"}, says : {"leak"}]
     IN  Do(pg, [To("close") EXCEPT !.said =
           IF me.loc.reached = {} THEN said \cup [on : {0}, arm : {"reach"}, says : {"note"}] ELSE said])

Check ==
  \/ PlanSchemas \/ Begin \/ SwitchRole("next") \/ NextAttempt \/ ProbeTable \/ ResetRole
  \/ RollBack("judge") \/ ClassifyGroups

Next == Run \/ Check

-----------------------------------------------------------------------------
(* What is really reachable, and where the guard may miss it.              *)

Reach(k, upto) ==
  LET t == world.targets[k]
  IN  t.usable /\ \E i \in 1..upto : i <= Len(t.tries) /\ t.tries[i].read = "ok"

Reached(g, upto) == Cardinality({k \in g : Reach(k, upto)}) >= 2

Exposed == {[on |-> First(g), arm |-> "reach"] : g \in {h \in Groups : Reached(h, 4)}}

\* Only so many tables are tried, and a failed try is a note on the schema.
Blind == {e \in Exposed : ~(\E g \in Groups : e.on \in g /\ Reached(g, ProbesPerSchema)) \/ fault = "cancelled"}

Provable == Exposed \ Blind
Spurious == {}
Fragile  == ~world.member

Truth == [exposed |-> Exposed, blind |-> Blind, provable |-> Provable, spurious |-> Spurious, fragile |-> Fragile]
=============================================================================
