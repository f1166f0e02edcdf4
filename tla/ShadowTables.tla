----------------------------- MODULE ShadowTables -----------------------------
(***************************************************************************)
(* The shadow-tables guard: tables a trigger on a tenant table writes to.  *)
(* A target is one such table: how the trigger's body names it, and what   *)
(* protects it there. A body names a table `plainly` in a write, in a string *)
(* it has `executed`, or in a write that is only `mentioned` and never done (a *)
(* message, a disabled trigger, a branch that is never taken); it may name it *)
(* only in a `comment`, or so that it is `unresolved` to any table; and a name *)
(* may be `assembled` at run time, so that the body has no write with it. The *)
(* policies are `all` (a policy USING true), `other` (policies of any other *)
(* sort: world.loose says that they let every row through) or `none`.      *)
(***************************************************************************)
EXTENDS ProbeGuard

CONSTANT Worlds

Init == Enter(Worlds, [none |-> 0])

Run == Connect \/ Disconnect

-----------------------------------------------------------------------------
\* Comments are blanked and strings kept, whatever they are for; the trigger's
\* own table is left out.
WriteTargets ==
  {k \in 1..Len(world.targets) :
     LET t == world.targets[k]
     IN  t.named \in {"plainly", "executed", "mentioned", "unresolved"} /\ ~t.own /\ ~t.allow}

Resolved == {k \in WriteTargets : world.targets[k].named # "unresolved"}

ClassifyDestination(t) ==
  LET decorative == t.rls /\ t.policies = "all" /\ ~t.restrictive
  IN  IF ~t.select \/ (t.rls /\ t.tenant) THEN "safe"
      ELSE IF decorative THEN "leak"
      ELSE IF t.rls THEN (IF t.policies = "none" THEN "safe" ELSE "note")
      ELSE "leak"

TenantTables == Await("plan", FALSE, pg, IF world.tenants THEN To("triggers") ELSE Ending(me, "skip"))

Triggers ==
  Await("triggers", FALSE, pg,
    IF me.todo = <<>> THEN Ending(me, "skip") ELSE IF WriteTargets = {} THEN To("close") ELSE To("tables"))

\* One answer for all that no table has the name of.
Destinations ==
  Await("tables", FALSE, pg,
    [To("close") EXCEPT !.said =
       {[on |-> k, arm |-> "rows", says |-> ClassifyDestination(world.targets[k])] :
          k \in {j \in Resolved : ClassifyDestination(world.targets[j]) # "safe"}}
       \cup {[on |-> 0, arm |-> "names", says |-> "note"] : k \in WriteTargets \ Resolved}])

Check == TenantTables \/ Triggers \/ Destinations \/ Leave

Next == Run \/ Check

-----------------------------------------------------------------------------
(* Where the rows of every tenant can really be read.                      *)

Protected(t) == t.rls /\ (t.policies = "none" \/ t.restrictive \/ (t.policies = "other" /\ ~world.loose))

\* Tables open to read that a body names in one of these ways.
Readable(names) ==
  {[on |-> k, arm |-> "rows"] : k \in {i \in 1..Len(world.targets) :
     LET t == world.targets[i]
     IN  world.tenants /\ t.named \in names /\ ~t.own /\ ~t.allow /\ t.select /\ ~Protected(t)}}

Exposed == Readable({"plainly", "executed", "assembled", "unresolved"})

\* A name put together at run time or one the guard could not resolve; a table
\* with row level security and a tenant column is left to rls-proof.
Blind == {e \in Exposed : LET t == world.targets[e.on] IN t.named \in {"assembled", "unresolved"} \/ (t.rls /\ t.tenant)}

Provable == {e \in Exposed \ Blind : LET t == world.targets[e.on] IN t.rls => t.policies = "all"}

\* No tenant's row comes to a table that is named in a write nothing executes.
Spurious == Readable({"mentioned"})
Fragile  == FALSE

Truth == [exposed |-> Exposed, blind |-> Blind, provable |-> Provable, spurious |-> Spurious, fragile |-> Fragile]
=============================================================================
