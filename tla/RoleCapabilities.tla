--------------------------- MODULE RoleCapabilities ---------------------------
(***************************************************************************)
(* The role-capabilities guard: functions that go round every policy (kind *)
(* bypass), functions that call out (egress) and the tables of the auth    *)
(* schema (auth). A function is known by its name, genuine or not; what a  *)
(* grant is worth depends on USAGE of its schema.                          *)
(***************************************************************************)
EXTENDS ProbeGuard

CONSTANT Worlds

Init == Enter(Worlds, [none |-> 0])

Run == Connect \/ Disconnect

-----------------------------------------------------------------------------
Arm(t) == IF t.kind = "auth" THEN "read" ELSE "call"

\* Without USAGE nothing is reachable today; calling out is not a read.
ClassifyCapability(t) == IF t.usage /\ t.kind # "egress" THEN "leak" ELSE "note"

Held(kinds) == {k \in 1..Len(world.targets) :
                  LET t == world.targets[k] IN t.kind \in kinds /\ t.granted /\ ~t.allow}

Classified(kinds) ==
  {[on |-> k, arm |-> Arm(world.targets[k]), says |-> ClassifyCapability(world.targets[k])] : k \in Held(kinds)}

FunctionGrants ==
  Await("plan", FALSE, pg, [To("auth") EXCEPT !.said = @ \cup Classified({"bypass", "egress"})])

\* A check of the auth schema that could not run is noted.
AuthGrants ==
  Attempt("auth", world.auth = "error", pg, [To("close") EXCEPT !.said = @ \cup Classified({"auth"})],
          Said(To("close"), 0, "read", "note"))

Check == FunctionGrants \/ AuthGrants \/ Leave

Next == Run \/ Check

-----------------------------------------------------------------------------
(* What the role can really reach, and where the guard may misjudge it.    *)

Exposed == {[on |-> k, arm |-> Arm(world.targets[k])] : k \in {i \in 1..Len(world.targets) :
              LET t == world.targets[i]
              IN  t.kind # "egress" /\ t.genuine /\ t.granted /\ t.usage /\ ~t.allow}}

\* When the auth schema could not be read, the note is about all its tables.
Blind == {e \in Exposed : e.arm = "read" /\ (world.auth = "error" \/ fault = "lost")}

Provable == Exposed \ Blind

\* Anybody's function of that name.
Spurious == {[on |-> k, arm |-> "call"] : k \in {i \in 1..Len(world.targets) : ~world.targets[i].genuine}}
Fragile  == FALSE

Truth == [exposed |-> Exposed, blind |-> Blind, provable |-> Provable, spurious |-> Spurious, fragile |-> Fragile]
=============================================================================
