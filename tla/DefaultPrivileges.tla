-------------------------- MODULE DefaultPrivileges --------------------------
(***************************************************************************)
(* The default-privileges guard: what the next table would be granted. A   *)
(* target is a schema; `conn` and `other` say what a table made in it by   *)
(* the connection's role, and by another role with default privileges of   *)
(* its own, arrives with: nothing, a grant to some role, one to a role     *)
(* that must fail the run (public), that grant under RLS (guarded), or     *)
(* that it cannot be made (denied).                                        *)
(***************************************************************************)
EXTENDS ProbeGuard

CONSTANT Worlds

Init == Enter(Worlds, [as |-> "conn", others |-> FALSE, scanned |-> FALSE])

Run == Connect \/ Disconnect

-----------------------------------------------------------------------------
Makes == Target[me.loc.as]

ClassifyInherited(made) == CASE made = "public" -> "leak"
                             [] made = "nothing" -> "silent"
                             [] OTHER -> "note"

\* The connection's role first, then the other one, then the next schema.
NextProbe(m) ==
  IF m.loc.as = "conn" /\ m.loc.others THEN [m EXCEPT !.at = "begin", !.loc.as = "other"]
  ELSE [Onward(m) EXCEPT !.loc.as = "conn"]

Concluded(says) == NextProbe(IF says = "silent" THEN me ELSE Said(me, Current, me.loc.as, says))

Unproven == Said(me, Current, me.loc.as, "note")

-----------------------------------------------------------------------------
\* Whether a trigger forces RLS, and who is connected: both only for the wording.
ReadMitigation == Attempt("plan", FALSE, pg, To("whoami"), To("whoami"))
WhoAmI         == Attempt("whoami", FALSE, pg, To("acl"), To("acl"))

\* The other roles to probe as; a catalog that refuses is noted.
DefaultAcl ==
  Attempt("acl", world.oldCatalog, pg, [To("next") EXCEPT !.loc.others = world.others],
          Said(To("next"), 0, "acl", "note"))

NextSchema ==
  /\ me.at = "next"
  /\ Do(pg, IF me.todo # <<>> THEN To("begin")
            ELSE IF me.loc.scanned THEN To("close") ELSE Ending(me, "skip"))

\* MUTANT of Begin: the probe is made outside a transaction.
BeginForgotten == Attempt("begin", FALSE, pg, To(IF me.loc.as = "conn" THEN "create" ELSE "role"), NextProbe(Unproven))

\* A probe table in a transaction of its own, rolled back whatever happens.
Begin == Attempt("begin", FALSE, Began(pg), To(IF me.loc.as = "conn" THEN "create" ELSE "role"), NextProbe(Unproven))

AssumeCreator == Attempt("role", ~world.member, AsRole(pg, "other"), To("create"), [Unproven EXCEPT !.at = "failed"])

ProbeCreate == Attempt("create", Makes = "denied", Made(pg, "table"), To("read"), [Unproven EXCEPT !.at = "failed"])

ProbeAcl == Attempt("read", FALSE, pg, To("undo"), [Unproven EXCEPT !.at = "failed"])

UndoProbe ==
  \/ me.at = "undo" /\ Do(RolledBack(pg), [Concluded(ClassifyInherited(Makes)) EXCEPT !.loc.scanned = TRUE])
  \/ me.at = "failed" /\ Do(RolledBack(pg), NextProbe(me))

Check ==
  \/ ReadMitigation \/ WhoAmI \/ DefaultAcl \/ NextSchema \/ Begin \/ AssumeCreator
  \/ ProbeCreate \/ ProbeAcl \/ UndoProbe

Next == Run \/ Check

-----------------------------------------------------------------------------
(* What is really inherited, and where the guard may miss it.              *)

Exposed == {e \in [on : 1..Len(world.targets), arm : {"conn", "other"}] :
              /\ e.arm = "other" => world.others
              /\ world.targets[e.on][e.arm] = "public"}

\* Without the catalog of defaults the other role is not probed.
Blind == {e \in Exposed : e.arm = "other" /\ (world.oldCatalog \/ fault = "lost")}

Provable == {e \in Exposed \ Blind : e.arm = "other" => world.member}

Spurious == {}
Fragile  == FALSE

Truth == [exposed |-> Exposed, blind |-> Blind, provable |-> Provable, spurious |-> Spurious, fragile |-> Fragile]
=============================================================================
