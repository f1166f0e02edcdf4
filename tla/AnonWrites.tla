----------------------------- MODULE AnonWrites -----------------------------
(***************************************************************************)
(* The anon-writes guard: which tables and views the visitor can write. A  *)
(* target says for UPDATE and DELETE what a whole-relation statement of    *)
(* the visitor does: nogrant, nocol (no column to write back), none (no    *)
(* row passes), denied, rows, key (a constraint stops rows that passed),   *)
(* error (anything else); `insert` is the grant, `open` whether a policy   *)
(* lets an insert pass.                                                    *)
(***************************************************************************)
EXTENDS ProbeGuard

CONSTANT Worlds

Init == Enter(Worlds, [canary |-> FALSE, cmd |-> "UPDATE"])

Run == Connect \/ Disconnect

-----------------------------------------------------------------------------
Commands == {"INSERT", "UPDATE", "DELETE"}

Effect(t, cmd) == CASE cmd = "UPDATE" -> t.update
                    [] cmd = "DELETE" -> t.delete
                    [] cmd = "INSERT" -> IF ~t.insert THEN "nogrant" ELSE IF t.open THEN "rows" ELSE "denied"

GrantedWrites(t) == {c \in Commands : Effect(t, c) # "nogrant"}

\* A view is worth a probe when writes pass through it as its owner.
PlanViewSurface(t) == t.updatable /\ ~t.invoker /\ GrantedWrites(t) # {}

Probes(t, cmd) == Effect(t, cmd) \notin {"nogrant", "nocol"}

\* A denial is the policy at work, a violated constraint proves the row passed it.
ProbeSays(effect) == CASE effect \in {"rows", "key"}    -> "leak"
                       [] effect \in {"none", "denied"} -> "clear"
                       [] OTHER                         -> "note"

Recorded(t, k, cmd, says) ==
  IF t.view /\ says = "note" THEN me ELSE Said(me, k, cmd, says)

-----------------------------------------------------------------------------
PlanSurface == Await("plan", FALSE, pg, IF world.anonRole THEN To("views") ELSE Ending(me, "skip"))

\* The views come from a query of their own whose failure is ignored.
PlanViews ==
  LET tables == {k \in 1..Len(world.targets) : ~world.targets[k].view}
      views  == {k \in 1..Len(world.targets) : world.targets[k].view /\ PlanViewSurface(world.targets[k])}
  IN  Attempt("views", world.oldCatalog, pg, Planned(Kept(tables) \o Kept(views)), Planned(Kept(tables)))

Begin == Await("begin", FALSE, Began(pg), To("canary"))

SelfCheck == CreateCanary("role") \/ SwitchRole("check") \/ CheckCanary("next")

\* Without RLS the write grants are the whole story.
NextTarget ==
  /\ me.at = "next"
  /\ Do(pg, IF me.todo = <<>> THEN To("finally")
            ELSE IF ~Target.view /\ ~Target.rls
              THEN Onward([me EXCEPT !.said = @ \cup [on : {Current}, arm : GrantedWrites(Target), says : {"leak"}]])
            ELSE To("UPDATE"))

After(m, cmd) == IF cmd = "UPDATE" THEN [m EXCEPT !.at = "DELETE"] ELSE Onward(m)

OpenProbe ==
  \E cmd \in {"UPDATE", "DELETE"} :
    \/ me.at = cmd /\ ~Probes(Target, cmd) /\ Do(pg, After(me, cmd))
    \/ me.at = cmd /\ Probes(Target, cmd) /\ Await(cmd, FALSE, Saved(pg), [To("probe") EXCEPT !.loc.cmd = cmd])

ProbeWrite ==
  LET cmd     == me.loc.cmd
      effect  == Effect(Target, cmd)
      says(e) == After(Recorded(Target, Current, cmd, ProbeSays(e)), cmd)
  IN  Guarded("probe", effect \notin {"rows", "none"}, Undone(pg), says(effect),
              says(IF Live THEN effect ELSE "error"))

Check ==
  \/ PlanSurface \/ PlanViews \/ Begin \/ SelfCheck \/ NextTarget \/ OpenProbe \/ ProbeWrite
  \/ RollBack("close")

Next == Run \/ Check

-----------------------------------------------------------------------------
(* What is really writable, and where the guard may miss it.               *)

Writable(t, cmd) ==
  IF t.view THEN PlanViewSurface(t) /\ Effect(t, cmd) \in {"rows", "key"}
  ELSE cmd \in GrantedWrites(t) /\ (t.rls => Effect(t, cmd) \in {"rows", "key"})

Exposed == {e \in [on : 1..Len(world.targets), arm : Commands] : Writable(world.targets[e.on], e.arm)}

\* INSERT is judged by its grant only where RLS is off; views need their query,
\* and a probe through one that fails for another reason is dropped.
Blind == {e \in Exposed :
            LET t == world.targets[e.on]
            IN  \/ e.arm = "INSERT" /\ (t.view \/ t.rls)
                \/ t.view /\ (world.oldCatalog \/ fault # "none")}

Provable == Exposed \ Blind

Spurious == {}
Fragile  == ~world.temp \/ ~world.member

Truth == [exposed |-> Exposed, blind |-> Blind, provable |-> Provable, spurious |-> Spurious, fragile |-> Fragile]
=============================================================================
