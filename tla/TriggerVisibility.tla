-------------------------- MODULE TriggerVisibility --------------------------
(***************************************************************************)
(* The trigger-visibility guard: triggers that enforce a rule by reading a *)
(* table whose rows RLS may hide from the writer. A target is a trigger,   *)
(* `reads` the protected tables its body reads; world.tables says of each  *)
(* table how many rows there are (all), how many the connection's own role *)
(* (conn) and the application role (app) count, and whose count raises     *)
(* (denies).                                                               *)
(***************************************************************************)
EXTENDS ProbeGuard

CONSTANT Worlds

Tables == {1, 2}

Init == Enter(Worlds, [left |-> {}, totals |-> {}, hidden |-> {}])

Run == Connect \/ Disconnect

-----------------------------------------------------------------------------
Counted(role, i) == world.tables[i][role]

Denied(role, i)  == role \in world.tables[i].denies

\* A denied count of the application's is a count of nothing.
Rows(role, i) == IF Denied(role, i) THEN 0 ELSE Counted(role, i)

\* Invoker triggers that can reject a write and read a protected table.
Candidate(t) == ~t.definer /\ t.enforces /\ t.reads # {}

Triggers == {k \in 1..Len(world.targets) : Candidate(world.targets[k])}

-----------------------------------------------------------------------------
PlanTriggers ==
  LET read == UNION {world.targets[k].reads : k \in Triggers}
  IN  Await("plan", FALSE, pg,
        IF world.targets = <<>> THEN Ending(me, "skip")
        ELSE IF ~world.rls THEN Ending(me, "skip")
        ELSE IF Triggers = {} THEN To("close")
        ELSE [To("begin") EXCEPT !.todo = Kept(Triggers), !.loc.left = read])

Begin == Await("begin", FALSE, Began(pg), To("totals"))

\* The tables are counted in some order; a count in a savepoint of its own.
NextTotal ==
  \/ me.at = "totals" /\ me.loc.left = {} /\ Do(pg, To("role"))
  \/ me.loc.left # {} /\ Await("totals", FALSE, Saved(pg), To("total"))

CountTotal ==
  \E i \in me.loc.left :
    LET on == [To("totals") EXCEPT !.loc.left = @ \ {i}]
    IN  Guarded("total", Denied("conn", i), Released(pg), [on EXCEPT !.loc.totals = @ \cup {i}], on)

\* Only what could be counted at first is counted again, as the application.
Switch == Await("role", ~world.member, AsRole(pg, "app"), [To("visible") EXCEPT !.loc.left = me.loc.totals])

NextVisible ==
  \/ me.at = "visible" /\ me.loc.left = {} /\ Do(pg, To("finally"))
  \/ me.loc.left # {} /\ Await("visible", FALSE, Saved(pg), To("seen"))

CountVisible ==
  \E i \in me.loc.left :
    LET on      == [To("visible") EXCEPT !.loc.left = @ \ {i}]
        less(n) == IF n < Rows("conn", i) THEN [on EXCEPT !.loc.hidden = @ \cup {i}] ELSE on
    IN  Guarded("seen", Denied("app", i), Released(pg), less(Rows("app", i)), less(0))

\* After the transaction: a trigger that reads a table with hidden rows is a
\* finding, any other candidate a note.
ClassifyTriggers ==
  /\ me.at = "judge"
  /\ LET hit == {k \in Triggers : world.targets[k].reads \cap me.loc.hidden # {}}
         answers(S, says) == [on : S, arm : {"reads"}, says : {says}]
     IN  Do(pg, [To("close") EXCEPT !.said = @ \cup answers(hit, "leak") \cup answers(Triggers \ hit, "note")])

Check ==
  \/ PlanTriggers \/ Begin \/ NextTotal \/ CountTotal \/ Switch \/ NextVisible \/ CountVisible
  \/ RollBack("judge") \/ ClassifyTriggers

Next == Run \/ Check

-----------------------------------------------------------------------------
(* What is really hidden, and where the guard may misjudge it.             *)

HiddenIn(i) == Rows("app", i) < Rows("all", i)

Exposed == {[on |-> k, arm |-> "reads"] : k \in {j \in Triggers :
              world.rls /\ \E i \in world.targets[j].reads : HiddenIn(i)}}

Blind == {}

\* The connection must count every row itself.
Provable == {e \in Exposed : \E i \in world.targets[e.on].reads :
               HiddenIn(i) /\ Rows("conn", i) = Counted("all", i)}

\* A count that failed for any reason is taken for a count of nothing.
Spurious == IF fault = "none" THEN {} ELSE [on : Triggers, arm : {"reads"}]

Fragile == ~world.member

Truth == [exposed |-> Exposed, blind |-> Blind, provable |-> Provable, spurious |-> Spurious, fragile |-> Fragile]
=============================================================================
