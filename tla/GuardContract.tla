--------------------------- MODULE GuardContract ---------------------------
(***************************************************************************)
(* What the runner may rely on when it calls the check of a guard: answers *)
(* are only added while it runs, no question is answered both ways, and in *)
(* the end there is one verdict that fits the answers.                     *)
(***************************************************************************)
VARIABLES said,      \* the answers so far, [on, arm, says]
          verdict    \* "none" while the guard runs

vars == <<said, verdict>>

Leaks == {a \in said : a.says = "leak"}

\* The same question is never both leaking and proven.
Consistent(answers) ==
  \A a, b \in answers : a.on = b.on /\ a.arm = b.arm /\ a.says = "leak" => b.says # "clear"

Init == said = {} /\ verdict = "none"

Answer ==
  /\ verdict = "none"
  /\ said \subseteq said'
  /\ Consistent(said')
  /\ UNCHANGED verdict

\* ok and fail are what the answers make them; the other ends stand aside.
Conclude ==
  /\ verdict = "none"
  /\ \/ verdict' = "ok"   /\ Leaks = {}
     \/ verdict' = "fail" /\ Leaks # {}
     \/ verdict' \in {"skip", "refused", "thrown"}
  /\ UNCHANGED said

Spec == Init /\ [][Answer \/ Conclude]_vars
=============================================================================
