------------------------------ MODULE ProbeGuard ------------------------------
(***************************************************************************)
(* What every runtime guard except rls-proof is built from: one connection *)
(* and a procedure that awaits one statement after another. A guard module *)
(* EXTENDS this one and adds its own actions.                              *)
(*                                                                         *)
(* The session is coarser than PgSession: instead of rows it keeps what a  *)
(* transaction has made, so that the rules of Postgres the guards rely on  *)
(* remain (an error outside a savepoint aborts the transaction; ROLLBACK   *)
(* TO brings the role and the identity back; a statement outside a block   *)
(* commits) while each guard's data stay facts of its own targets.         *)
(***************************************************************************)
EXTENDS Integers, Sequences, FiniteSets

VARIABLES world,   \* the database and the configuration the guard finds
          pg,      \* its session
          me,      \* where the guard stands and what it has concluded
          fault    \* BOUND: at most one fault in a run, "none" before it

vars == <<world, pg, me, fault>>

Results == {"none", "ok", "fail", "skip", "refused", "thrown"}

-----------------------------------------------------------------------------
(* The session: every operator is the state after one statement.           *)

Closed == [st |-> "closed", role |-> "conn", who |-> "nobody", saves |-> <<>>,
           made |-> {}, kept |-> {}]

Live == pg.st \in {"idle", "open"}

\* A statement that raises.
Failed == [pg EXCEPT !.st = IF @ = "open" THEN "aborted" ELSE @]

Began(s)        == [s EXCEPT !.st = "open"]
AsRole(s, r)    == [s EXCEPT !.role = r]
Acting(s, x)    == [s EXCEPT !.who = x]
Made(s, x)      == IF s.st = "idle" THEN [s EXCEPT !.kept = @ \cup {x}]
                                    ELSE [s EXCEPT !.made = @ \cup {x}]
Saved(s)        == [s EXCEPT !.saves = Append(@, [role |-> s.role, who |-> s.who, made |-> s.made])]
Released(s)     == [s EXCEPT !.saves = SubSeq(@, 1, Len(@) - 1)]

\* ROLLBACK TO SAVEPOINT and RELEASE, the statements an aborted block accepts.
Undone(s) ==
  IF s.st \in {"open", "aborted"} /\ s.saves # <<>>
    THEN LET sp == s.saves[Len(s.saves)]
         IN  [Released(s) EXCEPT !.st = "open", !.role = sp.role, !.who = sp.who, !.made = sp.made]
    ELSE s

RolledBack(s) ==
  IF s.st \in {"open", "aborted"}
    THEN [Closed EXCEPT !.st = "idle", !.kept = s.kept]
    ELSE s

-----------------------------------------------------------------------------
(* The procedure. Its answers are kept as [on, arm, says]: the target (0   *)
(* when it is none of them), the question about it, and leak (a violation),*)
(* note, or clear (a probe saw the policy hold; most guards say nothing    *)
(* then).                                                                  *)

Entered(targets, loc) ==
  [at |-> "start", todo |-> targets, loc |-> loc, said |-> {},
   thrown |-> FALSE, result |-> "none"]

To(l)            == [me EXCEPT !.at = l]
Said(m, on, arm, s) == [m EXCEPT !.said = @ \cup {[on |-> on, arm |-> arm, says |-> s]}]
Ending(m, r)     == [m EXCEPT !.at = "close", !.result = r]
Target           == world.targets[Head(me.todo)]
Current          == Head(me.todo)

\* MUTANT of Onward: the target stays at the head of the list.
Staying(m)       == [m EXCEPT !.at = "next"]

Onward(m)        == [m EXCEPT !.todo = Tail(@), !.at = "next"]

\* Those of S among them, in the order of the catalog.
Kept(S) ==
  LET some == {me.todo[i] : i \in 1..Len(me.todo)} \cap S
  IN  CHOOSE s \in UNION {[1..n -> some] : n \in 0..Len(me.todo)} :
        /\ some = {s[i] : i \in DOMAIN s}
        /\ \A i, j \in DOMAIN s : i < j => s[i] < s[j]

Planned(todo)    == IF todo = <<>> THEN Ending(me, "skip") ELSE [me EXCEPT !.todo = todo, !.at = "begin"]
Thrown           == [me EXCEPT !.at = "finally", !.thrown = TRUE]
LeaksIn(said)    == {a \in said : a.says = "leak"}

Do(s, m) == pg' = s /\ me' = m /\ UNCHANGED <<world, fault>>

\* An awaited statement outside every catch: an error leaves through finally.
Await(l, error, s, m) ==
  /\ me.at = l
  /\ IF Live /\ ~error THEN Do(s, m) ELSE Do(Failed, Thrown)

\* One inside a try: an error goes on as the catch says.
Attempt(l, error, s, m, caught) ==
  /\ me.at = l
  /\ IF Live /\ ~error THEN Do(s, m) ELSE Do(Failed, caught)

\* MUTANT of Guarded: the catch goes on without a rollback to the savepoint.
Unguarded(l, error, s, m, caught) ==
  /\ me.at = l
  /\ IF Live /\ ~error THEN Do(s, m) ELSE Do(Failed, caught)

\* One inside a savepoint whose catch rolls back to it.
Guarded(l, error, s, m, caught) ==
  /\ me.at = l
  /\ IF Live /\ ~error THEN Do(s, m) ELSE Do(Undone(Failed), caught)

\* ROLLBACK TO and RELEASE outside every catch.
Undo(l, m) ==
  /\ me.at = l
  /\ IF pg.st \in {"open", "aborted"} THEN Do(Undone(pg), m) ELSE Do(pg, Thrown)

-----------------------------------------------------------------------------
(* Steps every one of them has.                                            *)

\* No URL, no driver: skip. A server that refuses the connection: reject.
Connect ==
  /\ me.at = "start"
  /\ CASE world.setup = "none"    -> Do(pg, [me EXCEPT !.at = "done", !.result = "skip"])
       [] world.setup = "refused" -> Do(pg, [me EXCEPT !.at = "done", !.result = "thrown", !.thrown = TRUE])
       [] OTHER                   -> Do([pg EXCEPT !.st = "idle"], To("plan"))

\* ROLLBACK in a finally, its own error ignored.
RollBack(next) == me.at = "finally" /\ Do(RolledBack(pg), To(IF me.thrown THEN "close" ELSE next))

\* A guard that opens no transaction has nothing to roll back.
Leave == me.at = "finally" /\ Do(pg, To("close"))

\* MUTANT of Verdict: the findings are not looked at.
VerdictUnread == IF me.thrown THEN "thrown" ELSE IF me.result # "none" THEN me.result ELSE "ok"

\* What the guard resolves or rejects with.
Verdict == IF me.thrown THEN "thrown"
           ELSE IF me.result # "none" THEN me.result
           ELSE IF LeaksIn(me.said) # {} THEN "fail" ELSE "ok"

\* client.end() in the last finally.
Disconnect ==
  /\ me.at = "close"
  /\ Do([Closed EXCEPT !.kept = pg.kept], [me EXCEPT !.at = "done", !.result = Verdict])

\* The self-check: a deny-all table, made with the connection's own rights and
\* read again in the role of the application, which must not see its row. A
\* failure to set it up is noted and the guard goes on without.
CreateCanary(next) ==
  Attempt("canary", ~world.temp, Made(pg, "canary"), [To(next) EXCEPT !.loc.canary = TRUE],
          Said(To(next), 0, "canary", "note"))

SwitchRole(next) == Await("role", ~world.member, AsRole(pg, "app"), To(next))

\* Only a row that was really seen refuses; an error counts as enforcement.
CanaryRead == me.loc.canary /\ Live /\ pg.role = "app" /\ world.bypass

\* MUTANT of CheckCanary: the count is not looked at.
CanaryUnread(next) == me.at = "check" /\ Do(pg, To(next))

CheckCanary(next) ==
  /\ me.at = "check"
  /\ IF CanaryRead THEN Do(RolledBack(pg), Ending(me, "refused"))
     ELSE Do(IF me.loc.canary THEN (IF Live THEN pg ELSE Failed) ELSE pg, To(next))

-----------------------------------------------------------------------------
(* The environment. The connection is lost, or the statement under way is  *)
(* cancelled (statement_timeout, a deadlock, a policy that raises once).   *)

Drop ==
  /\ world.setup = "faulty" /\ fault = "none"
  /\ pg.st \in {"idle", "open", "aborted"}
  /\ fault' = "lost"
  /\ pg' = [Closed EXCEPT !.st = "lost", !.kept = pg.kept]
  /\ UNCHANGED <<world, me>>

Cancel ==
  /\ world.setup = "faulty" /\ fault = "none"
  /\ pg.st = "open"
  /\ fault' = "cancelled"
  /\ pg' = Failed
  /\ UNCHANGED <<world, me>>

\* MUTANT of Enter: the indices of the targets are off by one.
EnterPastEnd(worlds, loc) ==
  /\ world \in worlds
  /\ pg = Closed
  /\ me = Entered([k \in 1..Len(world.targets) |-> k + 1], loc)
  /\ fault = "none"

Enter(worlds, loc) ==
  /\ world \in worlds
  /\ pg = Closed
  /\ me = Entered([k \in 1..Len(world.targets) |-> k], loc)
  /\ fault = "none"

\* The guard has come to a conclusion about its targets.
Delivered == me.at = "done" /\ me.result \in {"ok", "fail"}
=============================================================================
