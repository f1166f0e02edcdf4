--------------------------- MODULE ProbeGuardsSteady ---------------------------
(***************************************************************************)
(* A probing guard rejects for a reason only: as long as no fault strikes, *)
(* the server accepts the connection and none of the listed conditions     *)
(* holds, every statement finds the session in the state it needs. The     *)
(* invariant says what every place of every procedure needs: a session, a  *)
(* transaction or not, and a savepoint where one is released or undone.    *)
(*                                                                         *)
(* identity-trust is left out here: that it has something to undo depends  *)
(* on its list of targets, of which ProbeGuardsVerdicts proves what it is. *)
(***************************************************************************)
EXTENDS ProbeGuards, SequenceTheorems, TLAPS

Steadies == Names \ {"identity-trust"}

\* The places inside a transaction.
Inside ==
  CASE world.guard = "anon-reads" ->
         {"surface", "facts", "canary", "role", "check", "next", "count", "undo"}
    [] world.guard = "anon-writes" ->
         {"canary", "role", "check", "next", "UPDATE", "DELETE", "probe"}
    [] world.guard = "view-isolation" ->
         {"surface", "tenants", "deps", "nested", "canary", "role", "check", "next", "forward", "reverse"}
    [] world.guard = "storage-isolation" ->
         {"canary", "next", "listing", "settle", "check", "reads", "uploads", "reset"}
    [] world.guard = "realtime-isolation" ->
         {"tenants", "canary", "role", "check", "forward", "reverse", "own", "publish", "other", "intrude", "reset"}
    [] world.guard = "definer-rpc" ->
         {"canary", "role", "check", "become", "next", "call", "control", "sentinel"}
    [] world.guard = "identity-trust" -> {"next", "role", "baseline", "forged", "reset"}
    [] world.guard = "column-exposure" -> {"role", "next", "probe"}
    [] world.guard = "trigger-visibility" -> {"totals", "total", "role", "visible", "seen"}
    [] world.guard = "schema-tenancy" -> {"role", "next", "probe", "reset"}
    [] world.guard = "default-privileges" -> {"role", "create", "read", "undo", "failed"}
    [] world.guard = "cross-tenant-fk" -> {"role", "become", "own", "repoint", "undo"}
    [] OTHER -> {}

\* The places before a savepoint is undone or released.
Held ==
  CASE world.guard = "anon-reads"         -> {"facts", "count", "undo"}
    [] world.guard = "anon-writes"        -> {"probe"}
    [] world.guard = "view-isolation"     -> {"tenants", "nested", "forward", "reverse"}
    [] world.guard = "storage-isolation"  -> {"listing"}
    [] world.guard = "realtime-isolation" -> {"publish", "intrude"}
    [] world.guard = "definer-rpc"        -> {"call", "sentinel"}
    [] world.guard = "column-exposure"    -> {"probe"}
    [] world.guard = "trigger-visibility" -> {"total", "seen"}
    [] world.guard = "schema-tenancy"     -> {"probe"}
    [] OTHER                              -> {}

\* The places that an aborted transaction may reach, and those that do not care.
Loose == {"undo", "failed"}
Ends == {"finally", "close", "done"}

\* Nothing has happened that may make a guard reject.
Clear == fault = "none" /\ world.setup # "refused" /\ ~Truth.fragile

\* A sequence, of whatever; and a session that lost no field.
IsSeq(s) == Len(s) \in Nat /\ s = [i \in 1..Len(s) |-> s[i]]

Sound(s) == DOMAIN s = {"st", "role", "who", "saves", "made", "kept"} /\ IsSeq(s.saves)

\* What a place requires of the session.
Fits(st, at, saves) ==
    /\ at = "start" => st = "closed"
    /\ at \in Inside => st = "open" \/ (at \in Loose /\ st = "aborted")
    /\ at \notin Inside \cup Ends \cup {"start"} => st = "idle"
    /\ at \in Held => saves # <<>>
    /\ at = "finally" => st \in {"idle", "open", "aborted"}

Calm == ~me.thrown /\ Fits(pg.st, me.at, pg.saves)

\* Whose turn it is, where that decides whether a statement works: a bucket that
\* is read as two tenants is not settled without, and messages are only probed
\* with a policy and two tenants.
Placed ==
  /\ world.guard = "storage-isolation" =>
       /\ me.todo \in Seq(1..Len(world.targets))
       /\ me.at \in {"listing", "settle", "check", "reads", "uploads", "reset"} => me.todo # <<>>
       /\ me.at \in {"check", "reads", "uploads", "reset"} => ~SI!Settled
  /\ world.guard = "realtime-isolation" =>
       /\ Head(me.todo) = 1
       /\ world.tenants \in Nat
       /\ me.at \in Inside \cup {"begin"} => world.rls /\ world.policies
       /\ me.at \in Inside \ {"tenants"} => world.tenants > 1

SteadyInv ==
  /\ Sound(pg)
  /\ DOMAIN me = {"at", "todo", "loc", "said", "thrown", "result"}
  /\ Placed
  /\ me.result = "thrown" => me.at = "done" /\ ~Clear
  /\ Clear => Calm

Steady == world.guard \in Steadies => SteadyInv

-----------------------------------------------------------------------------
(* The session: what its operators make of a sound one.                    *)

LEMMA Ranged ==
  ASSUME NEW s, IsSeq(s)
  PROVE  s \in Seq({s[i] : i \in 1..Len(s)})
BY DEF IsSeq

LEMMA Sequent ==
  ASSUME NEW S, NEW s \in Seq(S)
  PROVE  IsSeq(s)
BY DEF IsSeq

LEMMA Appended ==
  ASSUME NEW s, IsSeq(s), NEW e
  PROVE  IsSeq(Append(s, e)) /\ Append(s, e) # <<>>
<1> DEFINE S == {s[i] : i \in 1..Len(s)} \cup {e}
<1>1. s \in Seq(S)
  <2>1. s \in Seq({s[i] : i \in 1..Len(s)}) BY Ranged
  <2> QED BY <2>1
<1>2. e \in S OBVIOUS
<1> HIDE DEF S
<1>3. Append(s, e) \in Seq(S) /\ Append(s, e) # <<>> BY <1>1, <1>2, AppendProperties
<1> QED BY <1>3, Sequent

LEMMA Shortened ==
  ASSUME NEW s, IsSeq(s)
  PROVE  IsSeq(SubSeq(s, 1, Len(s) - 1))
<1> DEFINE S == {s[i] : i \in 1..Len(s)}
<1>1. s \in Seq(S) BY Ranged
<1> HIDE DEF S
<1>2. CASE s = <<>>
  <2>1. SubSeq(s, 1, Len(s) - 1) = <<>> BY <1>2, SubSeqEmpty
  <2>2. <<>> \in Seq({}) OBVIOUS
  <2> QED BY <2>1, <2>2, Sequent
<1>3. CASE s # <<>>
  <2>1. SubSeq(s, 1, Len(s) - 1) \in Seq(S) BY <1>1, <1>3
  <2> QED BY <2>1, Sequent
<1> QED BY <1>2, <1>3

LEMMA Plainly ==
  ASSUME NEW s, Sound(s), NEW r, NEW x
  PROVE  /\ Sound(Began(s)) /\ Began(s).st = "open"
         /\ Sound(AsRole(s, r)) /\ AsRole(s, r).st = s.st /\ AsRole(s, r).saves = s.saves
         /\ Sound(Acting(s, x)) /\ Acting(s, x).st = s.st /\ Acting(s, x).saves = s.saves
         /\ Sound(Made(s, x)) /\ Made(s, x).st = s.st /\ Made(s, x).saves = s.saves
BY DEF Sound, Began, AsRole, Acting, Made

LEMMA Saving ==
  ASSUME NEW s, Sound(s)
  PROVE  Sound(Saved(s)) /\ Saved(s).st = s.st /\ Saved(s).saves # <<>>
<1> DEFINE sp == [role |-> s.role, who |-> s.who, made |-> s.made]
<1>1. IsSeq(Append(s.saves, sp)) /\ Append(s.saves, sp) # <<>> BY Appended DEF Sound
<1>2. Saved(s).saves = Append(s.saves, sp) BY DEF Sound, Saved
<1> QED BY <1>1, <1>2 DEF Sound, Saved

LEMMA Releasing ==
  ASSUME NEW s, Sound(s)
  PROVE  Sound(Released(s)) /\ Released(s).st = s.st
<1>1. IsSeq(SubSeq(s.saves, 1, Len(s.saves) - 1)) BY Shortened DEF Sound
<1> QED BY <1>1 DEF Sound, Released

LEMMA Undoing ==
  ASSUME NEW s, Sound(s)
  PROVE  /\ Sound(Undone(s))
         /\ s.st \in {"open", "aborted"} /\ s.saves # <<>> => Undone(s).st = "open"
<1>1. Sound(Released(s)) BY Releasing
<1>2. CASE s.st \in {"open", "aborted"} /\ s.saves # <<>>
  <2> DEFINE sp == s.saves[Len(s.saves)]
  <2>1. Undone(s) = [Released(s) EXCEPT !.st = "open", !.role = sp.role, !.who = sp.who, !.made = sp.made]
    BY <1>2 DEF Undone
  <2> HIDE DEF sp
  <2> QED BY <1>1, <1>2, <2>1 DEF Sound
<1>3. CASE ~(s.st \in {"open", "aborted"} /\ s.saves # <<>>) BY <1>3 DEF Undone
<1> QED BY <1>2, <1>3

LEMMA Rolling ==
  ASSUME NEW s, Sound(s)
  PROVE  Sound(RolledBack(s)) /\ RolledBack(s).st = IF s.st \in {"open", "aborted"} THEN "idle" ELSE s.st
<1>1. <<>> \in Seq({}) OBVIOUS
<1>2. IsSeq(<<>>) BY <1>1, Sequent
<1> QED BY <1>2 DEF Sound, RolledBack, Closed

LEMMA Failing ==
  ASSUME Sound(pg)
  PROVE  Sound(Failed) /\ Failed.saves = pg.saves /\ Failed.st = IF pg.st = "open" THEN "aborted" ELSE pg.st
BY DEF Sound, Failed

LEMMA Closing ==
  ASSUME NEW k
  PROVE  Sound(Closed) /\ Sound([Closed EXCEPT !.kept = k])
<1>1. <<>> \in Seq({}) OBVIOUS
<1>2. IsSeq(<<>>) BY <1>1, Sequent
<1> QED BY <1>2 DEF Sound, Closed

LEMMA Connecting ==
  ASSUME NEW s, Sound(s), NEW x
  PROVE  Sound([s EXCEPT !.st = x]) /\ [s EXCEPT !.st = x].st = x
BY DEF Sound

\* All of it, of the session at hand.
Ground ==
  /\ Sound(pg)
  /\ Sound(Failed) /\ Failed.saves = pg.saves /\ Failed.st = (IF pg.st = "open" THEN "aborted" ELSE pg.st)
  /\ Sound(Began(pg)) /\ Began(pg).st = "open"
  /\ Sound(Saved(pg)) /\ Saved(pg).st = pg.st /\ Saved(pg).saves # <<>>
  /\ Sound(Released(pg)) /\ Released(pg).st = pg.st
  /\ Sound(Undone(pg)) /\ (pg.st \in {"open", "aborted"} /\ pg.saves # <<>> => Undone(pg).st = "open")
  /\ Sound(Undone(Failed)) /\ (pg.st \in {"open", "aborted"} /\ pg.saves # <<>> => Undone(Failed).st = "open")
  /\ Sound(RolledBack(pg)) /\ RolledBack(pg).st = (IF pg.st \in {"open", "aborted"} THEN "idle" ELSE pg.st)
  /\ Sound([pg EXCEPT !.st = "idle"]) /\ [pg EXCEPT !.st = "idle"].st = "idle"
  /\ Sound([Closed EXCEPT !.kept = pg.kept])

LEMMA Grounds == Sound(pg) => Ground
<1> SUFFICES ASSUME Sound(pg) PROVE Ground OBVIOUS
<1>1. Sound(Failed) /\ Failed.saves = pg.saves /\ Failed.st = IF pg.st = "open" THEN "aborted" ELSE pg.st
  BY Failing
<1>2. Sound(Undone(Failed)) /\ (pg.st \in {"open", "aborted"} /\ pg.saves # <<>> => Undone(Failed).st = "open")
  <2>1. Sound(Undone(Failed)) /\ (Failed.st \in {"open", "aborted"} /\ Failed.saves # <<>> => Undone(Failed).st = "open")
    BY <1>1, Undoing
  <2> QED BY <1>1, <2>1
<1>3. Sound(Began(pg)) /\ Began(pg).st = "open" BY Plainly
<1>4. Sound(Saved(pg)) /\ Saved(pg).st = pg.st /\ Saved(pg).saves # <<>> BY Saving
<1>5. Sound(Released(pg)) /\ Released(pg).st = pg.st BY Releasing
<1>6. Sound(Undone(pg)) /\ (pg.st \in {"open", "aborted"} /\ pg.saves # <<>> => Undone(pg).st = "open") BY Undoing
<1>7. Sound(RolledBack(pg)) /\ RolledBack(pg).st = IF pg.st \in {"open", "aborted"} THEN "idle" ELSE pg.st BY Rolling
<1>8. Sound([Closed EXCEPT !.kept = pg.kept]) BY Closing
<1>9. Sound([pg EXCEPT !.st = "idle"]) /\ [pg EXCEPT !.st = "idle"].st = "idle" BY Connecting
<1> QED BY <1>1, <1>2, <1>3, <1>4, <1>5, <1>6, <1>7, <1>8, <1>9 DEF Ground

-----------------------------------------------------------------------------
(* The procedures, one by one.                                             *)

LEMMA AnonReadsSteady ==
  ASSUME SteadyInv, world.guard = "anon-reads", AR!Next
  PROVE  SteadyInv'
<1>u. world' = world /\ fault' = fault
  BY DEF AR!Next, AR!Check, AR!Run, AR!SelfCheck, AR!Answer, AR!Attempt,
      AR!Await, AR!Begin, AR!CheckCanary, AR!Connect, AR!CountVisible, AR!CreateCanary, AR!Disconnect, AR!Do,
      AR!Guarded, AR!NextRelation, AR!NextSurface, AR!PlanRelations, AR!ReadSurface, AR!RollBack, AR!SwitchRole,
      AR!Undo, AR!UndoProbe, AR!UnprotectedTables
<1>c. Clear' = Clear /\ (Clear => world.temp /\ world.member) /\ (world.setup = "refused" => ~Clear)
  BY <1>u DEF Clear, Truth, AR!Truth, AR!Fragile
<1>w. /\ Inside = {"surface", "facts", "canary", "role", "check", "next", "count", "undo"} /\ Inside' = Inside
      /\ Held = {"facts", "count", "undo"} /\ Held' = Held
  BY <1>u DEF Inside, Held
<1>b. /\ \A s : AR!Undone(s) = Undone(s)
      /\ \A s : AR!Released(s) = Released(s)
      /\ \A s : AR!Saved(s) = Saved(s)
      /\ \A s : AR!Began(s) = Began(s)
      /\ \A s : AR!RolledBack(s) = RolledBack(s)
      /\ AR!Failed = Failed
      /\ AR!Closed = Closed
  BY DEF AsRole, Began, Closed, Failed, Made, Released, RolledBack, Saved, Undone, AR!AsRole, AR!Began, AR!Closed,
      AR!Failed, AR!Made, AR!Released, AR!RolledBack, AR!Saved, AR!Undone
<1>r. /\ Sound(AR!Made(pg, "canary")) /\ AR!Made(pg, "canary").st = pg.st /\ AR!Made(pg, "canary").saves = pg.saves
      /\ Sound(AR!AsRole(pg, "app")) /\ AR!AsRole(pg, "app").st = pg.st /\ AR!AsRole(pg, "app").saves = pg.saves
  <2>1. /\ Sound(Made(pg, "canary")) /\ Made(pg, "canary").st = pg.st /\ Made(pg, "canary").saves = pg.saves
        /\ Sound(AsRole(pg, "app")) /\ AsRole(pg, "app").st = pg.st /\ AsRole(pg, "app").saves = pg.saves
    BY Plainly DEF SteadyInv
  <2>2. /\ AR!Made(pg, "canary") = Made(pg, "canary")
        /\ AR!AsRole(pg, "app") = AsRole(pg, "app")
    BY DEF AsRole, Made, AR!AsRole, AR!Made
  <2> QED BY <2>1, <2>2
<1>g. Ground BY Grounds DEF SteadyInv
<1>d. Placed' BY <1>u DEF Placed
<1>s. ASSUME Sound(pg'), DOMAIN me' = DOMAIN me, me'.result # "thrown",
             Clear => ~me'.thrown /\ Fits(pg'.st, me'.at, pg'.saves)
      PROVE  SteadyInv'
  BY <1>s, <1>u, <1>c, <1>w, <1>d DEF SteadyInv, Calm, Fits
<1>f. me.at \notin {"start", "close", "done", "finally"} => me.result # "thrown" BY DEF SteadyInv
<1>p1. ASSUME AR!CountVisible PROVE SteadyInv'
  <2> DEFINE seen == AR!Target.anon = "some"
             raises == AR!Target.anon = "error"
  <2>1. AR!Attempt("count", raises, pg, [AR!To("undo") EXCEPT !.loc.seen = seen], [AR!To("undo") EXCEPT !.loc.seen = FALSE])
    BY <1>p1 DEF AR!CountVisible
  <2> HIDE DEF seen, raises
  <2>2. /\ me.at = "count"
        /\ \/ pg' = pg /\ me' = [AR!To("undo") EXCEPT !.loc.seen = seen]
           \/ pg' = AR!Failed /\ me' = [AR!To("undo") EXCEPT !.loc.seen = FALSE]
    BY <2>1 DEF AR!Attempt, AR!Do
  <2>3. ASSUME NEW x, me' = [AR!To("undo") EXCEPT !.loc.seen = x]
        PROVE  DOMAIN me' = DOMAIN me /\ me'.at = "undo" /\ me'.thrown = me.thrown /\ me'.result = me.result
    BY <2>3 DEF SteadyInv, AR!To
  <2>4. DOMAIN me' = DOMAIN me /\ me'.at = "undo" /\ me'.thrown = me.thrown /\ me'.result = me.result
    BY <2>2, <2>3
  <2>5. Sound(pg') /\ pg'.saves = pg.saves /\ pg'.st \in {pg.st, IF pg.st = "open" THEN "aborted" ELSE pg.st}
    BY <1>b, <1>g, <2>2 DEF Ground
  <2>6. Clear => ~me.thrown /\ Fits(pg'.st, "undo", pg'.saves)
    BY <1>w, <2>2, <2>5 DEF SteadyInv, Calm, Fits, Loose, Ends
  <2> QED BY <1>s, <1>f, <2>2, <2>4, <2>5, <2>6
<1>p2. ASSUME AR!UnprotectedTables PROVE SteadyInv'
  <2>1. ASSUME NEW todo, me' = [AR!Planned(todo) EXCEPT !.loc.plan = todo]
        PROVE  /\ DOMAIN me' = DOMAIN me /\ me'.at \in {"close", "begin"} /\ me'.thrown = me.thrown
               /\ me'.result \in {me.result, "skip"}
    BY <2>1 DEF SteadyInv, AR!Planned, AR!Ending
  <2>2. /\ me.at = "unprotected"
        /\ pg' = pg \/ pg' = AR!Failed
        /\ \E todo : me' = [AR!Planned(todo) EXCEPT !.loc.plan = todo]
    BY <1>p2, Zenon DEF AR!UnprotectedTables, AR!Attempt, AR!Do
  <2>3. /\ DOMAIN me' = DOMAIN me /\ me'.at \in {"close", "begin"} /\ me'.thrown = me.thrown
        /\ me'.result \in {me.result, "skip"}
    BY <2>1, <2>2
  <2>4. Sound(pg') /\ pg'.st \in {pg.st, IF pg.st = "open" THEN "aborted" ELSE pg.st}
    BY <1>b, <1>g, <2>2 DEF Ground
  <2>5. Clear => ~me.thrown /\ Fits(pg'.st, me'.at, pg'.saves)
    BY <1>w, <2>2, <2>3, <2>4 DEF SteadyInv, Calm, Fits, Loose, Ends
  <2> QED BY <1>s, <1>f, <2>2, <2>3, <2>4, <2>5
<1>p3. ASSUME AR!ReadSurface PROVE SteadyInv'
  <2> DEFINE on == [me EXCEPT !.todo = Tail(@), !.at = "surface"]
  <2>1. /\ me.at = "facts"
        /\ (pg' = AR!Released(pg) /\ AR!Live) \/ pg' = AR!Undone(AR!Failed)
        /\ me' = on \/ (\E x : me' = [on EXCEPT !.loc.empty = x]) \/ (\E x : me' = [on EXCEPT !.loc.unread = x])
    BY <1>p3, Zenon DEF AR!ReadSurface, AR!Guarded, AR!Do
  <2>2. DOMAIN me' = DOMAIN me /\ me'.at = "surface" /\ me'.thrown = me.thrown /\ me'.result = me.result
    BY <2>1 DEF SteadyInv
  <2>3. Sound(pg') /\ (pg.st = "open" /\ pg.saves # <<>> => pg'.st = "open")
    BY <1>b, <1>g, <2>1 DEF Ground
  <2>4. Clear => ~me.thrown /\ Fits(pg'.st, "surface", pg'.saves)
    BY <1>w, <2>1, <2>3 DEF SteadyInv, Calm, Fits, Loose, Ends
  <2> QED BY <1>s, <1>f, <2>1, <2>2, <2>3, <2>4
<1> USE <1>c, <1>w, <1>b, <1>d, <1>r, <1>g DEF SteadyInv, Calm, Fits, Ground, Loose, Ends
<1> USE DEF AR!Attempt, AR!Await, AR!Do, AR!Ending, AR!Live, AR!Said, AR!Thrown, AR!To
<1>1. CASE AR!PlanRelations BY <1>1 DEF AR!PlanRelations
<1>2. CASE AR!UnprotectedTables BY <1>2, <1>p2
<1>3. CASE AR!Begin BY <1>3 DEF AR!Begin
<1>4. CASE AR!NextSurface BY <1>4 DEF AR!NextSurface
<1>5. CASE AR!ReadSurface BY <1>5, <1>p3
<1>6. CASE AR!CreateCanary("role") BY <1>6 DEF AR!CreateCanary
<1>7. CASE AR!SwitchRole("check") BY <1>7 DEF AR!SwitchRole
<1>8. CASE AR!CheckCanary("next") BY <1>8 DEF AR!CheckCanary
<1>9. CASE AR!NextRelation BY <1>9 DEF AR!Answer, AR!NextRelation, AR!Onward
<1>10. CASE AR!CountVisible BY <1>10, <1>p1
<1>11. CASE AR!UndoProbe BY <1>11 DEF AR!Answer, AR!Onward, AR!Undo, AR!UndoProbe
<1>12. CASE AR!RollBack("close") BY <1>12 DEF AR!RollBack
<1>13. CASE AR!Connect BY <1>13 DEF AR!Connect
<1>14. CASE AR!Disconnect BY <1>14 DEF AR!Disconnect, AR!Verdict
<1> QED BY <1>1, <1>2, <1>3, <1>4, <1>5, <1>6, <1>7, <1>8, <1>9, <1>10, <1>11, <1>12, <1>13, <1>14 DEF AR!Next, AR!Check, AR!Run, AR!SelfCheck

LEMMA AnonWritesSteady ==
  ASSUME SteadyInv, world.guard = "anon-writes", AW!Next
  PROVE  SteadyInv'
<1>u. world' = world /\ fault' = fault
  BY DEF AW!Next, AW!Check, AW!Run, AW!SelfCheck, AW!After, AW!Attempt,
      AW!Await, AW!Begin, AW!CheckCanary, AW!Connect, AW!CreateCanary, AW!Disconnect, AW!Do, AW!Guarded, AW!NextTarget,
      AW!OpenProbe, AW!PlanSurface, AW!PlanViews, AW!ProbeWrite, AW!Recorded, AW!RollBack, AW!SwitchRole
<1>c. Clear' = Clear /\ (Clear => world.temp /\ world.member) /\ (world.setup = "refused" => ~Clear)
  BY <1>u DEF Clear, Truth, AW!Truth, AW!Fragile
<1>w. /\ Inside = {"canary", "role", "check", "next", "UPDATE", "DELETE", "probe"} /\ Inside' = Inside
      /\ Held = {"probe"} /\ Held' = Held
  BY <1>u DEF Inside, Held
<1>b. /\ \A s : AW!Undone(s) = Undone(s)
      /\ \A s : AW!Released(s) = Released(s)
      /\ \A s : AW!Saved(s) = Saved(s)
      /\ \A s : AW!Began(s) = Began(s)
      /\ \A s : AW!RolledBack(s) = RolledBack(s)
      /\ AW!Failed = Failed
      /\ AW!Closed = Closed
  BY DEF AsRole, Began, Closed, Failed, Made, Released, RolledBack, Saved, Undone, AW!AsRole, AW!Began, AW!Closed,
      AW!Failed, AW!Made, AW!Released, AW!RolledBack, AW!Saved, AW!Undone
<1>r. /\ Sound(AW!Made(pg, "canary")) /\ AW!Made(pg, "canary").st = pg.st /\ AW!Made(pg, "canary").saves = pg.saves
      /\ Sound(AW!AsRole(pg, "app")) /\ AW!AsRole(pg, "app").st = pg.st /\ AW!AsRole(pg, "app").saves = pg.saves
  <2>1. /\ Sound(Made(pg, "canary")) /\ Made(pg, "canary").st = pg.st /\ Made(pg, "canary").saves = pg.saves
        /\ Sound(AsRole(pg, "app")) /\ AsRole(pg, "app").st = pg.st /\ AsRole(pg, "app").saves = pg.saves
    BY Plainly DEF SteadyInv
  <2>2. /\ AW!Made(pg, "canary") = Made(pg, "canary")
        /\ AW!AsRole(pg, "app") = AsRole(pg, "app")
    BY DEF AsRole, Made, AW!AsRole, AW!Made
  <2> QED BY <2>1, <2>2
<1>g. Ground BY Grounds DEF SteadyInv
<1>d. Placed' BY <1>u DEF Placed
<1>s. ASSUME Sound(pg'), DOMAIN me' = DOMAIN me, me'.result # "thrown",
             Clear => ~me'.thrown /\ Fits(pg'.st, me'.at, pg'.saves)
      PROVE  SteadyInv'
  BY <1>s, <1>u, <1>c, <1>w, <1>d DEF SteadyInv, Calm, Fits
<1>f. me.at \notin {"start", "close", "done", "finally"} => me.result # "thrown" BY DEF SteadyInv
<1>p1. ASSUME AW!ProbeWrite PROVE SteadyInv'
  <2> DEFINE says(e) == AW!Recorded(AW!Target, AW!Current, me.loc.cmd, AW!ProbeSays(e))
  <2>1. /\ me.at = "probe"
        /\ pg' = AW!Undone(pg) \/ pg' = AW!Undone(AW!Failed)
        /\ \E e : me' = AW!After(says(e), me.loc.cmd)
    BY <1>p1, Zenon DEF AW!ProbeWrite, AW!Guarded, AW!Do
  <2>2. \A e : says(e) = me \/ (\E x : says(e) = [me EXCEPT !.said = x])
    BY DEF AW!Recorded, AW!Said
  <2> HIDE DEF says
  <2>3. ASSUME NEW m, m = me \/ (\E x : m = [me EXCEPT !.said = x]), me' = AW!After(m, me.loc.cmd)
        PROVE  DOMAIN me' = DOMAIN me /\ me'.at \in {"DELETE", "next"} /\ me'.thrown = me.thrown /\ me'.result = me.result
    BY <2>3 DEF SteadyInv, AW!After, AW!Onward
  <2>4. DOMAIN me' = DOMAIN me /\ me'.at \in {"DELETE", "next"} /\ me'.thrown = me.thrown /\ me'.result = me.result
    BY <2>1, <2>2, <2>3
  <2>5. Sound(pg') /\ (pg.st = "open" /\ pg.saves # <<>> => pg'.st = "open")
    BY <1>b, <1>g, <2>1 DEF Ground
  <2>6. Clear => ~me.thrown /\ Fits(pg'.st, me'.at, pg'.saves)
    BY <1>w, <2>1, <2>4, <2>5 DEF SteadyInv, Calm, Fits, Loose, Ends
  <2> QED BY <1>s, <1>f, <2>1, <2>4, <2>5, <2>6
<1> USE <1>c, <1>w, <1>b, <1>d, <1>r, <1>g DEF SteadyInv, Calm, Fits, Ground, Loose, Ends
<1> USE DEF AW!Await, AW!Do, AW!Ending, AW!Live, AW!Onward, AW!Thrown, AW!To
<1>1. CASE AW!PlanSurface BY <1>1 DEF AW!PlanSurface
<1>2. CASE AW!PlanViews BY <1>2 DEF AW!Attempt, AW!PlanViews, AW!Planned
<1>3. CASE AW!Begin BY <1>3 DEF AW!Begin
<1>4. CASE AW!CreateCanary("role") BY <1>4 DEF AW!Attempt, AW!CreateCanary, AW!Said
<1>5. CASE AW!SwitchRole("check") BY <1>5 DEF AW!SwitchRole
<1>6. CASE AW!CheckCanary("next") BY <1>6 DEF AW!CheckCanary
<1>7. CASE AW!NextTarget BY <1>7 DEF AW!NextTarget
<1>8. CASE AW!OpenProbe BY <1>8 DEF AW!After, AW!OpenProbe
<1>9. CASE AW!ProbeWrite BY <1>9, <1>p1
<1>10. CASE AW!RollBack("close") BY <1>10 DEF AW!RollBack
<1>11. CASE AW!Connect BY <1>11 DEF AW!Connect
<1>12. CASE AW!Disconnect BY <1>12 DEF AW!Disconnect, AW!Verdict
<1> QED BY <1>1, <1>2, <1>3, <1>4, <1>5, <1>6, <1>7, <1>8, <1>9, <1>10, <1>11, <1>12 DEF AW!Next, AW!Check, AW!Run, AW!SelfCheck

LEMMA ViewIsolationSteady ==
  ASSUME SteadyInv, world.guard = "view-isolation", VI!Next
  PROVE  SteadyInv'
<1>u. world' = world /\ fault' = fault
  BY DEF VI!Next, VI!Check, VI!Run, VI!SelfCheck, VI!Attempt, VI!Await,
      VI!Begin, VI!CheckCanary, VI!Connect, VI!CreateCanary, VI!Disconnect, VI!DistinctTenants, VI!Do, VI!Guarded,
      VI!NestedViewDeps, VI!NextSurface, VI!NextView, VI!PlanViews, VI!ProbeForward, VI!ProbeReverse,
      VI!RollBack, VI!Surfaced, VI!SwitchRole, VI!Unproven
<1>c. Clear' = Clear /\ (Clear => world.temp /\ world.member) /\ (world.setup = "refused" => ~Clear)
  BY <1>u DEF Clear, Truth, VI!Truth, VI!Fragile
<1>w. /\ Inside = {"surface", "tenants", "deps", "nested", "canary", "role", "check", "next", "forward", "reverse"} /\ Inside' = Inside
      /\ Held = {"tenants", "nested", "forward", "reverse"} /\ Held' = Held
  BY <1>u DEF Inside, Held
<1>b. /\ \A s : VI!Undone(s) = Undone(s)
      /\ \A s : VI!Released(s) = Released(s)
      /\ \A s : VI!Saved(s) = Saved(s)
      /\ \A s : VI!Began(s) = Began(s)
      /\ \A s : VI!RolledBack(s) = RolledBack(s)
      /\ VI!Failed = Failed
      /\ VI!Closed = Closed
  BY DEF Acting, AsRole, Began, Closed, Failed, Made, Released, RolledBack, Saved, Undone, VI!Acting, VI!AsRole,
      VI!Began, VI!Closed, VI!Failed, VI!Made, VI!Released, VI!RolledBack, VI!Saved, VI!Undone
<1>r. /\ Sound(VI!Made(pg, "canary")) /\ VI!Made(pg, "canary").st = pg.st /\ VI!Made(pg, "canary").saves = pg.saves
      /\ Sound(VI!AsRole(pg, "app")) /\ VI!AsRole(pg, "app").st = pg.st /\ VI!AsRole(pg, "app").saves = pg.saves
      /\ Sound(VI!Acting(pg, VI!Becomes("A"))) /\ VI!Acting(pg, VI!Becomes("A")).st = pg.st /\ VI!Acting(pg, VI!Becomes("A")).saves = pg.saves
      /\ Sound(VI!Acting(pg, VI!Becomes("B"))) /\ VI!Acting(pg, VI!Becomes("B")).st = pg.st /\ VI!Acting(pg, VI!Becomes("B")).saves = pg.saves
      /\ Sound(VI!Released(VI!Acting(pg, VI!Becomes("B")))) /\ VI!Released(VI!Acting(pg, VI!Becomes("B"))).st = pg.st
  <2>1. /\ Sound(Made(pg, "canary")) /\ Made(pg, "canary").st = pg.st /\ Made(pg, "canary").saves = pg.saves
        /\ Sound(AsRole(pg, "app")) /\ AsRole(pg, "app").st = pg.st /\ AsRole(pg, "app").saves = pg.saves
        /\ Sound(Acting(pg, VI!Becomes("A"))) /\ Acting(pg, VI!Becomes("A")).st = pg.st /\ Acting(pg, VI!Becomes("A")).saves = pg.saves
        /\ Sound(Acting(pg, VI!Becomes("B"))) /\ Acting(pg, VI!Becomes("B")).st = pg.st /\ Acting(pg, VI!Becomes("B")).saves = pg.saves
    BY Plainly DEF SteadyInv
  <2>2. /\ VI!Made(pg, "canary") = Made(pg, "canary")
        /\ VI!AsRole(pg, "app") = AsRole(pg, "app")
        /\ VI!Acting(pg, VI!Becomes("A")) = Acting(pg, VI!Becomes("A"))
        /\ VI!Acting(pg, VI!Becomes("B")) = Acting(pg, VI!Becomes("B"))
        /\ VI!Released(VI!Acting(pg, VI!Becomes("B"))) = Released(Acting(pg, VI!Becomes("B")))
    BY DEF AsRole, Acting, Made, Released, VI!AsRole, VI!Acting, VI!Made, VI!Released
  <2>3. Sound(Released(Acting(pg, VI!Becomes("B")))) /\ Released(Acting(pg, VI!Becomes("B"))).st = pg.st BY <2>1, Releasing
  <2> QED BY <2>1, <2>2, <2>3
<1>g. Ground BY Grounds DEF SteadyInv
<1>d. Placed' BY <1>u DEF Placed
<1>s. ASSUME Sound(pg'), DOMAIN me' = DOMAIN me, me'.result # "thrown",
             Clear => ~me'.thrown /\ Fits(pg'.st, me'.at, pg'.saves)
      PROVE  SteadyInv'
  BY <1>s, <1>u, <1>c, <1>w, <1>d DEF SteadyInv, Calm, Fits
<1>f. me.at \notin {"start", "close", "done", "finally"} => me.result # "thrown" BY DEF SteadyInv
<1>p1. ASSUME VI!DistinctTenants PROVE SteadyInv'
  <2> DEFINE after(m) == IF VI!Target.mat THEN VI!Surfaced(m) ELSE [m EXCEPT !.at = "deps"]
             unread   == [me EXCEPT !.loc.unread = @ \cup {VI!Current}]
             raises   == VI!Target.tenants = "unreadable"
  <2>1. VI!Guarded("tenants", raises, VI!Released(pg), after(me), after(unread))
    BY <1>p1 DEF VI!DistinctTenants
  <2> HIDE DEF after, raises
  <2>2. /\ me.at = "tenants"
        /\ \/ pg' = VI!Released(pg) /\ VI!Live
           \/ pg' = VI!Undone(VI!Failed)
        /\ me' = after(me) \/ me' = after(unread)
    BY <2>1 DEF VI!Guarded, VI!Do
  <2>3. ASSUME NEW m, DOMAIN m = DOMAIN me, m.thrown = me.thrown, m.result = me.result, me' = after(m)
        PROVE  DOMAIN me' = DOMAIN me /\ me'.at \in {"surface", "deps"} /\ me'.thrown = me.thrown /\ me'.result = me.result
    BY <2>3 DEF SteadyInv, after, VI!Surfaced
  <2>4. DOMAIN unread = DOMAIN me /\ unread.thrown = me.thrown /\ unread.result = me.result
    BY DEF SteadyInv
  <2>5. DOMAIN me' = DOMAIN me /\ me'.at \in {"surface", "deps"} /\ me'.thrown = me.thrown /\ me'.result = me.result
    BY <2>2, <2>3, <2>4
  <2>6. Sound(pg') /\ (pg.st = "open" /\ pg.saves # <<>> => pg'.st = "open")
    BY <1>b, <1>g, <2>2 DEF Ground
  <2>7. Clear => ~me.thrown /\ Fits(pg'.st, me'.at, pg'.saves)
    BY <1>w, <2>2, <2>5, <2>6 DEF SteadyInv, Calm, Fits, Loose, Ends
  <2> QED BY <1>s, <1>f, <2>2, <2>5, <2>6, <2>7
<1>p2. ASSUME VI!ProbeForward PROVE SteadyInv'
  <2> DEFINE own    == VI!Finds(VI!Target, VI!Becomes("A"), "A")
             cross  == VI!Finds(VI!Target, VI!Becomes("A"), "B")
             raises == world.hook = "fails" \/ VI!Target.reads = "denied"
  <2>1. VI!Guarded("forward", raises, VI!Acting(pg, VI!Becomes("A")),
                   [VI!To("reverse") EXCEPT !.loc.own = own, !.loc.cross = cross], VI!Unproven)
    BY <1>p2 DEF VI!ProbeForward
  <2> HIDE DEF own, cross, raises
  <2>2. /\ me.at = "forward"
        /\ \/ pg' = VI!Acting(pg, VI!Becomes("A")) /\ me' = [VI!To("reverse") EXCEPT !.loc.own = own, !.loc.cross = cross]
           \/ pg' = VI!Undone(VI!Failed) /\ me' = VI!Unproven
    BY <2>1 DEF VI!Guarded, VI!Do
  <2>3. ASSUME me' = [VI!To("reverse") EXCEPT !.loc.own = own, !.loc.cross = cross]
        PROVE  DOMAIN me' = DOMAIN me /\ me'.at = "reverse" /\ me'.thrown = me.thrown /\ me'.result = me.result
    BY <2>3 DEF SteadyInv, VI!To
  <2>4. ASSUME me' = VI!Unproven
        PROVE  DOMAIN me' = DOMAIN me /\ me'.at = "next" /\ me'.thrown = me.thrown /\ me'.result = me.result
    BY <2>4 DEF SteadyInv, VI!Unproven, VI!Onward, VI!Said
  <2>5. CASE pg' = VI!Acting(pg, VI!Becomes("A")) /\ me' = [VI!To("reverse") EXCEPT !.loc.own = own, !.loc.cross = cross]
    <3>1. Sound(pg') /\ pg'.st = pg.st /\ pg'.saves = pg.saves BY <1>r, <2>5
    <3>2. DOMAIN me' = DOMAIN me /\ me'.at = "reverse" /\ me'.thrown = me.thrown /\ me'.result = me.result
      BY <2>3, <2>5
    <3>3. Clear => ~me.thrown /\ Fits(pg'.st, me'.at, pg'.saves)
      BY <1>w, <2>2, <3>1, <3>2 DEF SteadyInv, Calm, Fits, Loose, Ends
    <3> QED BY <1>s, <1>f, <2>2, <3>1, <3>2, <3>3
  <2>6. CASE pg' = VI!Undone(VI!Failed) /\ me' = VI!Unproven
    <3>1. Sound(pg') /\ (pg.st = "open" /\ pg.saves # <<>> => pg'.st = "open") BY <1>b, <1>g, <2>6 DEF Ground
    <3>2. DOMAIN me' = DOMAIN me /\ me'.at = "next" /\ me'.thrown = me.thrown /\ me'.result = me.result
      BY <2>4, <2>6
    <3>3. Clear => ~me.thrown /\ Fits(pg'.st, me'.at, pg'.saves)
      BY <1>w, <2>2, <3>1, <3>2 DEF SteadyInv, Calm, Fits, Loose, Ends
    <3> QED BY <1>s, <1>f, <2>2, <3>1, <3>2, <3>3
  <2> QED BY <2>2, <2>5, <2>6
<1> USE <1>c, <1>w, <1>b, <1>d, <1>r, <1>g DEF SteadyInv, Calm, Fits, Ground, Loose, Ends
<1> USE DEF VI!Await, VI!Do, VI!Guarded, VI!Live, VI!Onward, VI!Said, VI!Thrown, VI!To
<1>1. CASE VI!PlanViews BY <1>1 DEF VI!Ending, VI!PlanViews, VI!Planned
<1>2. CASE VI!Begin BY <1>2 DEF VI!Begin
<1>3. CASE VI!NextSurface BY <1>3 DEF VI!NextSurface
<1>4. CASE VI!DistinctTenants BY <1>4, <1>p1
<1>5. CASE VI!NestedViewDeps BY <1>5 DEF VI!NestedViewDeps, VI!Surfaced
<1>6. CASE VI!CreateCanary("role") BY <1>6 DEF VI!Attempt, VI!CreateCanary
<1>7. CASE VI!SwitchRole("check") BY <1>7 DEF VI!SwitchRole
<1>8. CASE VI!CheckCanary("next") BY <1>8 DEF VI!CheckCanary, VI!Ending
<1>9. CASE VI!NextView BY <1>9 DEF VI!NextView
<1>10. CASE VI!ProbeForward BY <1>10, <1>p2
<1>11. CASE VI!ProbeReverse BY <1>11 DEF VI!ProbeReverse, VI!Unproven
<1>12. CASE VI!RollBack("close") BY <1>12 DEF VI!RollBack
<1>13. CASE VI!Connect BY <1>13 DEF VI!Connect
<1>14. CASE VI!Disconnect BY <1>14 DEF VI!Disconnect, VI!Verdict
<1> QED BY <1>1, <1>2, <1>3, <1>4, <1>5, <1>6, <1>7, <1>8, <1>9, <1>10, <1>11, <1>12, <1>13, <1>14 DEF VI!Next, VI!Check, VI!Run, VI!SelfCheck

LEMMA StorageIsolationSteady ==
  ASSUME SteadyInv, world.guard = "storage-isolation", SI!Next
  PROVE  SteadyInv'
<1>u. world' = world /\ fault' = fault
  BY DEF SI!Next, SI!Check, SI!Run, SI!SelfCheck, SI!Attempt, SI!Await,
      SI!Begin, SI!BucketListing, SI!CheckCanary, SI!ClassifyOrphans, SI!Connect, SI!CreateCanary, SI!Disconnect,
      SI!Do, SI!Guarded, SI!NextBucket, SI!Plan, SI!ProbeReads, SI!ProbeUpload, SI!ResetRole, SI!RollBack,
      SI!SettleBucket
<1>c. Clear' = Clear /\ (Clear => world.temp) /\ (world.setup = "refused" => ~Clear)
  BY <1>u DEF Clear, Truth, SI!Truth, SI!Fragile
<1>w. /\ Inside = {"canary", "next", "listing", "settle", "check", "reads", "uploads", "reset"} /\ Inside' = Inside
      /\ Held = {"listing"} /\ Held' = Held
  BY <1>u DEF Inside, Held
<1>b. /\ \A s : SI!Undone(s) = Undone(s)
      /\ \A s : SI!Released(s) = Released(s)
      /\ \A s : SI!Saved(s) = Saved(s)
      /\ \A s : SI!Began(s) = Began(s)
      /\ \A s : SI!RolledBack(s) = RolledBack(s)
      /\ SI!Failed = Failed
      /\ SI!Closed = Closed
  BY DEF Acting, AsRole, Began, Closed, Failed, Made, Released, RolledBack, Saved, Undone, SI!Acting, SI!AsRole,
      SI!Began, SI!Closed, SI!Failed, SI!Made, SI!Released, SI!RolledBack, SI!Saved, SI!Undone
<1>r. /\ Sound(SI!Made(pg, "canary")) /\ SI!Made(pg, "canary").st = pg.st /\ SI!Made(pg, "canary").saves = pg.saves
      /\ Sound(SI!AsRole(pg, "app")) /\ SI!AsRole(pg, "app").st = pg.st /\ SI!AsRole(pg, "app").saves = pg.saves
      /\ Sound(SI!Acting(pg, SI!Becomes("B"))) /\ SI!Acting(pg, SI!Becomes("B")).st = pg.st /\ SI!Acting(pg, SI!Becomes("B")).saves = pg.saves
      /\ Sound(SI!AsRole(pg, "conn")) /\ SI!AsRole(pg, "conn").st = pg.st /\ SI!AsRole(pg, "conn").saves = pg.saves
  <2>1. /\ Sound(Made(pg, "canary")) /\ Made(pg, "canary").st = pg.st /\ Made(pg, "canary").saves = pg.saves
        /\ Sound(AsRole(pg, "app")) /\ AsRole(pg, "app").st = pg.st /\ AsRole(pg, "app").saves = pg.saves
        /\ Sound(Acting(pg, SI!Becomes("B"))) /\ Acting(pg, SI!Becomes("B")).st = pg.st /\ Acting(pg, SI!Becomes("B")).saves = pg.saves
        /\ Sound(AsRole(pg, "conn")) /\ AsRole(pg, "conn").st = pg.st /\ AsRole(pg, "conn").saves = pg.saves
    BY Plainly DEF SteadyInv
  <2>2. /\ SI!Made(pg, "canary") = Made(pg, "canary")
        /\ SI!AsRole(pg, "app") = AsRole(pg, "app")
        /\ SI!Acting(pg, SI!Becomes("B")) = Acting(pg, SI!Becomes("B"))
        /\ SI!AsRole(pg, "conn") = AsRole(pg, "conn")
    BY DEF AsRole, Acting, Made, SI!AsRole, SI!Acting, SI!Made
  <2> QED BY <2>1, <2>2
<1>g. Ground BY Grounds DEF SteadyInv
<1>s. ASSUME Sound(pg'), DOMAIN me' = DOMAIN me, me'.result # "thrown",
             Clear => ~me'.thrown /\ Fits(pg'.st, me'.at, pg'.saves), Placed'
      PROVE  SteadyInv'
  BY <1>s, <1>u, <1>c, <1>w DEF SteadyInv, Calm, Fits
<1>f. me.at \notin {"start", "close", "done", "finally"} => me.result # "thrown" BY DEF SteadyInv
<1> DEFINE Alike(m) == DOMAIN m = DOMAIN me /\ m.thrown = me.thrown /\ m.result = me.result /\ m.todo = me.todo
           Bucket == 1..Len(world.targets)
           Asking == {"check", "reads", "uploads", "reset"}
           Visiting == {"listing", "settle"} \cup Asking
<1>k. /\ me.todo \in Seq(Bucket)
      /\ me.at \in Visiting => me.todo # <<>>
      /\ me.at \in Asking => ~SI!Settled
  BY DEF SteadyInv, Placed
<1>t. me.todo # <<>> => Tail(me.todo) \in Seq(Bucket) /\ Head(me.todo) \in Bucket
  <2> HIDE DEF Bucket
  <2> QED BY <1>k, HeadTailProperties
<1>n. Clear /\ me.todo # <<>> /\ ~SI!Settled => world.member /\ world.hook # "fails" /\ SI!Target.reads # "denied"
  BY <1>t DEF Clear, Truth, SI!Truth, SI!Fragile, SI!Settled, SI!Target
<1>v. ASSUME \/ me'.todo = me.todo
             \/ me.todo # <<>> /\ me'.todo = Tail(me.todo) /\ me'.at \notin Visiting,
             me'.at \in Visiting => me.todo # <<>>,
             me'.at \in Asking => ~SI!Settled
      PROVE  Placed'
  <2>1. me'.todo = me.todo => (SI!Settled)' = SI!Settled BY <1>u DEF SI!Settled, SI!Target
  <2>2. me'.todo \in Seq(Bucket) BY <1>k, <1>t, <1>v
  <2>3. Bucket' = Bucket BY <1>u
  <2> QED BY <1>u, <1>v, <2>1, <2>2, <2>3 DEF Placed
<1>m. Alike(me) OBVIOUS
<1>a. ASSUME NEW m, Alike(m), NEW on, NEW arm, NEW says PROVE Alike(SI!Said(m, on, arm, says))
  BY <1>a DEF SteadyInv, SI!Said
<1>e. ASSUME NEW m, Alike(m), NEW l PROVE Alike([m EXCEPT !.at = l]) /\ [m EXCEPT !.at = l].at = l
  BY <1>e DEF SteadyInv
<1>j. ASSUME NEW m, Alike(m), NEW x PROVE Alike([m EXCEPT !.loc = x]) /\ [m EXCEPT !.loc = x].at = m.at
  BY <1>j DEF SteadyInv
<1>o. ASSUME NEW m, Alike(m)
      PROVE  /\ DOMAIN SI!Onward(m) = DOMAIN me /\ SI!Onward(m).thrown = me.thrown /\ SI!Onward(m).result = me.result
             /\ SI!Onward(m).todo = Tail(me.todo) /\ SI!Onward(m).at = "next"
  BY <1>o DEF SteadyInv, SI!Onward
<1>h. ASSUME me' = SI!Thrown, pg' = SI!Failed, ~Clear, me.result # "thrown" PROVE SteadyInv'
  <2>1. DOMAIN me' = DOMAIN me /\ me'.at = "finally" /\ me'.result = me.result /\ me'.todo = me.todo
    BY <1>h DEF SteadyInv, SI!Thrown
  <2>2. Placed' BY <1>v, <2>1
  <2>3. Sound(pg') BY <1>b, <1>g, <1>h DEF Ground
  <2> QED BY <1>s, <1>h, <2>1, <2>2, <2>3
<1>y. ASSUME Alike(me'), Sound(pg'), me.result # "thrown",
             me'.at \in Visiting => me.todo # <<>>,
             me'.at \in Asking => ~SI!Settled,
             Clear => Fits(pg'.st, me'.at, pg'.saves)
      PROVE  SteadyInv'
  <2>1. Placed' BY <1>v, <1>y
  <2> QED BY <1>y, <1>s, <2>1 DEF SteadyInv, Calm
<1>l. Clear /\ me.at # "start" /\ me.at \notin Ends => SI!Live
  BY <1>w DEF SteadyInv, Calm, Fits, Loose, Ends, SI!Live
<1>p1. ASSUME SI!Plan PROVE SteadyInv'
  <2> DEFINE flagged == IF world.rls THEN me ELSE SI!Said(me, 0, "rls", "leak")
  <2>1. Alike(flagged) BY <1>a, <1>m
  <2> HIDE DEF flagged, Alike
  <2>2. SI!Await("plan", FALSE, pg, IF ~world.present THEN SI!Ending(me, "skip")
                                    ELSE IF world.targets = <<>> THEN SI!Ending(flagged, "skip")
                                    ELSE [flagged EXCEPT !.at = "begin"])
    BY <1>p1 DEF SI!Plan, flagged
  <2>3. me.at = "plan" BY <2>2 DEF SI!Await
  <2>4. CASE ~SI!Live
    <3>1. me' = SI!Thrown /\ pg' = SI!Failed BY <2>2, <2>4 DEF SI!Await, SI!Do
    <3> QED BY <1>f, <1>h, <1>l, <2>3, <2>4, <3>1 DEF Ends
  <2>5. CASE SI!Live
    <3>0. pg' = pg BY <2>2, <2>5 DEF SI!Await, SI!Do
    <3>1. \/ \E m : Alike(m) /\ me' = SI!Ending(m, "skip")
          \/ me' = [flagged EXCEPT !.at = "begin"]
      BY <1>m, <2>1, <2>2, <2>5 DEF SI!Await, SI!Do
    <3>2. CASE me' = [flagged EXCEPT !.at = "begin"]
      <4>1. Alike(me') /\ me'.at = "begin" BY <1>e, <2>1, <3>2
      <4>2. Clear => Fits(pg'.st, me'.at, pg'.saves)
        BY <1>w, <2>3, <3>0, <4>1 DEF SteadyInv, Calm, Fits, Ends
      <4>3. Sound(pg') BY <3>0 DEF SteadyInv
      <4>4. me'.at \notin Visiting /\ me.result # "thrown" BY <1>f, <2>3, <4>1
      <4> QED BY <1>y, <4>1, <4>2, <4>3, <4>4
    <3>3. ASSUME NEW m, Alike(m), me' = SI!Ending(m, "skip") PROVE SteadyInv'
      <4>1. DOMAIN me' = DOMAIN me /\ me'.at = "close" /\ me'.thrown = me.thrown /\ me'.result = "skip" /\ me'.todo = me.todo
        BY <3>3 DEF SteadyInv, SI!Ending, Alike
      <4>2. Placed' BY <1>v, <4>1
      <4>3. Clear => ~me.thrown /\ Fits(pg'.st, me'.at, pg'.saves)
        BY <1>w, <2>3, <3>0, <4>1 DEF SteadyInv, Calm, Fits, Ends
      <4>4. Sound(pg') BY <3>0 DEF SteadyInv
      <4> QED BY <1>s, <4>1, <4>2, <4>3, <4>4
    <3> QED BY <3>1, <3>2, <3>3
  <2> QED BY <2>4, <2>5
<1>p2. ASSUME SI!CheckCanary("reads") PROVE SteadyInv'
  <2>1. /\ me.at = "check"
        /\ \/ pg' = SI!RolledBack(pg) /\ me' = SI!Ending(me, "refused")
           \/ pg' = pg /\ me' = SI!To("reads")
           \/ pg' = SI!Failed /\ me' = SI!To("reads") /\ ~SI!Live
    BY <1>p2 DEF SI!CheckCanary, SI!Do
  <2>2. CASE pg' = SI!RolledBack(pg) /\ me' = SI!Ending(me, "refused")
    <3>1. DOMAIN me' = DOMAIN me /\ me'.at = "close" /\ me'.thrown = me.thrown /\ me'.result = "refused" /\ me'.todo = me.todo
      BY <2>2 DEF SteadyInv, SI!Ending
    <3>2. Placed' BY <1>v, <3>1
    <3>3. Sound(pg') BY <1>b, <1>g, <2>2 DEF Ground
    <3>4. Clear => ~me.thrown /\ Fits(pg'.st, me'.at, pg'.saves)
      BY <1>w, <2>1, <3>1 DEF SteadyInv, Calm, Fits, Ends
    <3> QED BY <1>s, <3>1, <3>2, <3>3, <3>4
  <2>3. CASE me' = SI!To("reads") /\ (pg' = pg \/ (pg' = SI!Failed /\ ~SI!Live))
    <3>1. Alike(me') /\ me'.at = "reads" BY <1>e, <1>m, <2>3 DEF SI!To
    <3>2. Sound(pg') /\ (SI!Live => pg' = pg) BY <1>b, <1>g, <2>3 DEF Ground
    <3>3. Clear => Fits(pg'.st, me'.at, pg'.saves)
      BY <1>l, <1>w, <2>1, <3>1, <3>2 DEF SteadyInv, Calm, Fits, Loose, Ends
    <3> HIDE DEF Alike
    <3> QED BY <1>f, <1>k, <1>y, <2>1, <3>1, <3>2, <3>3
  <2>4. \/ pg' = SI!RolledBack(pg) /\ me' = SI!Ending(me, "refused")
        \/ me' = SI!To("reads") /\ (pg' = pg \/ (pg' = SI!Failed /\ ~SI!Live))
    BY <2>1, Zenon
  <2> QED BY <2>2, <2>3, <2>4
<1>p3. ASSUME SI!SettleBucket PROVE SteadyInv'
  <2> DEFINE says == IF SI!Target.public /\ SI!Target.folders = "two" THEN "leak" ELSE "note"
  <2>1. me.at = "settle" BY <1>p3 DEF SI!SettleBucket, SI!Await
  <2>2. CASE pg' = pg /\ me' = SI!Onward(SI!Said(me, SI!Current, "tenant", says))
    <3> HIDE DEF says
    <3>1. Alike(SI!Said(me, SI!Current, "tenant", says)) BY <1>a, <1>m
    <3>2. /\ DOMAIN me' = DOMAIN me /\ me'.thrown = me.thrown /\ me'.result = me.result
          /\ me'.todo = Tail(me.todo) /\ me'.at = "next"
      <4> HIDE DEF Alike
      <4> QED BY <1>o, <2>2, <3>1
    <3>3. Placed' BY <1>k, <1>v, <2>1, <3>2
    <3>4. Clear => ~me.thrown /\ Fits(pg'.st, me'.at, pg'.saves)
      BY <1>w, <2>1, <2>2, <3>2 DEF SteadyInv, Calm, Fits, Loose, Ends
    <3>5. Sound(pg') BY <2>2 DEF SteadyInv
    <3> QED BY <1>s, <1>f, <2>1, <3>2, <3>3, <3>4, <3>5
  <2>3. CASE ~SI!Settled /\ SI!Await("settle", ~world.member, SI!AsRole(pg, "app"), SI!To("check"))
    <3>1. CASE SI!Live /\ world.member
      <4>1. pg' = SI!AsRole(pg, "app") /\ me' = SI!To("check") BY <2>3, <3>1 DEF SI!Await, SI!Do
      <4>2. Alike(me') /\ me'.at = "check" BY <1>e, <1>m, <4>1 DEF SI!To
      <4>3. Sound(pg') /\ pg'.st = pg.st /\ pg'.saves = pg.saves BY <1>r, <4>1
      <4>4. Clear => Fits(pg'.st, me'.at, pg'.saves)
        BY <1>w, <2>1, <4>2, <4>3 DEF SteadyInv, Calm, Fits, Loose, Ends
      <4> HIDE DEF Alike
      <4> QED BY <1>f, <1>k, <1>y, <2>1, <2>3, <4>2, <4>3, <4>4
    <3>2. CASE ~(SI!Live /\ world.member)
      <4>1. pg' = SI!Failed /\ me' = SI!Thrown BY <2>3, <3>2 DEF SI!Await, SI!Do
      <4>2. ~Clear BY <1>k, <1>l, <1>n, <2>1, <2>3, <3>2 DEF Ends
      <4> QED BY <1>f, <1>h, <2>1, <4>1, <4>2
    <3> QED BY <3>1, <3>2
  <2> QED BY <1>p3, <2>1, <2>2, <2>3, Zenon DEF SI!SettleBucket, SI!Do
<1>p4. ASSUME SI!ProbeReads PROVE SteadyInv'
  <2> DEFINE sees(who, folder) == SI!Reaches(SI!Target.reads, SI!Becomes(who), folder)
             cross  == sees("A", "B") \/ sees("B", "A")
             own    == sees("A", "A")
             raises == world.hook = "fails" \/ SI!Target.reads = "denied"
             how    == IF pg.st = "open" /\ world.hook # "fails" THEN "denied" ELSE "error"
  <2>1. SI!Attempt("reads", raises, SI!Acting(pg, SI!Becomes("B")),
                   [SI!To("uploads") EXCEPT !.loc.cross = cross, !.loc.own = own],
                   [SI!To("reset") EXCEPT !.loc.failed = how])
    BY <1>p4 DEF SI!ProbeReads
  <2>2. Clear => SI!Live /\ ~raises BY <1>k, <1>l, <1>n, <2>1 DEF Ends, SI!Attempt
  <2> HIDE DEF sees, cross, own, raises, how
  <2>3. me.at = "reads" BY <2>1 DEF SI!Attempt
  <2>4. CASE SI!Live /\ ~raises
    <3>1. pg' = SI!Acting(pg, SI!Becomes("B")) /\ me' = [SI!To("uploads") EXCEPT !.loc.cross = cross, !.loc.own = own]
      BY <2>1, <2>4 DEF SI!Attempt, SI!Do
    <3>2. Alike(me') /\ me'.at = "uploads" BY <3>1 DEF SI!To, SteadyInv
    <3>3. Sound(pg') /\ pg'.st = pg.st /\ pg'.saves = pg.saves BY <1>r, <3>1
    <3>4. Clear => Fits(pg'.st, me'.at, pg'.saves)
      BY <1>w, <2>3, <3>2, <3>3 DEF SteadyInv, Calm, Fits, Loose, Ends
    <3> HIDE DEF Alike
    <3> QED BY <1>f, <1>k, <1>y, <2>3, <3>2, <3>3, <3>4
  <2>5. CASE ~(SI!Live /\ ~raises)
    <3>1. pg' = SI!Failed /\ me' = [SI!To("reset") EXCEPT !.loc.failed = how] BY <2>1, <2>5 DEF SI!Attempt, SI!Do
    <3>2. Alike(me') /\ me'.at = "reset" BY <3>1 DEF SI!To, SteadyInv
    <3>3. Sound(pg') BY <1>b, <1>g, <3>1 DEF Ground
    <3> HIDE DEF Alike
    <3> QED BY <1>f, <1>k, <1>y, <2>2, <2>3, <2>5, <3>2, <3>3
  <2> QED BY <2>4, <2>5
<1>p5. ASSUME SI!ProbeUpload PROVE SteadyInv'
  <2> DEFINE own == world.uploads /\ SI!Reaches(SI!Target.writes, pg.who, "B")
             hop == world.uploads /\ SI!Reaches(SI!Target.writes, pg.who, "B") /\ SI!Reaches(SI!Target.writes, pg.who, "A")
  <2>1. /\ me.at = "uploads"
        /\ \/ pg' = pg /\ me' = [SI!To("reset") EXCEPT !.loc.ownHop = own, !.loc.hop = hop]
           \/ ~SI!Live /\ pg' = SI!Failed /\ \E x : me' = [SI!To("reset") EXCEPT !.loc.failed = x]
           \/ /\ pg.st = "aborted" /\ pg' = [pg EXCEPT !.st = "open"]
              /\ me' = [SI!To("reset") EXCEPT !.loc.ownHop = FALSE, !.loc.hop = FALSE]
    BY <1>p5, Zenon DEF SI!ProbeUpload, SI!Attempt, SI!Do
  <2> HIDE DEF own, hop
  <2>2. Alike(me') /\ me'.at = "reset" BY <2>1 DEF SI!To, SteadyInv
  <2>5. Clear => pg.st # "aborted" BY <1>l, <2>1 DEF SI!Live, Ends
  <2>6. Sound([pg EXCEPT !.st = "open"]) BY DEF SteadyInv, Sound, IsSeq
  <2>3. Sound(pg') /\ (Clear => pg' = pg) BY <1>b, <1>g, <1>l, <2>1, <2>5, <2>6 DEF Ground, Ends
  <2>4. Clear => Fits(pg'.st, me'.at, pg'.saves)
    BY <1>w, <2>1, <2>2, <2>3 DEF SteadyInv, Calm, Fits, Loose, Ends
  <2> HIDE DEF Alike
  <2> QED BY <1>f, <1>k, <1>y, <2>1, <2>2, <2>3, <2>4
<1>p6. ASSUME SI!ResetRole PROVE SteadyInv'
  <2> DEFINE judged == SI!Said(me, SI!Current, "tenant", SI!ClassifyBucket(me.loc))
             calm   == [judged EXCEPT !.loc.failed = "no"]
  <2>1. SI!Await("reset", FALSE, SI!AsRole(pg, "conn"), SI!Onward(calm)) BY <1>p6 DEF SI!ResetRole
  <2>2. Alike(judged) BY <1>a, <1>m
  <2> HIDE DEF judged
  <2>3. Alike(calm) BY <2>2
  <2> HIDE DEF calm, Alike
  <2>4. me.at = "reset" BY <2>1 DEF SI!Await
  <2>5. CASE SI!Live
    <3>1. pg' = SI!AsRole(pg, "conn") /\ me' = SI!Onward(calm) BY <2>1, <2>5 DEF SI!Await, SI!Do
    <3>2. /\ DOMAIN me' = DOMAIN me /\ me'.thrown = me.thrown /\ me'.result = me.result
          /\ me'.todo = Tail(me.todo) /\ me'.at = "next"
      BY <1>o, <2>3, <3>1
    <3>3. Placed' BY <1>k, <1>v, <2>4, <3>2
    <3>4. Sound(pg') /\ pg'.st = pg.st /\ pg'.saves = pg.saves BY <1>r, <3>1
    <3>5. Clear => ~me.thrown /\ Fits(pg'.st, me'.at, pg'.saves)
      BY <1>w, <2>4, <3>2, <3>4 DEF SteadyInv, Calm, Fits, Loose, Ends
    <3> QED BY <1>s, <1>f, <2>4, <3>2, <3>3, <3>4, <3>5
  <2>6. CASE ~SI!Live
    <3>1. pg' = SI!Failed /\ me' = SI!Thrown BY <2>1, <2>6 DEF SI!Await, SI!Do
    <3> QED BY <1>f, <1>h, <1>l, <2>4, <2>6, <3>1 DEF Ends
  <2> QED BY <2>5, <2>6
<1> HIDE DEF Alike, Bucket, Asking, Visiting
<1> USE <1>c, <1>w, <1>b, <1>r, <1>g DEF SteadyInv, Calm, Fits, Ground, Loose, Ends, Placed
<1> USE DEF SI!Attempt, SI!Await, SI!Do, SI!Live, SI!Said, SI!Thrown, SI!To
<1>1. CASE SI!Plan BY <1>1, <1>p1
<1>2. CASE SI!Begin BY <1>2 DEF SI!Begin
<1>3. CASE SI!CreateCanary("next") BY <1>3 DEF SI!CreateCanary
<1>4. CASE SI!CheckCanary("reads") BY <1>4, <1>p2
<1>5. CASE SI!NextBucket BY <1>5 DEF SI!NextBucket
<1>6. CASE SI!BucketListing BY <1>6 DEF SI!BucketListing, SI!Guarded
<1>7. CASE SI!SettleBucket BY <1>7, <1>p3
<1>8. CASE SI!ProbeReads BY <1>8, <1>p4
<1>9. CASE SI!ProbeUpload BY <1>9, <1>p5
<1>10. CASE SI!ResetRole BY <1>10, <1>p6
<1>11. CASE SI!RollBack("after") BY <1>11 DEF SI!RollBack
<1>12. CASE SI!ClassifyOrphans BY <1>12 DEF SI!ClassifyOrphans
<1>13. CASE SI!Connect BY <1>13 DEF SI!Connect
<1>14. CASE SI!Disconnect BY <1>14 DEF SI!Disconnect, SI!Verdict
<1> QED BY <1>1, <1>2, <1>3, <1>4, <1>5, <1>6, <1>7, <1>8, <1>9, <1>10, <1>11, <1>12, <1>13, <1>14 DEF SI!Next, SI!Check, SI!Run, SI!SelfCheck

LEMMA RealtimeIsolationSteady ==
  ASSUME SteadyInv, world.guard = "realtime-isolation", RI!Next
  PROVE  SteadyInv'
<1>u. world' = world /\ fault' = fault
  BY DEF RI!Next, RI!Check, RI!Run, RI!SelfCheck, RI!Attempt, RI!Await,
      RI!Begin, RI!CheckCanary, RI!Connect, RI!CreateCanary, RI!Disconnect, RI!DistinctTopicTenants, RI!Do, RI!Guarded,
      RI!Messages, RI!OpenBroadcast, RI!PlanChannels, RI!ProbeBroadcast, RI!ProbeForward, RI!ProbeReverse,
      RI!Publication, RI!ReadRls, RI!ResetRole, RI!RollBack, RI!SwitchRole, RI!Unproven
<1>c. Clear' = Clear /\ (world.setup = "refused" => ~Clear)
  BY <1>u DEF Clear, Truth, RI!Truth, RI!Fragile
<1>w. /\ Inside = {"tenants", "canary", "role", "check", "forward", "reverse", "own", "publish", "other", "intrude", "reset"} /\ Inside' = Inside
      /\ Held = {"publish", "intrude"} /\ Held' = Held
  BY <1>u DEF Inside, Held
<1>b. /\ \A s : RI!Undone(s) = Undone(s)
      /\ \A s : RI!Released(s) = Released(s)
      /\ \A s : RI!Saved(s) = Saved(s)
      /\ \A s : RI!Began(s) = Began(s)
      /\ \A s : RI!RolledBack(s) = RolledBack(s)
      /\ RI!Failed = Failed
      /\ RI!Closed = Closed
  BY DEF Acting, AsRole, Began, Closed, Failed, Made, Released, RolledBack, Saved, Undone, RI!Acting, RI!AsRole,
      RI!Began, RI!Closed, RI!Failed, RI!Made, RI!Released, RI!RolledBack, RI!Saved, RI!Undone
<1>r. /\ Sound(RI!Made(pg, "canary")) /\ RI!Made(pg, "canary").st = pg.st /\ RI!Made(pg, "canary").saves = pg.saves
      /\ Sound(RI!AsRole(pg, "app")) /\ RI!AsRole(pg, "app").st = pg.st /\ RI!AsRole(pg, "app").saves = pg.saves
      /\ Sound(RI!Acting(pg, RI!Becomes("A"))) /\ RI!Acting(pg, RI!Becomes("A")).st = pg.st /\ RI!Acting(pg, RI!Becomes("A")).saves = pg.saves
      /\ Sound(RI!Acting(pg, RI!Becomes("B"))) /\ RI!Acting(pg, RI!Becomes("B")).st = pg.st /\ RI!Acting(pg, RI!Becomes("B")).saves = pg.saves
      /\ Sound(RI!AsRole(pg, "conn")) /\ RI!AsRole(pg, "conn").st = pg.st /\ RI!AsRole(pg, "conn").saves = pg.saves
  <2>1. /\ Sound(Made(pg, "canary")) /\ Made(pg, "canary").st = pg.st /\ Made(pg, "canary").saves = pg.saves
        /\ Sound(AsRole(pg, "app")) /\ AsRole(pg, "app").st = pg.st /\ AsRole(pg, "app").saves = pg.saves
        /\ Sound(Acting(pg, RI!Becomes("A"))) /\ Acting(pg, RI!Becomes("A")).st = pg.st /\ Acting(pg, RI!Becomes("A")).saves = pg.saves
        /\ Sound(Acting(pg, RI!Becomes("B"))) /\ Acting(pg, RI!Becomes("B")).st = pg.st /\ Acting(pg, RI!Becomes("B")).saves = pg.saves
        /\ Sound(AsRole(pg, "conn")) /\ AsRole(pg, "conn").st = pg.st /\ AsRole(pg, "conn").saves = pg.saves
    BY Plainly DEF SteadyInv
  <2>2. /\ RI!Made(pg, "canary") = Made(pg, "canary")
        /\ RI!AsRole(pg, "app") = AsRole(pg, "app")
        /\ RI!Acting(pg, RI!Becomes("A")) = Acting(pg, RI!Becomes("A"))
        /\ RI!Acting(pg, RI!Becomes("B")) = Acting(pg, RI!Becomes("B"))
        /\ RI!AsRole(pg, "conn") = AsRole(pg, "conn")
    BY DEF AsRole, Acting, Made, RI!AsRole, RI!Acting, RI!Made
  <2> QED BY <2>1, <2>2
<1>g. Ground BY Grounds DEF SteadyInv
<1>s. ASSUME Sound(pg'), DOMAIN me' = DOMAIN me, me'.result # "thrown",
             Clear => ~me'.thrown /\ Fits(pg'.st, me'.at, pg'.saves), Placed'
      PROVE  SteadyInv'
  BY <1>s, <1>u, <1>c, <1>w DEF SteadyInv, Calm, Fits
<1>f. me.at \notin {"start", "close", "done", "finally"} => me.result # "thrown" BY DEF SteadyInv
<1> DEFINE Alike(m) == DOMAIN m = DOMAIN me /\ m.thrown = me.thrown /\ m.result = me.result /\ m.todo = me.todo
<1>k. /\ Head(me.todo) = 1
      /\ me.at \in Inside \cup {"begin"} => world.rls /\ world.policies
      /\ me.at \in Inside \ {"tenants"} => world.tenants > 1
      /\ world.tenants \in Nat
  BY DEF SteadyInv, Placed
<1>t. Clear /\ me.at \in Inside \ {"tenants"}
      => world.temp /\ world.member /\ world.hook # "fails" /\ RI!Target.reads # "denied"
  BY <1>k DEF Clear, Truth, RI!Truth, RI!Fragile, RI!Target
<1>v. ASSUME me'.todo = me.todo,
             me'.at \in Inside \cup {"begin"} => world.rls /\ world.policies,
             me'.at \in Inside \ {"tenants"} => world.tenants > 1
      PROVE  Placed'
  BY <1>k, <1>u, <1>v, <1>w DEF Placed
<1>m. Alike(me) OBVIOUS
<1>a. ASSUME NEW m, Alike(m), NEW on, NEW arm, NEW says
      PROVE  Alike(RI!Said(m, on, arm, says)) /\ RI!Said(m, on, arm, says).at = m.at
  BY <1>a DEF SteadyInv, RI!Said
<1>e. ASSUME NEW m, Alike(m), NEW l PROVE Alike([m EXCEPT !.at = l]) /\ [m EXCEPT !.at = l].at = l
  BY <1>e DEF SteadyInv
<1>l. Clear /\ me.at # "start" /\ me.at \notin Ends => RI!Live
  BY <1>w DEF SteadyInv, Calm, Fits, Loose, Ends, RI!Live
<1>y. ASSUME Alike(me'), Sound(pg'), me.result # "thrown",
             me'.at \in Inside \cup {"begin"} => world.rls /\ world.policies,
             me'.at \in Inside \ {"tenants"} => world.tenants > 1,
             Clear => Fits(pg'.st, me'.at, pg'.saves)
      PROVE  SteadyInv'
  <2>1. Placed' BY <1>v, <1>y
  <2> QED BY <1>y, <1>s, <2>1 DEF SteadyInv, Calm
<1>h. ASSUME me' = RI!Thrown, pg' = RI!Failed, ~Clear, me.result # "thrown" PROVE SteadyInv'
  <2>1. DOMAIN me' = DOMAIN me /\ me'.at = "finally" /\ me'.result = me.result /\ me'.todo = me.todo
    BY <1>h DEF SteadyInv, RI!Thrown
  <2>2. Placed' BY <1>v, <1>w, <2>1
  <2>3. Sound(pg') BY <1>b, <1>g, <1>h DEF Ground
  <2> QED BY <1>s, <1>h, <2>1, <2>2, <2>3
<1>p1. ASSUME RI!ReadRls PROVE SteadyInv'
  <2> DEFINE judged(s) == [RI!Messages(me, "tenant", s) EXCEPT !.at = "close"]
  <2>1. RI!Await("rls", FALSE, pg, IF ~world.rls THEN judged("leak") ELSE IF ~world.policies THEN judged("note")
                                   ELSE RI!To("begin"))
    BY <1>p1 DEF RI!ReadRls
  <2>2. \A s : Alike(judged(s)) /\ judged(s).at = "close" BY <1>a, <1>e, <1>m DEF RI!Messages
  <2>3. Alike(RI!To("begin")) /\ RI!To("begin").at = "begin" BY <1>e, <1>m DEF RI!To
  <2> HIDE DEF judged, Alike
  <2>4. me.at = "rls" BY <2>1 DEF RI!Await
  <2>5. CASE RI!Live
    <3>1. /\ pg' = pg
          /\ \/ me' = judged("leak") \/ me' = judged("note")
             \/ world.rls /\ world.policies /\ me' = RI!To("begin")
      BY <2>1, <2>5 DEF RI!Await, RI!Do
    <3>2. Alike(me') /\ (me'.at = "close" \/ (me'.at = "begin" /\ world.rls /\ world.policies))
      <4>1. CASE me' = judged("leak") BY <2>2, <4>1
      <4>2. CASE me' = judged("note") BY <2>2, <4>2
      <4>3. CASE world.rls /\ world.policies /\ me' = RI!To("begin") BY <2>3, <4>3
      <4> QED BY <3>1, <4>1, <4>2, <4>3
    <3>3. Clear => Fits(pg'.st, me'.at, pg'.saves)
      BY <1>w, <2>4, <3>1, <3>2 DEF SteadyInv, Calm, Fits, Ends
    <3> QED BY <1>f, <1>w, <1>y, <2>4, <3>1, <3>2, <3>3 DEF SteadyInv
  <2>6. CASE ~RI!Live
    <3>1. pg' = RI!Failed /\ me' = RI!Thrown BY <2>1, <2>6 DEF RI!Await, RI!Do
    <3> QED BY <1>f, <1>h, <1>l, <2>4, <2>6, <3>1 DEF Ends
  <2> QED BY <2>5, <2>6
<1>p2. ASSUME RI!DistinctTopicTenants PROVE SteadyInv'
  <2> DEFINE judged == [RI!Messages(me, "tenant", "note") EXCEPT !.at = "close"]
  <2>1. me.at = "tenants" BY <1>p2 DEF RI!DistinctTopicTenants, RI!Await
  <2>2. CASE ~RI!Live
    <3>1. pg' = RI!Failed /\ me' = RI!Thrown BY <1>p2, <2>2 DEF RI!DistinctTopicTenants, RI!Await, RI!Do
    <3> QED BY <1>f, <1>h, <1>l, <2>1, <2>2, <3>1 DEF Ends
  <2>3. CASE RI!Live
    <3>1. \/ pg' = RI!RolledBack(pg) /\ me' = judged
          \/ world.tenants > 1 /\ pg' = pg /\ me' = RI!To("canary")
      BY <1>k, <1>p2, <2>3 DEF RI!DistinctTopicTenants, RI!Await, RI!Do
    <3>2. Alike(judged) /\ judged.at = "close" BY <1>a, <1>e, <1>m DEF RI!Messages
    <3>3. Alike(RI!To("canary")) /\ RI!To("canary").at = "canary" BY <1>e, <1>m DEF RI!To
    <3> HIDE DEF judged, Alike
    <3>4. Alike(me') /\ (me'.at = "close" \/ (me'.at = "canary" /\ world.tenants > 1 /\ pg' = pg))
      <4>1. CASE me' = judged BY <3>2, <4>1
      <4>2. CASE world.tenants > 1 /\ pg' = pg /\ me' = RI!To("canary") BY <3>3, <4>2
      <4> QED BY <3>1, <4>1, <4>2
    <3>5. Sound(pg') BY <1>b, <1>g, <3>1 DEF Ground
    <3>6. Clear => Fits(pg'.st, me'.at, pg'.saves)
      BY <1>w, <2>1, <3>4 DEF SteadyInv, Calm, Fits, Loose, Ends
    <3> QED BY <1>f, <1>k, <1>w, <1>y, <2>1, <3>4, <3>5, <3>6
  <2> QED BY <2>2, <2>3
<1>p3. ASSUME RI!CreateCanary("role") PROVE SteadyInv'
  <2>1. /\ me.at = "canary"
        /\ \/ pg' = RI!Made(pg, "canary") /\ me' = [RI!To("role") EXCEPT !.loc.canary = TRUE]
           \/ pg' = RI!Failed /\ me' = RI!Said(RI!To("role"), 0, "canary", "note") /\ ~(RI!Live /\ world.temp)
    BY <1>p3 DEF RI!CreateCanary, RI!Attempt, RI!Do
  <2>2. Alike(me') /\ me'.at = "role" BY <2>1 DEF SteadyInv, RI!To, RI!Said
  <2>3. Sound(pg') /\ (Clear => pg'.st = pg.st /\ pg'.saves = pg.saves)
    BY <1>b, <1>g, <1>l, <1>r, <1>t, <1>w, <2>1 DEF Ground, Ends
  <2>4. Clear => Fits(pg'.st, me'.at, pg'.saves)
    BY <1>w, <2>1, <2>2, <2>3 DEF SteadyInv, Calm, Fits, Loose, Ends
  <2> HIDE DEF Alike
  <2> QED BY <1>f, <1>k, <1>w, <1>y, <2>1, <2>2, <2>3, <2>4
<1>p4. ASSUME RI!SwitchRole("check") PROVE SteadyInv'
  <2>1. me.at = "role" BY <1>p4 DEF RI!SwitchRole, RI!Await
  <2>2. CASE RI!Live /\ world.member
    <3>1. pg' = RI!AsRole(pg, "app") /\ me' = RI!To("check") BY <1>p4, <2>2 DEF RI!SwitchRole, RI!Await, RI!Do
    <3>2. Alike(me') /\ me'.at = "check" BY <1>e, <1>m, <3>1 DEF RI!To
    <3>3. Sound(pg') /\ pg'.st = pg.st /\ pg'.saves = pg.saves BY <1>r, <3>1
    <3>4. Clear => Fits(pg'.st, me'.at, pg'.saves)
      BY <1>w, <2>1, <3>2, <3>3 DEF SteadyInv, Calm, Fits, Loose, Ends
    <3> HIDE DEF Alike
    <3> QED BY <1>f, <1>k, <1>w, <1>y, <2>1, <3>2, <3>3, <3>4
  <2>3. CASE ~(RI!Live /\ world.member)
    <3>1. pg' = RI!Failed /\ me' = RI!Thrown BY <1>p4, <2>3 DEF RI!SwitchRole, RI!Await, RI!Do
    <3> QED BY <1>f, <1>h, <1>l, <1>t, <1>w, <2>1, <2>3, <3>1 DEF Ends
  <2> QED BY <2>2, <2>3
<1>p5. ASSUME RI!ProbeForward PROVE SteadyInv'
  <2> DEFINE cross  == RI!Reaches(RI!Target.reads, RI!Becomes("A"), "B")
             raises == world.hook = "fails" \/ RI!Target.reads = "denied"
  <2>1. RI!Attempt("forward", raises, RI!Acting(pg, RI!Becomes("A")),
                   [RI!To("reverse") EXCEPT !.loc.cross = cross], RI!Unproven)
    BY <1>p5 DEF RI!ProbeForward
  <2>2. Clear => RI!Live /\ ~raises BY <1>l, <1>t, <1>w, <2>1 DEF Ends, RI!Attempt
  <2> HIDE DEF cross, raises
  <2>3. me.at = "forward" BY <2>1 DEF RI!Attempt
  <2>4. CASE RI!Live /\ ~raises
    <3>1. pg' = RI!Acting(pg, RI!Becomes("A")) /\ me' = [RI!To("reverse") EXCEPT !.loc.cross = cross]
      BY <2>1, <2>4 DEF RI!Attempt, RI!Do
    <3>2. Alike(me') /\ me'.at = "reverse" BY <3>1 DEF RI!To, SteadyInv
    <3>3. Sound(pg') /\ pg'.st = pg.st /\ pg'.saves = pg.saves BY <1>r, <3>1
    <3>4. Clear => Fits(pg'.st, me'.at, pg'.saves)
      BY <1>w, <2>3, <3>2, <3>3 DEF SteadyInv, Calm, Fits, Loose, Ends
    <3> HIDE DEF Alike
    <3> QED BY <1>f, <1>k, <1>w, <1>y, <2>3, <3>2, <3>3, <3>4
  <2>5. CASE ~(RI!Live /\ ~raises)
    <3>1. pg' = RI!Failed /\ me' = RI!Unproven BY <2>1, <2>5 DEF RI!Attempt, RI!Do
    <3>2. Alike(me') /\ me'.at = "reset" BY <3>1 DEF RI!To, RI!Unproven, SteadyInv
    <3>3. Sound(pg') BY <1>b, <1>g, <3>1 DEF Ground
    <3> HIDE DEF Alike
    <3> QED BY <1>f, <1>k, <1>w, <1>y, <2>2, <2>3, <2>5, <3>2, <3>3
  <2> QED BY <2>4, <2>5
<1>p6. ASSUME RI!Connect PROVE SteadyInv'
  <2>1. me.at = "start" /\ me'.at \in {"done", "plan"} /\ me'.todo = me.todo BY <1>p6 DEF RI!Connect, RI!Do, RI!To, SteadyInv
  <2>2. Placed' BY <1>v, <1>w, <2>1
  <2>3. DOMAIN me' = DOMAIN me /\ Sound(pg')
    BY <1>b, <1>g, <1>p6 DEF Ground, RI!Connect, RI!Do, RI!To, SteadyInv
  <2>4. CASE world.setup = "refused"
    <3>1. me' = [me EXCEPT !.at = "done", !.result = "thrown", !.thrown = TRUE] BY <1>p6, <2>4 DEF RI!Connect, RI!Do
    <3>2. ~Clear /\ ~Clear' BY <1>c, <2>4
    <3> QED BY <2>2, <2>3, <3>1, <3>2 DEF SteadyInv
  <2>5. CASE world.setup # "refused"
    <3>1. me'.result \in {"skip", me.result} /\ me'.thrown = me.thrown
      BY <1>p6, <2>5 DEF RI!Connect, RI!Do, RI!To, SteadyInv
    <3>2. Clear => Fits(pg'.st, me'.at, pg'.saves)
      BY <1>p6, <1>w, <2>5 DEF RI!Connect, RI!Do, RI!To, SteadyInv, Calm, Fits, Ends, Sound
    <3> QED BY <1>s, <2>1, <2>2, <2>3, <3>1, <3>2 DEF SteadyInv, Calm
  <2> QED BY <2>4, <2>5
<1> HIDE DEF Alike
<1> USE <1>c, <1>w, <1>b, <1>r, <1>g DEF SteadyInv, Calm, Fits, Ground, Loose, Ends, Placed
<1> USE DEF RI!Attempt, RI!Await, RI!Do, RI!Live, RI!Said, RI!Thrown, RI!To
<1>1. CASE RI!PlanChannels BY <1>1 DEF RI!Ending, RI!PlanChannels
<1>2. CASE RI!Publication BY <1>2 DEF RI!Publication
<1>3. CASE RI!ReadRls BY <1>3, <1>p1
<1>4. CASE RI!Begin BY <1>4 DEF RI!Begin
<1>5. CASE RI!DistinctTopicTenants BY <1>5, <1>p2
<1>6. CASE RI!CreateCanary("role") BY <1>6, <1>p3
<1>7. CASE RI!SwitchRole("check") BY <1>7, <1>p4
<1>8. CASE RI!CheckCanary("forward") BY <1>8 DEF RI!CheckCanary, RI!Ending
<1>9. CASE RI!ProbeForward BY <1>9, <1>p5
<1>10. CASE RI!ProbeReverse BY <1>10 DEF RI!ProbeReverse, RI!Unproven
<1>11. CASE RI!OpenBroadcast BY <1>11 DEF RI!OpenBroadcast, RI!Unproven
<1>12. CASE RI!ProbeBroadcast BY <1>12 DEF RI!Guarded, RI!ProbeBroadcast
<1>13. CASE RI!ResetRole BY <1>13 DEF RI!Messages, RI!ResetRole
<1>14. CASE RI!RollBack("close") BY <1>14 DEF RI!RollBack
<1>15. CASE RI!Connect BY <1>15, <1>p6
<1>16. CASE RI!Disconnect BY <1>16 DEF RI!Disconnect, RI!Verdict
<1> QED BY <1>1, <1>2, <1>3, <1>4, <1>5, <1>6, <1>7, <1>8, <1>9, <1>10, <1>11, <1>12, <1>13, <1>14, <1>15, <1>16 DEF RI!Next, RI!Check, RI!Run, RI!SelfCheck

LEMMA DefinerRpcSteady ==
  ASSUME SteadyInv, world.guard = "definer-rpc", DR!Next
  PROVE  SteadyInv'
<1>u. world' = world /\ fault' = fault
  BY DEF DR!Next, DR!Check, DR!Run, DR!SelfCheck, DR!Attempt, DR!Await,
      DR!BecomeTenant, DR!Begin, DR!BodyChecks, DR!CallFunction, DR!CallWithSentinel, DR!CheckCanary, DR!Connect,
      DR!ControlArm, DR!CreateCanary, DR!Disconnect, DR!Do, DR!Guarded, DR!NextFunction, DR!NotCalled,
      DR!PlanFunctions, DR!RollBack, DR!SampleTenants, DR!SwitchRole, DR!WritableSchemas
<1>c. Clear' = Clear /\ (Clear => world.temp /\ world.member) /\ (world.setup = "refused" => ~Clear)
  BY <1>u DEF Clear, Truth, DR!Truth, DR!Fragile
<1>w. /\ Inside = {"canary", "role", "check", "become", "next", "call", "control", "sentinel"} /\ Inside' = Inside
      /\ Held = {"call", "sentinel"} /\ Held' = Held
  BY <1>u DEF Inside, Held
<1>b. /\ \A s : DR!Undone(s) = Undone(s)
      /\ \A s : DR!Released(s) = Released(s)
      /\ \A s : DR!Saved(s) = Saved(s)
      /\ \A s : DR!Began(s) = Began(s)
      /\ \A s : DR!RolledBack(s) = RolledBack(s)
      /\ DR!Failed = Failed
      /\ DR!Closed = Closed
  BY DEF Acting, AsRole, Began, Closed, Failed, Made, Released, RolledBack, Saved, Undone, DR!Acting, DR!AsRole,
      DR!Began, DR!Closed, DR!Failed, DR!Made, DR!Released, DR!RolledBack, DR!Saved, DR!Undone
<1>r. /\ Sound(DR!Made(pg, "canary")) /\ DR!Made(pg, "canary").st = pg.st /\ DR!Made(pg, "canary").saves = pg.saves
      /\ Sound(DR!AsRole(pg, "app")) /\ DR!AsRole(pg, "app").st = pg.st /\ DR!AsRole(pg, "app").saves = pg.saves
      /\ Sound(DR!Acting(pg, "A")) /\ DR!Acting(pg, "A").st = pg.st /\ DR!Acting(pg, "A").saves = pg.saves
  <2>1. /\ Sound(Made(pg, "canary")) /\ Made(pg, "canary").st = pg.st /\ Made(pg, "canary").saves = pg.saves
        /\ Sound(AsRole(pg, "app")) /\ AsRole(pg, "app").st = pg.st /\ AsRole(pg, "app").saves = pg.saves
        /\ Sound(Acting(pg, "A")) /\ Acting(pg, "A").st = pg.st /\ Acting(pg, "A").saves = pg.saves
    BY Plainly DEF SteadyInv
  <2>2. /\ DR!Made(pg, "canary") = Made(pg, "canary")
        /\ DR!AsRole(pg, "app") = AsRole(pg, "app")
        /\ DR!Acting(pg, "A") = Acting(pg, "A")
    BY DEF AsRole, Acting, Made, DR!AsRole, DR!Acting, DR!Made
  <2> QED BY <2>1, <2>2
<1>g. Ground BY Grounds DEF SteadyInv
<1>d. Placed' BY <1>u DEF Placed
<1>s. ASSUME Sound(pg'), DOMAIN me' = DOMAIN me, me'.result # "thrown",
             Clear => ~me'.thrown /\ Fits(pg'.st, me'.at, pg'.saves)
      PROVE  SteadyInv'
  BY <1>s, <1>u, <1>c, <1>w, <1>d DEF SteadyInv, Calm, Fits
<1>f. me.at \notin {"start", "close", "done", "finally"} => me.result # "thrown" BY DEF SteadyInv
<1> DEFINE Alike(m) == DOMAIN m = DOMAIN me /\ m.thrown = me.thrown /\ m.result = me.result
<1>m. Alike(me) OBVIOUS
<1>o. ASSUME NEW m, Alike(m) PROVE Alike(DR!Onward(m)) /\ DR!Onward(m).at = "next"
  BY <1>o DEF SteadyInv, DR!Onward
<1>a. ASSUME NEW m, Alike(m), NEW on, NEW arm, NEW says PROVE Alike(DR!Said(m, on, arm, says))
  BY <1>a DEF SteadyInv, DR!Said
<1>e. ASSUME NEW m, Alike(m), NEW l PROVE Alike([m EXCEPT !.at = l]) /\ [m EXCEPT !.at = l].at = l
  BY <1>e DEF SteadyInv
<1> HIDE DEF Alike
<1>p1. ASSUME DR!NextFunction PROVE SteadyInv'
  <2> DEFINE m == DR!BodyChecks(me, DR!Current, DR!Target)
  <2>1. Alike(m) BY DEF SteadyInv, Alike, DR!BodyChecks
  <2>2. Alike(DR!NotCalled(m, DR!Current, DR!Target)) BY <1>a, <2>1 DEF DR!NotCalled
  <2> HIDE DEF m
  <2>3. Alike(DR!To("finally")) /\ DR!To("finally").at = "finally" BY <1>m, <1>e DEF DR!To
  <2>4. /\ me.at = "next"
        /\ \/ pg' = pg /\ me' = DR!To("finally")
           \/ pg' = pg /\ me' = DR!Onward(DR!NotCalled(m, DR!Current, DR!Target))
           \/ DR!Await("next", FALSE, DR!Saved(pg), [m EXCEPT !.at = "call"])
    BY <1>p1, Zenon DEF DR!NextFunction, DR!Do, m
  <2>5. CASE pg' = pg /\ me' = DR!To("finally")
    <3>1. Alike(me') /\ me'.at = "finally" BY <2>3, <2>5
    <3>2. Clear => ~me.thrown /\ Fits(pg'.st, me'.at, pg'.saves)
      BY <1>w, <2>4, <2>5, <3>1 DEF SteadyInv, Calm, Fits, Loose, Ends
    <3> QED BY <1>s, <1>f, <2>4, <2>5, <3>1, <3>2 DEF Alike, SteadyInv
  <2>6. CASE pg' = pg /\ me' = DR!Onward(DR!NotCalled(m, DR!Current, DR!Target))
    <3>1. Alike(me') /\ me'.at = "next" BY <1>o, <2>2, <2>6
    <3>2. Clear => ~me.thrown /\ Fits(pg'.st, me'.at, pg'.saves)
      BY <1>w, <2>4, <2>6, <3>1 DEF SteadyInv, Calm, Fits, Loose, Ends
    <3> QED BY <1>s, <1>f, <2>4, <2>6, <3>1, <3>2 DEF Alike, SteadyInv
  <2>7. CASE DR!Await("next", FALSE, DR!Saved(pg), [m EXCEPT !.at = "call"])
    <3>1. CASE DR!Live
      <4>1. pg' = DR!Saved(pg) /\ me' = [m EXCEPT !.at = "call"] BY <2>7, <3>1 DEF DR!Await, DR!Do
      <4>2. Alike(me') /\ me'.at = "call" BY <1>e, <2>1, <4>1
      <4>3. Sound(pg') /\ pg'.st = pg.st /\ pg'.saves # <<>> BY <1>b, <1>g, <4>1 DEF Ground
      <4>4. Clear => ~me.thrown /\ Fits(pg'.st, me'.at, pg'.saves)
        BY <1>w, <2>4, <4>2, <4>3 DEF SteadyInv, Calm, Fits, Loose, Ends
      <4> QED BY <1>s, <1>f, <2>4, <4>2, <4>3, <4>4 DEF Alike
    <3>2. CASE ~DR!Live
      <4>1. pg' = DR!Failed /\ me' = DR!Thrown BY <2>7, <3>2 DEF DR!Await, DR!Do
      <4>2. DOMAIN me' = DOMAIN me /\ me'.at = "finally" /\ me'.result = me.result
        BY <4>1 DEF SteadyInv, DR!Thrown
      <4>3. Sound(pg') BY <1>b, <1>g, <4>1 DEF Ground
      <4>4. ~Clear BY <1>w, <2>4, <3>2 DEF SteadyInv, Calm, Fits, Loose, DR!Live
      <4> QED BY <1>s, <1>f, <2>4, <4>2, <4>3, <4>4
    <3> QED BY <3>1, <3>2
  <2> QED BY <2>4, <2>5, <2>6, <2>7
<1>p2. ASSUME DR!CallFunction PROVE SteadyInv'
  <2> DEFINE said(x) == DR!Said(me, DR!Current, "rows", x)
  <2>1. /\ me.at = "call"
        /\ (pg' = DR!Released(pg) /\ DR!Live) \/ pg' = DR!Undone(DR!Failed)
        /\ \/ me' = DR!To("control")
           \/ me' = DR!Onward(me)
           \/ \E x : me' = DR!Onward(said(x))
    BY <1>p2, Zenon DEF DR!CallFunction, DR!Guarded, DR!Do
  <2>2. \A x : Alike(said(x)) BY <1>a, <1>m
  <2> HIDE DEF said
  <2>3. Alike(DR!To("control")) /\ DR!To("control").at = "control" BY <1>m, <1>e DEF DR!To
  <2>4. Alike(me') /\ me'.at \in {"control", "next"} BY <1>m, <1>o, <2>1, <2>2, <2>3
  <2>5. Sound(pg') /\ (pg.st = "open" /\ pg.saves # <<>> => pg'.st = "open")
    BY <1>b, <1>g, <2>1 DEF Ground
  <2>6. Clear => ~me.thrown /\ Fits(pg'.st, me'.at, pg'.saves)
    BY <1>w, <2>1, <2>4, <2>5 DEF SteadyInv, Calm, Fits, Loose, Ends
  <2> QED BY <1>s, <1>f, <2>1, <2>4, <2>5, <2>6 DEF Alike
<1> USE <1>c, <1>w, <1>b, <1>d, <1>r, <1>g DEF SteadyInv, Calm, Fits, Ground, Loose, Ends
<1> USE DEF DR!Attempt, DR!Await, DR!Do, DR!Live, DR!Onward, DR!Said, DR!Thrown, DR!To
<1>1. CASE DR!PlanFunctions BY <1>1 DEF DR!Ending, DR!PlanFunctions
<1>2. CASE DR!SampleTenants BY <1>2 DEF DR!SampleTenants
<1>3. CASE DR!WritableSchemas BY <1>3 DEF DR!WritableSchemas
<1>4. CASE DR!Begin BY <1>4 DEF DR!Begin
<1>5. CASE DR!CreateCanary("role") BY <1>5 DEF DR!CreateCanary
<1>6. CASE DR!SwitchRole("check") BY <1>6 DEF DR!SwitchRole
<1>7. CASE DR!CheckCanary("become") BY <1>7 DEF DR!CheckCanary, DR!Ending
<1>8. CASE DR!BecomeTenant BY <1>8 DEF DR!BecomeTenant
<1>9. CASE DR!NextFunction BY <1>9, <1>p1
<1>10. CASE DR!CallFunction BY <1>10, <1>p2
<1>11. CASE DR!ControlArm BY <1>11 DEF DR!ControlArm
<1>12. CASE DR!CallWithSentinel BY <1>12 DEF DR!CallWithSentinel, DR!Guarded
<1>13. CASE DR!RollBack("close") BY <1>13 DEF DR!RollBack
<1>14. CASE DR!Connect BY <1>14 DEF DR!Connect
<1>15. CASE DR!Disconnect BY <1>15 DEF DR!Disconnect, DR!Verdict
<1> QED BY <1>1, <1>2, <1>3, <1>4, <1>5, <1>6, <1>7, <1>8, <1>9, <1>10, <1>11, <1>12, <1>13, <1>14, <1>15 DEF DR!Next, DR!Check, DR!Run, DR!SelfCheck

LEMMA ColumnExposureSteady ==
  ASSUME SteadyInv, world.guard = "column-exposure", CE!Next
  PROVE  SteadyInv'
<1>u. world' = world /\ fault' = fault
  BY DEF CE!Next, CE!Check, CE!Run, CE!AssumeRole, CE!Attempt, CE!Await,
      CE!Begin, CE!Connect, CE!Disconnect, CE!Do, CE!Finish, CE!GrantPaths, CE!Guarded, CE!HandOff, CE!NextRelation,
      CE!PlanRelations, CE!ProbeRelation, CE!RollBack
<1>c. Clear' = Clear /\ (world.setup = "refused" => ~Clear)
  BY <1>u DEF Clear, Truth, CE!Truth, CE!Fragile
<1>w. /\ Inside = {"role", "next", "probe"} /\ Inside' = Inside
      /\ Held = {"probe"} /\ Held' = Held
  BY <1>u DEF Inside, Held
<1>b. /\ \A s : CE!Undone(s) = Undone(s)
      /\ \A s : CE!Released(s) = Released(s)
      /\ \A s : CE!Saved(s) = Saved(s)
      /\ \A s : CE!Began(s) = Began(s)
      /\ \A s : CE!RolledBack(s) = RolledBack(s)
      /\ CE!Failed = Failed
      /\ CE!Closed = Closed
  BY DEF AsRole, Began, Closed, Failed, Released, RolledBack, Saved, Undone, CE!AsRole, CE!Began, CE!Closed, CE!Failed,
      CE!Released, CE!RolledBack, CE!Saved, CE!Undone
<1>r. /\ Sound(CE!AsRole(pg, "app")) /\ CE!AsRole(pg, "app").st = pg.st /\ CE!AsRole(pg, "app").saves = pg.saves
  <2>1. /\ Sound(AsRole(pg, "app")) /\ AsRole(pg, "app").st = pg.st /\ AsRole(pg, "app").saves = pg.saves
    BY Plainly DEF SteadyInv
  <2>2. /\ CE!AsRole(pg, "app") = AsRole(pg, "app")
    BY DEF AsRole, CE!AsRole
  <2> QED BY <2>1, <2>2
<1>g. Ground BY Grounds DEF SteadyInv
<1>d. Placed' BY <1>u DEF Placed
<1>s. ASSUME Sound(pg'), DOMAIN me' = DOMAIN me, me'.result # "thrown",
             Clear => ~me'.thrown /\ Fits(pg'.st, me'.at, pg'.saves)
      PROVE  SteadyInv'
  BY <1>s, <1>u, <1>c, <1>w, <1>d DEF SteadyInv, Calm, Fits
<1> USE <1>c, <1>w, <1>b, <1>d, <1>r, <1>g DEF SteadyInv, Calm, Fits, Ground, Loose, Ends
<1> USE DEF CE!Await, CE!Do, CE!Live, CE!Said, CE!Thrown, CE!To
<1>1. CASE CE!PlanRelations BY <1>1 DEF CE!Ending, CE!HandOff, CE!PlanRelations
<1>2. CASE CE!GrantPaths BY <1>2 DEF CE!GrantPaths
<1>3. CASE CE!Begin BY <1>3 DEF CE!Begin
<1>4. CASE CE!AssumeRole BY <1>4 DEF CE!AssumeRole, CE!Attempt
<1>5. CASE CE!NextRelation BY <1>5 DEF CE!NextRelation
<1>6. CASE CE!ProbeRelation BY <1>6 DEF CE!Guarded, CE!Onward, CE!ProbeRelation
<1>7. CASE CE!RollBack("handoff") BY <1>7 DEF CE!RollBack
<1>8. CASE CE!Finish BY <1>8 DEF CE!Finish, CE!HandOff
<1>9. CASE CE!Connect BY <1>9 DEF CE!Connect
<1>10. CASE CE!Disconnect BY <1>10 DEF CE!Disconnect, CE!Verdict
<1> QED BY <1>1, <1>2, <1>3, <1>4, <1>5, <1>6, <1>7, <1>8, <1>9, <1>10 DEF CE!Next, CE!Check, CE!Run

LEMMA TriggerVisibilitySteady ==
  ASSUME SteadyInv, world.guard = "trigger-visibility", TV!Next
  PROVE  SteadyInv'
<1>u. world' = world /\ fault' = fault
  BY DEF TV!Next, TV!Check, TV!Run, TV!Await, TV!Begin, TV!ClassifyTriggers,
      TV!Connect, TV!CountTotal, TV!CountVisible, TV!Disconnect, TV!Do, TV!Guarded, TV!NextTotal, TV!NextVisible,
      TV!PlanTriggers, TV!RollBack, TV!Switch
<1>c. Clear' = Clear /\ (Clear => world.member) /\ (world.setup = "refused" => ~Clear)
  BY <1>u DEF Clear, Truth, TV!Truth, TV!Fragile
<1>w. /\ Inside = {"totals", "total", "role", "visible", "seen"} /\ Inside' = Inside
      /\ Held = {"total", "seen"} /\ Held' = Held
  BY <1>u DEF Inside, Held
<1>b. /\ \A s : TV!Undone(s) = Undone(s)
      /\ \A s : TV!Released(s) = Released(s)
      /\ \A s : TV!Saved(s) = Saved(s)
      /\ \A s : TV!Began(s) = Began(s)
      /\ \A s : TV!RolledBack(s) = RolledBack(s)
      /\ TV!Failed = Failed
      /\ TV!Closed = Closed
  BY DEF AsRole, Began, Closed, Failed, Released, RolledBack, Saved, Undone, TV!AsRole, TV!Began, TV!Closed, TV!Failed,
      TV!Released, TV!RolledBack, TV!Saved, TV!Undone
<1>r. /\ Sound(TV!AsRole(pg, "app")) /\ TV!AsRole(pg, "app").st = pg.st /\ TV!AsRole(pg, "app").saves = pg.saves
  <2>1. /\ Sound(AsRole(pg, "app")) /\ AsRole(pg, "app").st = pg.st /\ AsRole(pg, "app").saves = pg.saves
    BY Plainly DEF SteadyInv
  <2>2. /\ TV!AsRole(pg, "app") = AsRole(pg, "app")
    BY DEF AsRole, TV!AsRole
  <2> QED BY <2>1, <2>2
<1>g. Ground BY Grounds DEF SteadyInv
<1>d. Placed' BY <1>u DEF Placed
<1>s. ASSUME Sound(pg'), DOMAIN me' = DOMAIN me, me'.result # "thrown",
             Clear => ~me'.thrown /\ Fits(pg'.st, me'.at, pg'.saves)
      PROVE  SteadyInv'
  BY <1>s, <1>u, <1>c, <1>w, <1>d DEF SteadyInv, Calm, Fits
<1> USE <1>c, <1>w, <1>b, <1>d, <1>r, <1>g DEF SteadyInv, Calm, Fits, Ground, Loose, Ends
<1> USE DEF TV!Await, TV!Do, TV!Live, TV!Thrown, TV!To
<1>1. CASE TV!PlanTriggers BY <1>1 DEF TV!Ending, TV!PlanTriggers
<1>2. CASE TV!Begin BY <1>2 DEF TV!Begin
<1>3. CASE TV!NextTotal BY <1>3 DEF TV!NextTotal
<1>4. CASE TV!CountTotal BY <1>4 DEF TV!CountTotal, TV!Guarded
<1>5. CASE TV!Switch BY <1>5 DEF TV!Switch
<1>6. CASE TV!NextVisible BY <1>6 DEF TV!NextVisible
<1>7. CASE TV!CountVisible BY <1>7 DEF TV!CountVisible, TV!Guarded
<1>8. CASE TV!RollBack("judge") BY <1>8 DEF TV!RollBack
<1>9. CASE TV!ClassifyTriggers BY <1>9 DEF TV!ClassifyTriggers
<1>10. CASE TV!Connect BY <1>10 DEF TV!Connect
<1>11. CASE TV!Disconnect BY <1>11 DEF TV!Disconnect, TV!Verdict
<1> QED BY <1>1, <1>2, <1>3, <1>4, <1>5, <1>6, <1>7, <1>8, <1>9, <1>10, <1>11 DEF TV!Next, TV!Check, TV!Run

LEMMA SchemaTenancySteady ==
  ASSUME SteadyInv, world.guard = "schema-tenancy", ST!Next
  PROVE  SteadyInv'
<1>u. world' = world /\ fault' = fault
  BY DEF ST!Next, ST!Check, ST!Run, ST!Await, ST!Begin, ST!ClassifyGroups,
      ST!Connect, ST!Disconnect, ST!Do, ST!Guarded, ST!NextAttempt, ST!NextSchema, ST!PlanSchemas, ST!ProbeTable,
      ST!ResetRole, ST!RollBack, ST!SwitchRole
<1>c. Clear' = Clear /\ (Clear => world.member) /\ (world.setup = "refused" => ~Clear)
  BY <1>u DEF Clear, Truth, ST!Truth, ST!Fragile
<1>w. /\ Inside = {"role", "next", "probe", "reset"} /\ Inside' = Inside
      /\ Held = {"probe"} /\ Held' = Held
  BY <1>u DEF Inside, Held
<1>b. /\ \A s : ST!Undone(s) = Undone(s)
      /\ \A s : ST!Released(s) = Released(s)
      /\ \A s : ST!Saved(s) = Saved(s)
      /\ \A s : ST!Began(s) = Began(s)
      /\ \A s : ST!RolledBack(s) = RolledBack(s)
      /\ ST!Failed = Failed
      /\ ST!Closed = Closed
  BY DEF AsRole, Began, Closed, Failed, Released, RolledBack, Saved, Undone, ST!AsRole, ST!Began, ST!Closed, ST!Failed,
      ST!Released, ST!RolledBack, ST!Saved, ST!Undone
<1>r. /\ Sound(ST!AsRole(pg, "app")) /\ ST!AsRole(pg, "app").st = pg.st /\ ST!AsRole(pg, "app").saves = pg.saves
      /\ Sound(ST!AsRole(pg, "conn")) /\ ST!AsRole(pg, "conn").st = pg.st /\ ST!AsRole(pg, "conn").saves = pg.saves
  <2>1. /\ Sound(AsRole(pg, "app")) /\ AsRole(pg, "app").st = pg.st /\ AsRole(pg, "app").saves = pg.saves
        /\ Sound(AsRole(pg, "conn")) /\ AsRole(pg, "conn").st = pg.st /\ AsRole(pg, "conn").saves = pg.saves
    BY Plainly DEF SteadyInv
  <2>2. /\ ST!AsRole(pg, "app") = AsRole(pg, "app")
        /\ ST!AsRole(pg, "conn") = AsRole(pg, "conn")
    BY DEF AsRole, ST!AsRole
  <2> QED BY <2>1, <2>2
<1>g. Ground BY Grounds DEF SteadyInv
<1>d. Placed' BY <1>u DEF Placed
<1>s. ASSUME Sound(pg'), DOMAIN me' = DOMAIN me, me'.result # "thrown",
             Clear => ~me'.thrown /\ Fits(pg'.st, me'.at, pg'.saves)
      PROVE  SteadyInv'
  BY <1>s, <1>u, <1>c, <1>w, <1>d DEF SteadyInv, Calm, Fits
<1> USE <1>c, <1>w, <1>b, <1>d, <1>r, <1>g DEF SteadyInv, Calm, Fits, Ground, Loose, Ends
<1> USE DEF ST!Await, ST!Do, ST!Live, ST!Thrown, ST!To
<1>1. CASE ST!PlanSchemas BY <1>1 DEF ST!Ending, ST!PlanSchemas
<1>2. CASE ST!Begin BY <1>2 DEF ST!Begin
<1>3. CASE ST!SwitchRole("next") BY <1>3 DEF ST!SwitchRole
<1>4. CASE ST!NextAttempt BY <1>4 DEF ST!NextAttempt, ST!NextSchema, ST!Onward, ST!Said
<1>5. CASE ST!ProbeTable BY <1>5 DEF ST!Guarded, ST!NextSchema, ST!Onward, ST!ProbeTable, ST!Said
<1>6. CASE ST!ResetRole BY <1>6 DEF ST!ResetRole
<1>7. CASE ST!RollBack("judge") BY <1>7 DEF ST!RollBack
<1>8. CASE ST!ClassifyGroups BY <1>8 DEF ST!ClassifyGroups
<1>9. CASE ST!Connect BY <1>9 DEF ST!Connect
<1>10. CASE ST!Disconnect BY <1>10 DEF ST!Disconnect, ST!Verdict
<1> QED BY <1>1, <1>2, <1>3, <1>4, <1>5, <1>6, <1>7, <1>8, <1>9, <1>10 DEF ST!Next, ST!Check, ST!Run

LEMMA DefaultPrivilegesSteady ==
  ASSUME SteadyInv, world.guard = "default-privileges", DP!Next
  PROVE  SteadyInv'
<1>u. world' = world /\ fault' = fault
  BY DEF DP!Next, DP!Check, DP!Run, DP!AssumeCreator, DP!Attempt, DP!Begin,
      DP!Concluded, DP!Connect, DP!DefaultAcl, DP!Disconnect, DP!Do, DP!NextProbe, DP!NextSchema, DP!ProbeAcl,
      DP!ProbeCreate, DP!ReadMitigation, DP!UndoProbe, DP!Unproven, DP!WhoAmI
<1>c. Clear' = Clear /\ (world.setup = "refused" => ~Clear)
  BY <1>u DEF Clear, Truth, DP!Truth, DP!Fragile
<1>w. /\ Inside = {"role", "create", "read", "undo", "failed"} /\ Inside' = Inside
      /\ Held = {} /\ Held' = Held
  BY <1>u DEF Inside, Held
<1>b. /\ \A s : DP!Began(s) = Began(s)
      /\ \A s : DP!RolledBack(s) = RolledBack(s)
      /\ DP!Failed = Failed
      /\ DP!Closed = Closed
  BY DEF AsRole, Began, Closed, Failed, Made, RolledBack, DP!AsRole, DP!Began, DP!Closed, DP!Failed, DP!Made,
      DP!RolledBack
<1>r. /\ Sound(DP!AsRole(pg, "other")) /\ DP!AsRole(pg, "other").st = pg.st /\ DP!AsRole(pg, "other").saves = pg.saves
      /\ Sound(DP!Made(pg, "table")) /\ DP!Made(pg, "table").st = pg.st /\ DP!Made(pg, "table").saves = pg.saves
  <2>1. /\ Sound(AsRole(pg, "other")) /\ AsRole(pg, "other").st = pg.st /\ AsRole(pg, "other").saves = pg.saves
        /\ Sound(Made(pg, "table")) /\ Made(pg, "table").st = pg.st /\ Made(pg, "table").saves = pg.saves
    BY Plainly DEF SteadyInv
  <2>2. /\ DP!AsRole(pg, "other") = AsRole(pg, "other")
        /\ DP!Made(pg, "table") = Made(pg, "table")
    BY DEF AsRole, Made, DP!AsRole, DP!Made
  <2> QED BY <2>1, <2>2
<1>g. Ground BY Grounds DEF SteadyInv
<1>d. Placed' BY <1>u DEF Placed
<1>s. ASSUME Sound(pg'), DOMAIN me' = DOMAIN me, me'.result # "thrown",
             Clear => ~me'.thrown /\ Fits(pg'.st, me'.at, pg'.saves)
      PROVE  SteadyInv'
  BY <1>s, <1>u, <1>c, <1>w, <1>d DEF SteadyInv, Calm, Fits
<1> USE <1>c, <1>w, <1>b, <1>d, <1>r, <1>g DEF SteadyInv, Calm, Fits, Ground, Loose, Ends
<1> USE DEF DP!Attempt, DP!Do, DP!Live, DP!Said, DP!To
<1>1. CASE DP!ReadMitigation BY <1>1 DEF DP!ReadMitigation
<1>2. CASE DP!WhoAmI BY <1>2 DEF DP!WhoAmI
<1>3. CASE DP!DefaultAcl BY <1>3 DEF DP!DefaultAcl
<1>4. CASE DP!NextSchema BY <1>4 DEF DP!Ending, DP!NextSchema
<1>5. CASE DP!Begin BY <1>5 DEF DP!Begin, DP!NextProbe, DP!Onward, DP!Unproven
<1>6. CASE DP!AssumeCreator BY <1>6 DEF DP!AssumeCreator, DP!Unproven
<1>7. CASE DP!ProbeCreate BY <1>7 DEF DP!ProbeCreate, DP!Unproven
<1>8. CASE DP!ProbeAcl BY <1>8 DEF DP!ProbeAcl, DP!Unproven
<1>9. CASE DP!UndoProbe BY <1>9 DEF DP!Concluded, DP!NextProbe, DP!Onward, DP!UndoProbe
<1>10. CASE DP!Connect BY <1>10 DEF DP!Connect
<1>11. CASE DP!Disconnect BY <1>11 DEF DP!Disconnect, DP!Verdict
<1> QED BY <1>1, <1>2, <1>3, <1>4, <1>5, <1>6, <1>7, <1>8, <1>9, <1>10, <1>11 DEF DP!Next, DP!Check, DP!Run

LEMMA CrossTenantFkSteady ==
  ASSUME SteadyInv, world.guard = "cross-tenant-fk", FK!Next
  PROVE  SteadyInv'
<1>u. world' = world /\ fault' = fault
  BY DEF FK!Next, FK!Check, FK!Run, FK!Answered, FK!Attempt, FK!Await, FK!Begin,
      FK!Caught, FK!Connect, FK!Disconnect, FK!Do, FK!ExistingRows, FK!Impersonate, FK!NextKey, FK!OtherChildTenant,
      FK!OwnRows, FK!ParentTarget, FK!PlanKeys, FK!Repoint, FK!RollBack, FK!UndoProbe, FK!Vanish
<1>c. Clear' = Clear /\ (world.setup = "refused" => ~Clear)
  BY <1>u DEF Clear, Truth, FK!Truth, FK!Fragile
<1>w. /\ Inside = {"role", "become", "own", "repoint", "undo"} /\ Inside' = Inside
      /\ Held = {} /\ Held' = Held
  BY <1>u DEF Inside, Held
<1>b. /\ \A s : FK!Began(s) = Began(s)
      /\ \A s : FK!RolledBack(s) = RolledBack(s)
      /\ FK!Failed = Failed
      /\ FK!Closed = Closed
  BY DEF Acting, AsRole, Began, Closed, Failed, RolledBack, FK!Acting, FK!AsRole, FK!Began, FK!Closed, FK!Failed,
      FK!RolledBack
<1>r. /\ Sound(FK!AsRole(pg, "app")) /\ FK!AsRole(pg, "app").st = pg.st /\ FK!AsRole(pg, "app").saves = pg.saves
      /\ Sound(FK!Acting(pg, IF world.hook = "other" THEN pg.who ELSE "B")) /\ FK!Acting(pg, IF world.hook = "other" THEN pg.who ELSE "B").st = pg.st /\ FK!Acting(pg, IF world.hook = "other" THEN pg.who ELSE "B").saves = pg.saves
  <2>1. /\ Sound(AsRole(pg, "app")) /\ AsRole(pg, "app").st = pg.st /\ AsRole(pg, "app").saves = pg.saves
        /\ Sound(Acting(pg, IF world.hook = "other" THEN pg.who ELSE "B")) /\ Acting(pg, IF world.hook = "other" THEN pg.who ELSE "B").st = pg.st /\ Acting(pg, IF world.hook = "other" THEN pg.who ELSE "B").saves = pg.saves
    BY Plainly DEF SteadyInv
  <2>2. /\ FK!AsRole(pg, "app") = AsRole(pg, "app")
        /\ FK!Acting(pg, IF world.hook = "other" THEN pg.who ELSE "B") = Acting(pg, IF world.hook = "other" THEN pg.who ELSE "B")
    BY DEF AsRole, Acting, FK!AsRole, FK!Acting
  <2> QED BY <2>1, <2>2
<1>g. Ground BY Grounds DEF SteadyInv
<1>d. Placed' BY <1>u DEF Placed
<1>s. ASSUME Sound(pg'), DOMAIN me' = DOMAIN me, me'.result # "thrown",
             Clear => ~me'.thrown /\ Fits(pg'.st, me'.at, pg'.saves)
      PROVE  SteadyInv'
  BY <1>s, <1>u, <1>c, <1>w, <1>d DEF SteadyInv, Calm, Fits
<1> USE <1>c, <1>w, <1>b, <1>d, <1>r, <1>g DEF SteadyInv, Calm, Fits, Ground, Loose, Ends
<1> USE DEF FK!Attempt, FK!Do, FK!Live, FK!Onward, FK!Said, FK!To
<1>1. CASE FK!PlanKeys BY <1>1 DEF FK!Await, FK!Ending, FK!PlanKeys, FK!Thrown
<1>2. CASE FK!NextKey BY <1>2 DEF FK!Answered, FK!NextKey
<1>3. CASE FK!ExistingRows BY <1>3 DEF FK!Answered, FK!ExistingRows
<1>4. CASE FK!ParentTarget BY <1>4 DEF FK!Answered, FK!ParentTarget
<1>5. CASE FK!OtherChildTenant BY <1>5 DEF FK!Answered, FK!OtherChildTenant
<1>6. CASE FK!Vanish BY <1>6 DEF FK!Vanish
<1>7. CASE FK!Begin BY <1>7 DEF FK!Answered, FK!Begin
<1>8. CASE FK!Impersonate BY <1>8 DEF FK!Caught, FK!Impersonate
<1>9. CASE FK!OwnRows BY <1>9 DEF FK!OwnRows
<1>10. CASE FK!Repoint BY <1>10 DEF FK!Caught, FK!Repoint
<1>11. CASE FK!UndoProbe BY <1>11 DEF FK!Answered, FK!UndoProbe
<1>12. CASE FK!RollBack("close") BY <1>12 DEF FK!RollBack
<1>13. CASE FK!Connect BY <1>13 DEF FK!Connect
<1>14. CASE FK!Disconnect BY <1>14 DEF FK!Disconnect, FK!Verdict
<1> QED BY <1>1, <1>2, <1>3, <1>4, <1>5, <1>6, <1>7, <1>8, <1>9, <1>10, <1>11, <1>12, <1>13, <1>14 DEF FK!Next, FK!Check, FK!Run

LEMMA RoleCapabilitiesSteady ==
  ASSUME SteadyInv, world.guard = "role-capabilities", RC!Next
  PROVE  SteadyInv'
<1>u. world' = world /\ fault' = fault
  BY DEF RC!Next, RC!Check, RC!Run, RC!Attempt, RC!AuthGrants, RC!Await,
      RC!Connect, RC!Disconnect, RC!Do, RC!FunctionGrants, RC!Leave
<1>c. Clear' = Clear /\ (world.setup = "refused" => ~Clear)
  BY <1>u DEF Clear, Truth, RC!Truth, RC!Fragile
<1>w. /\ Inside = {} /\ Inside' = Inside
      /\ Held = {} /\ Held' = Held
  BY <1>u DEF Inside, Held
<1>b. /\ RC!Failed = Failed
      /\ RC!Closed = Closed
  BY DEF Closed, Failed, RC!Closed, RC!Failed
<1>g. Ground BY Grounds DEF SteadyInv
<1>d. Placed' BY <1>u DEF Placed
<1>s. ASSUME Sound(pg'), DOMAIN me' = DOMAIN me, me'.result # "thrown",
             Clear => ~me'.thrown /\ Fits(pg'.st, me'.at, pg'.saves)
      PROVE  SteadyInv'
  BY <1>s, <1>u, <1>c, <1>w, <1>d DEF SteadyInv, Calm, Fits
<1> USE <1>c, <1>w, <1>b, <1>d, <1>g DEF SteadyInv, Calm, Fits, Ground, Loose, Ends
<1> USE DEF RC!Do, RC!To
<1>1. CASE RC!FunctionGrants BY <1>1 DEF RC!Await, RC!FunctionGrants, RC!Live, RC!Thrown
<1>2. CASE RC!AuthGrants BY <1>2 DEF RC!Attempt, RC!AuthGrants, RC!Live, RC!Said
<1>3. CASE RC!Leave BY <1>3 DEF RC!Leave
<1>4. CASE RC!Connect BY <1>4 DEF RC!Connect
<1>5. CASE RC!Disconnect BY <1>5 DEF RC!Disconnect, RC!Verdict
<1> QED BY <1>1, <1>2, <1>3, <1>4, <1>5 DEF RC!Next, RC!Check, RC!Run

LEMMA ConstraintOraclesSteady ==
  ASSUME SteadyInv, world.guard = "constraint-oracles", CO!Next
  PROVE  SteadyInv'
<1>u. world' = world /\ fault' = fault
  BY DEF CO!Next, CO!Check, CO!Run, CO!Await, CO!ColumnFacts, CO!Connect,
      CO!Disconnect, CO!Do, CO!ForeignKeys, CO!Leave, CO!TenantColumns, CO!UniqueIndexes
<1>c. Clear' = Clear /\ (world.setup = "refused" => ~Clear)
  BY <1>u DEF Clear, Truth, CO!Truth, CO!Fragile
<1>w. /\ Inside = {} /\ Inside' = Inside
      /\ Held = {} /\ Held' = Held
  BY <1>u DEF Inside, Held
<1>b. /\ CO!Failed = Failed
      /\ CO!Closed = Closed
  BY DEF Closed, Failed, CO!Closed, CO!Failed
<1>g. Ground BY Grounds DEF SteadyInv
<1>d. Placed' BY <1>u DEF Placed
<1>s. ASSUME Sound(pg'), DOMAIN me' = DOMAIN me, me'.result # "thrown",
             Clear => ~me'.thrown /\ Fits(pg'.st, me'.at, pg'.saves)
      PROVE  SteadyInv'
  BY <1>s, <1>u, <1>c, <1>w, <1>d DEF SteadyInv, Calm, Fits
<1> USE <1>c, <1>w, <1>b, <1>d, <1>g DEF SteadyInv, Calm, Fits, Ground, Loose, Ends
<1> USE DEF CO!Await, CO!Do, CO!Live, CO!Thrown, CO!To
<1>1. CASE CO!TenantColumns BY <1>1 DEF CO!TenantColumns
<1>2. CASE CO!ColumnFacts BY <1>2 DEF CO!ColumnFacts
<1>3. CASE CO!UniqueIndexes BY <1>3 DEF CO!UniqueIndexes
<1>4. CASE CO!ForeignKeys BY <1>4 DEF CO!ForeignKeys
<1>5. CASE CO!Leave BY <1>5 DEF CO!Leave
<1>6. CASE CO!Connect BY <1>6 DEF CO!Connect
<1>7. CASE CO!Disconnect BY <1>7 DEF CO!Disconnect, CO!Verdict
<1> QED BY <1>1, <1>2, <1>3, <1>4, <1>5, <1>6, <1>7 DEF CO!Next, CO!Check, CO!Run

LEMMA CreateGrantsSteady ==
  ASSUME SteadyInv, world.guard = "create-grants", CG!Next
  PROVE  SteadyInv'
<1>u. world' = world /\ fault' = fault
  BY DEF CG!Next, CG!Check, CG!Run, CG!Attempt, CG!Await, CG!Concluded,
      CG!Connect, CG!Context, CG!DatabaseGrants, CG!Disconnect, CG!Do, CG!Leave, CG!SchemaGrants
<1>c. Clear' = Clear /\ (world.setup = "refused" => ~Clear)
  BY <1>u DEF Clear, Truth, CG!Truth, CG!Fragile
<1>w. /\ Inside = {} /\ Inside' = Inside
      /\ Held = {} /\ Held' = Held
  BY <1>u DEF Inside, Held
<1>b. /\ CG!Failed = Failed
      /\ CG!Closed = Closed
  BY DEF Closed, Failed, CG!Closed, CG!Failed
<1>g. Ground BY Grounds DEF SteadyInv
<1>d. Placed' BY <1>u DEF Placed
<1>s. ASSUME Sound(pg'), DOMAIN me' = DOMAIN me, me'.result # "thrown",
             Clear => ~me'.thrown /\ Fits(pg'.st, me'.at, pg'.saves)
      PROVE  SteadyInv'
  BY <1>s, <1>u, <1>c, <1>w, <1>d DEF SteadyInv, Calm, Fits
<1> USE <1>c, <1>w, <1>b, <1>d, <1>g DEF SteadyInv, Calm, Fits, Ground, Loose, Ends
<1> USE DEF CG!Do, CG!Live, CG!To
<1>1. CASE CG!Context BY <1>1 DEF CG!Attempt, CG!Context
<1>2. CASE CG!SchemaGrants BY <1>2 DEF CG!Await, CG!SchemaGrants, CG!Thrown
<1>3. CASE CG!DatabaseGrants BY <1>3 DEF CG!Attempt, CG!Concluded, CG!DatabaseGrants
<1>4. CASE CG!Leave BY <1>4 DEF CG!Leave
<1>5. CASE CG!Connect BY <1>5 DEF CG!Connect
<1>6. CASE CG!Disconnect BY <1>6 DEF CG!Disconnect, CG!Verdict
<1> QED BY <1>1, <1>2, <1>3, <1>4, <1>5, <1>6 DEF CG!Next, CG!Check, CG!Run

LEMMA MfaEnforcementSteady ==
  ASSUME SteadyInv, world.guard = "mfa-enforcement", ME!Next
  PROVE  SteadyInv'
<1>u. world' = world /\ fault' = fault
  BY DEF ME!Next, ME!Check, ME!Run, ME!Attempt, ME!Await, ME!ClassifyCoverage,
      ME!Connect, ME!Disconnect, ME!Do, ME!Judged, ME!Leave, ME!ReadPolicies, ME!RoleMembers, ME!TenantTables,
      ME!VerifiedFactors
<1>c. Clear' = Clear /\ (world.setup = "refused" => ~Clear)
  BY <1>u DEF Clear, Truth, ME!Truth, ME!Fragile
<1>w. /\ Inside = {} /\ Inside' = Inside
      /\ Held = {} /\ Held' = Held
  BY <1>u DEF Inside, Held
<1>b. /\ ME!Failed = Failed
      /\ ME!Closed = Closed
  BY DEF Closed, Failed, ME!Closed, ME!Failed
<1>g. Ground BY Grounds DEF SteadyInv
<1>d. Placed' BY <1>u DEF Placed
<1>s. ASSUME Sound(pg'), DOMAIN me' = DOMAIN me, me'.result # "thrown",
             Clear => ~me'.thrown /\ Fits(pg'.st, me'.at, pg'.saves)
      PROVE  SteadyInv'
  BY <1>s, <1>u, <1>c, <1>w, <1>d DEF SteadyInv, Calm, Fits
<1> USE <1>c, <1>w, <1>b, <1>d, <1>g DEF SteadyInv, Calm, Fits, Ground, Loose, Ends
<1> USE DEF ME!Attempt, ME!Do, ME!Live, ME!To
<1>1. CASE ME!ReadPolicies BY <1>1 DEF ME!Await, ME!ReadPolicies, ME!Thrown
<1>2. CASE ME!RoleMembers BY <1>2 DEF ME!RoleMembers
<1>3. CASE ME!VerifiedFactors BY <1>3 DEF ME!Ending, ME!VerifiedFactors
<1>4. CASE ME!TenantTables BY <1>4 DEF ME!ClassifyCoverage, ME!Judged, ME!TenantTables
<1>5. CASE ME!Leave BY <1>5 DEF ME!Leave
<1>6. CASE ME!Connect BY <1>6 DEF ME!Connect
<1>7. CASE ME!Disconnect BY <1>7 DEF ME!Disconnect, ME!Verdict
<1> QED BY <1>1, <1>2, <1>3, <1>4, <1>5, <1>6, <1>7 DEF ME!Next, ME!Check, ME!Run

LEMMA ShadowTablesSteady ==
  ASSUME SteadyInv, world.guard = "shadow-tables", SH!Next
  PROVE  SteadyInv'
<1>u. world' = world /\ fault' = fault
  BY DEF SH!Next, SH!Check, SH!Run, SH!Await, SH!Connect, SH!Destinations,
      SH!Disconnect, SH!Do, SH!Leave, SH!TenantTables, SH!Triggers
<1>c. Clear' = Clear /\ (world.setup = "refused" => ~Clear)
  BY <1>u DEF Clear, Truth, SH!Truth, SH!Fragile
<1>w. /\ Inside = {} /\ Inside' = Inside
      /\ Held = {} /\ Held' = Held
  BY <1>u DEF Inside, Held
<1>b. /\ SH!Failed = Failed
      /\ SH!Closed = Closed
  BY DEF Closed, Failed, SH!Closed, SH!Failed
<1>g. Ground BY Grounds DEF SteadyInv
<1>d. Placed' BY <1>u DEF Placed
<1>s. ASSUME Sound(pg'), DOMAIN me' = DOMAIN me, me'.result # "thrown",
             Clear => ~me'.thrown /\ Fits(pg'.st, me'.at, pg'.saves)
      PROVE  SteadyInv'
  BY <1>s, <1>u, <1>c, <1>w, <1>d DEF SteadyInv, Calm, Fits
<1> USE <1>c, <1>w, <1>b, <1>d, <1>g DEF SteadyInv, Calm, Fits, Ground, Loose, Ends
<1> USE DEF SH!Await, SH!Do, SH!Live, SH!Thrown, SH!To
<1>1. CASE SH!TenantTables BY <1>1 DEF SH!Ending, SH!TenantTables
<1>2. CASE SH!Triggers BY <1>2 DEF SH!Ending, SH!Triggers
<1>3. CASE SH!Destinations BY <1>3 DEF SH!Destinations
<1>4. CASE SH!Leave BY <1>4 DEF SH!Leave
<1>5. CASE SH!Connect BY <1>5 DEF SH!Connect
<1>6. CASE SH!Disconnect BY <1>6 DEF SH!Disconnect, SH!Verdict
<1> QED BY <1>1, <1>2, <1>3, <1>4, <1>5, <1>6 DEF SH!Next, SH!Check, SH!Run

LEMMA PoolerBleedSteady ==
  ASSUME SteadyInv, world.guard = "pooler-bleed", PB!Next
  PROVE  SteadyInv'
<1>u. world' = world /\ fault' = fault
  BY DEF PB!Next, PB!Check, PB!Run, PB!Attempt, PB!Await, PB!Connect,
      PB!Demonstrated, PB!Disconnect, PB!Do, PB!Explored, PB!FunctionBodies, PB!GaveUp, PB!Leave, PB!LookForPersistent,
      PB!LookTransient, PB!PolicyFunctions, PB!PolicyGucs, PB!ScanSources, PB!SetPersistent, PB!SetTransient,
      PB!Unset, PB!Walked
<1>c. Clear' = Clear /\ (world.setup = "refused" => ~Clear)
  BY <1>u DEF Clear, Truth, PB!Truth, PB!Fragile
<1>w. /\ Inside = {} /\ Inside' = Inside
      /\ Held = {} /\ Held' = Held
  BY <1>u DEF Inside, Held
<1>b. /\ PB!Failed = Failed
      /\ PB!Closed = Closed
  BY DEF Closed, Failed, PB!Closed, PB!Failed
<1>g. Ground BY Grounds DEF SteadyInv
<1>d. Placed' BY <1>u DEF Placed
<1>s. ASSUME Sound(pg'), DOMAIN me' = DOMAIN me, me'.result # "thrown",
             Clear => ~me'.thrown /\ Fits(pg'.st, me'.at, pg'.saves)
      PROVE  SteadyInv'
  BY <1>s, <1>u, <1>c, <1>w, <1>d DEF SteadyInv, Calm, Fits
<1>f. me.at \notin {"start", "close", "done", "finally"} => me.result # "thrown" BY DEF SteadyInv
<1> DEFINE Alike(m) == DOMAIN m = DOMAIN me /\ m.thrown = me.thrown /\ m.result = me.result
<1>y. ASSUME NEW m, Alike(m), me.at \in {"functions", "bodies"}, me' = PB!Walked(m), pg' = pg \/ pg' = PB!Failed
      PROVE  SteadyInv'
  <2>1. /\ DOMAIN me' = DOMAIN me /\ me'.at \in {"bodies", "scan", "close"} /\ me'.thrown = me.thrown
        /\ me'.result \in {me.result, "skip"}
    BY <1>y DEF SteadyInv, PB!Walked, PB!Ending
  <2>2. Sound(pg') /\ pg'.st \in {pg.st, IF pg.st = "open" THEN "aborted" ELSE pg.st} BY <1>b, <1>g, <1>y DEF Ground
  <2>3. Clear => ~me.thrown /\ Fits(pg'.st, me'.at, pg'.saves)
    BY <1>w, <1>y, <2>1, <2>2 DEF SteadyInv, Calm, Fits, Loose, Ends
  <2> QED BY <1>s, <1>f, <1>y, <2>1, <2>2, <2>3
<1>x. ASSUME NEW bodies PROVE Alike(PB!Explored(bodies))
  BY DEF SteadyInv, PB!Explored
<1>z. Alike([PB!Said(me, 0, "functions", "note") EXCEPT !.loc.frontier = {}]) /\ Alike([me EXCEPT !.loc.frontier = {}])
  BY DEF SteadyInv, PB!Said
<1> HIDE DEF Alike
<1>p1. ASSUME PB!PolicyFunctions PROVE SteadyInv'
  <2>1. /\ me.at = "functions" /\ (pg' = pg \/ pg' = PB!Failed)
        /\ (\E bodies : me' = PB!Walked(PB!Explored(bodies))) \/ me' = PB!GaveUp
    BY <1>p1, Zenon DEF PB!PolicyFunctions, PB!Attempt, PB!Do
  <2> QED BY <1>x, <1>y, <1>z, <2>1 DEF PB!GaveUp
<1>p2. ASSUME PB!FunctionBodies PROVE SteadyInv'
  <2>1. /\ me.at = "bodies" /\ (pg' = pg \/ pg' = PB!Failed)
        /\ \/ me' = PB!Walked(PB!Explored(me.loc.frontier))
           \/ me' = PB!Walked([me EXCEPT !.loc.frontier = {}])
           \/ me' = PB!GaveUp
    BY <1>p2, Zenon DEF PB!FunctionBodies, PB!Attempt, PB!Do
  <2> QED BY <1>x, <1>y, <1>z, <2>1 DEF PB!GaveUp
<1> USE <1>c, <1>w, <1>b, <1>d, <1>g DEF SteadyInv, Calm, Fits, Ground, Loose, Ends
<1> USE DEF PB!Attempt, PB!Do, PB!Live, PB!Said, PB!To
<1>1. CASE PB!PolicyGucs BY <1>1 DEF PB!Await, PB!PolicyGucs, PB!Thrown
<1>2. CASE PB!PolicyFunctions BY <1>2, <1>p1
<1>3. CASE PB!FunctionBodies BY <1>3, <1>p2
<1>4. CASE PB!ScanSources BY <1>4 DEF PB!ScanSources
<1>5. CASE PB!SetPersistent BY <1>5 DEF PB!Demonstrated, PB!SetPersistent
<1>6. CASE PB!LookForPersistent BY <1>6 DEF PB!Demonstrated, PB!LookForPersistent
<1>7. CASE PB!SetTransient BY <1>7 DEF PB!Demonstrated, PB!SetTransient
<1>8. CASE PB!LookTransient BY <1>8 DEF PB!Demonstrated, PB!LookTransient
<1>9. CASE PB!Unset BY <1>9 DEF PB!Demonstrated, PB!Unset
<1>10. CASE PB!Leave BY <1>10 DEF PB!Leave
<1>11. CASE PB!Connect BY <1>11 DEF PB!Connect
<1>12. CASE PB!Disconnect BY <1>12 DEF PB!Disconnect, PB!Verdict
<1> QED BY <1>1, <1>2, <1>3, <1>4, <1>5, <1>6, <1>7, <1>8, <1>9, <1>10, <1>11, <1>12 DEF PB!Next, PB!Check, PB!Run

-----------------------------------------------------------------------------
(* All of them.                                                            *)

LEMMA SteadyInit == Init => Steady
<1> SUFFICES ASSUME Init PROVE Steady
  OBVIOUS
<1> DEFINE Fresh(g) == /\ world \in Worlds[g] /\ world.guard = g
                       /\ DOMAIN me = {"at", "todo", "loc", "said", "thrown", "result"}
                       /\ me.at = "start" /\ me.result = "none" /\ me.thrown = FALSE
                       /\ me.todo = [k \in 1..Len(world.targets) |-> k]
                       /\ pg = Closed
<1>c. Sound(Closed) /\ Closed.st = "closed" BY Closing DEF Closed
<1>t. ASSUME NEW n \in Nat PROVE [k \in 1..n |-> k] \in Seq(1..n)
  OBVIOUS
<1>g. ASSUME NEW g \in Steadies, Fresh(g) PROVE SteadyInv
  <2>1. world.guard = g /\ Len(world.targets) \in Nat BY <1>g, WorldAssumption DEF Steadies
  <2>2. me.todo \in Seq(1..Len(world.targets)) BY <1>g, <1>t, <2>1
  <2>3. g = "realtime-isolation" => Head(me.todo) = 1 /\ world.tenants \in Nat
    <3>1. SUFFICES ASSUME g = "realtime-isolation" PROVE Head(me.todo) = 1 /\ world.tenants \in Nat
      OBVIOUS
    <3>2. Len(world.targets) = 1 /\ world.tenants \in Nat BY <1>g, <3>1, RealtimeAssumption
    <3>3. me.todo = [k \in 1..1 |-> k] BY <1>g, <3>2
    <3> QED BY <2>2, <3>2, <3>3
  <2>4. "start" \notin Inside /\ "start" \notin Held BY <2>1, Zenon DEF Inside, Held
  <2>5. Placed BY <1>g, <2>1, <2>2, <2>3, <2>4 DEF Placed
  <2>6. Calm BY <1>c, <1>g, <2>4 DEF Calm, Fits, Ends
  <2> QED BY <1>c, <1>g, <2>5, <2>6 DEF SteadyInv
<1>1. CASE AR!Init
  <2>1. Fresh("anon-reads")
    BY <1>1, WorldAssumption DEF Names, Closed, AR!Init, AR!Enter, AR!Entered, AR!Closed
  <2> QED BY <1>g, <2>1 DEF Steady, Steadies, Names
<1>2. CASE AW!Init
  <2>1. Fresh("anon-writes")
    BY <1>2, WorldAssumption DEF Names, Closed, AW!Init, AW!Enter, AW!Entered, AW!Closed
  <2> QED BY <1>g, <2>1 DEF Steady, Steadies, Names
<1>3. CASE VI!Init
  <2>1. Fresh("view-isolation")
    BY <1>3, WorldAssumption DEF Names, Closed, VI!Init, VI!Enter, VI!Entered, VI!Closed
  <2> QED BY <1>g, <2>1 DEF Steady, Steadies, Names
<1>4. CASE SI!Init
  <2>1. Fresh("storage-isolation")
    BY <1>4, WorldAssumption DEF Names, Closed, SI!Init, SI!Enter, SI!Entered, SI!Closed
  <2> QED BY <1>g, <2>1 DEF Steady, Steadies, Names
<1>5. CASE RI!Init
  <2>1. Fresh("realtime-isolation")
    BY <1>5, WorldAssumption DEF Names, Closed, RI!Init, RI!Enter, RI!Entered, RI!Closed
  <2> QED BY <1>g, <2>1 DEF Steady, Steadies, Names
<1>6. CASE DR!Init
  <2>1. Fresh("definer-rpc")
    BY <1>6, WorldAssumption DEF Names, Closed, DR!Init, DR!Enter, DR!Entered, DR!Closed
  <2> QED BY <1>g, <2>1 DEF Steady, Steadies, Names
<1>7. CASE CE!Init
  <2>1. Fresh("column-exposure")
    BY <1>7, WorldAssumption DEF Names, Closed, CE!Init, CE!Enter, CE!Entered, CE!Closed
  <2> QED BY <1>g, <2>1 DEF Steady, Steadies, Names
<1>8. CASE TV!Init
  <2>1. Fresh("trigger-visibility")
    BY <1>8, WorldAssumption DEF Names, Closed, TV!Init, TV!Enter, TV!Entered, TV!Closed
  <2> QED BY <1>g, <2>1 DEF Steady, Steadies, Names
<1>9. CASE ST!Init
  <2>1. Fresh("schema-tenancy")
    BY <1>9, WorldAssumption DEF Names, Closed, ST!Init, ST!Enter, ST!Entered, ST!Closed
  <2> QED BY <1>g, <2>1 DEF Steady, Steadies, Names
<1>10. CASE DP!Init
  <2>1. Fresh("default-privileges")
    BY <1>10, WorldAssumption DEF Names, Closed, DP!Init, DP!Enter, DP!Entered, DP!Closed
  <2> QED BY <1>g, <2>1 DEF Steady, Steadies, Names
<1>11. CASE FK!Init
  <2>1. Fresh("cross-tenant-fk")
    BY <1>11, WorldAssumption DEF Names, Closed, FK!Init, FK!Enter, FK!Entered, FK!Closed
  <2> QED BY <1>g, <2>1 DEF Steady, Steadies, Names
<1>12. CASE RC!Init
  <2>1. Fresh("role-capabilities")
    BY <1>12, WorldAssumption DEF Names, Closed, RC!Init, RC!Enter, RC!Entered, RC!Closed
  <2> QED BY <1>g, <2>1 DEF Steady, Steadies, Names
<1>13. CASE CO!Init
  <2>1. Fresh("constraint-oracles")
    BY <1>13, WorldAssumption DEF Names, Closed, CO!Init, CO!Enter, CO!Entered, CO!Closed
  <2> QED BY <1>g, <2>1 DEF Steady, Steadies, Names
<1>14. CASE CG!Init
  <2>1. Fresh("create-grants")
    BY <1>14, WorldAssumption DEF Names, Closed, CG!Init, CG!Enter, CG!Entered, CG!Closed
  <2> QED BY <1>g, <2>1 DEF Steady, Steadies, Names
<1>15. CASE ME!Init
  <2>1. Fresh("mfa-enforcement")
    BY <1>15, WorldAssumption DEF Names, Closed, ME!Init, ME!Enter, ME!Entered, ME!Closed
  <2> QED BY <1>g, <2>1 DEF Steady, Steadies, Names
<1>16. CASE SH!Init
  <2>1. Fresh("shadow-tables")
    BY <1>16, WorldAssumption DEF Names, Closed, SH!Init, SH!Enter, SH!Entered, SH!Closed
  <2> QED BY <1>g, <2>1 DEF Steady, Steadies, Names
<1>17. CASE PB!Init
  <2>1. Fresh("pooler-bleed")
    BY <1>17, WorldAssumption DEF Names, Closed, PB!Init, PB!Enter, PB!Entered, PB!Closed
  <2> QED BY <1>g, <2>1 DEF Steady, Steadies, Names
<1>18. CASE IT!Init
  <2>1. world.guard = "identity-trust" BY <1>18, WorldAssumption DEF Names, IT!Init, IT!Enter
  <2> QED BY <2>1 DEF Steady, Steadies
<1> QED
  BY <1>1, <1>2, <1>3, <1>4, <1>5, <1>6, <1>7, <1>8, <1>9, <1>10, <1>11, <1>12, <1>13, <1>14, <1>15, <1>16,
     <1>17, <1>18
  DEF Init

LEMMA ClearStays ==
  ASSUME world.guard \in Steadies, world' = world, fault' = fault
  PROVE  Clear' = Clear
<1>1. CASE world.guard = "anon-reads" BY <1>1 DEF Clear, Truth, AR!Truth, AR!Fragile
<1>2. CASE world.guard = "anon-writes" BY <1>2 DEF Clear, Truth, AW!Truth, AW!Fragile
<1>3. CASE world.guard = "view-isolation" BY <1>3 DEF Clear, Truth, VI!Truth, VI!Fragile
<1>4. CASE world.guard = "storage-isolation" BY <1>4 DEF Clear, Truth, SI!Truth, SI!Fragile
<1>5. CASE world.guard = "realtime-isolation" BY <1>5 DEF Clear, Truth, RI!Truth, RI!Fragile
<1>6. CASE world.guard = "definer-rpc" BY <1>6 DEF Clear, Truth, DR!Truth, DR!Fragile
<1>7. CASE world.guard = "column-exposure" BY <1>7 DEF Clear, Truth, CE!Truth, CE!Fragile
<1>8. CASE world.guard = "trigger-visibility" BY <1>8 DEF Clear, Truth, TV!Truth, TV!Fragile
<1>9. CASE world.guard = "schema-tenancy" BY <1>9 DEF Clear, Truth, ST!Truth, ST!Fragile
<1>10. CASE world.guard = "default-privileges" BY <1>10 DEF Clear, Truth, DP!Truth, DP!Fragile
<1>11. CASE world.guard = "cross-tenant-fk" BY <1>11 DEF Clear, Truth, FK!Truth, FK!Fragile
<1>12. CASE world.guard = "role-capabilities" BY <1>12 DEF Clear, Truth, RC!Truth, RC!Fragile
<1>13. CASE world.guard = "constraint-oracles" BY <1>13 DEF Clear, Truth, CO!Truth, CO!Fragile
<1>14. CASE world.guard = "create-grants" BY <1>14 DEF Clear, Truth, CG!Truth, CG!Fragile
<1>15. CASE world.guard = "mfa-enforcement" BY <1>15 DEF Clear, Truth, ME!Truth, ME!Fragile
<1>16. CASE world.guard = "shadow-tables" BY <1>16 DEF Clear, Truth, SH!Truth, SH!Fragile
<1>17. CASE world.guard = "pooler-bleed" BY <1>17 DEF Clear, Truth, PB!Truth, PB!Fragile
<1> QED
  BY <1>1, <1>2, <1>3, <1>4, <1>5, <1>6, <1>7, <1>8, <1>9, <1>10, <1>11, <1>12, <1>13, <1>14, <1>15, <1>16,
     <1>17
  DEF Steadies, Names

\* A fault leaves the session sound; it may make the guard reject from now on.
LEMMA FaultSteady == ASSUME Steady, Drop \/ Cancel PROVE Steady'
<1> SUFFICES ASSUME world.guard \in Steadies PROVE SteadyInv'
  BY DEF Steady, Drop, Cancel
<1>1. SteadyInv BY DEF Steady
<1>2. world' = world /\ me' = me /\ fault' # "none" BY DEF Drop, Cancel
<1>3. ~Clear' BY <1>2 DEF Clear
<1>4. Sound(pg')
  <2>1. CASE Drop
    <3>1. pg' = [[Closed EXCEPT !.kept = pg.kept] EXCEPT !.st = "lost"] BY <2>1 DEF Drop, Closed
    <3> QED BY <3>1, Closing, Connecting
  <2>2. CASE Cancel BY <1>1, <2>2, Failing DEF Cancel, SteadyInv
  <2> QED BY <2>1, <2>2
<1>5. Placed' BY <1>1, <1>2 DEF SteadyInv, Placed, Inside, SI!Settled, SI!Target
<1> QED BY <1>1, <1>2, <1>3, <1>4, <1>5 DEF SteadyInv

LEMMA SteadyStep == Steady /\ [Next]_vars => Steady'
<1> SUFFICES ASSUME Steady, [Next]_vars PROVE Steady'
  OBVIOUS
<1>1. CASE Guard
  <2>1. CASE world.guard = "identity-trust" /\ IT!Next
    <3>1. world' = world
      BY <2>1 DEF IT!Next, IT!Run, IT!Check, IT!Connect, IT!Disconnect, IT!PlanPolicies, IT!DefinerFunctions,
         IT!AuthorityTables, IT!Begin, IT!NextTable, IT!SwitchToForge, IT!SwitchRole, IT!ForgeNobody,
         IT!ForgeVictim, IT!ResetRole, IT!RollBack, IT!SelfEscalation, IT!PolicyText, IT!Await, IT!Attempt, IT!Do
    <3> QED BY <2>1, <3>1 DEF Steady, Steadies
  <2>2. CASE world.guard = "anon-reads" /\ AR!Next BY <2>2, AnonReadsSteady DEF Steady, Steadies, Names
  <2>3. CASE world.guard = "anon-writes" /\ AW!Next BY <2>3, AnonWritesSteady DEF Steady, Steadies, Names
  <2>4. CASE world.guard = "view-isolation" /\ VI!Next BY <2>4, ViewIsolationSteady DEF Steady, Steadies, Names
  <2>5. CASE world.guard = "storage-isolation" /\ SI!Next BY <2>5, StorageIsolationSteady DEF Steady, Steadies, Names
  <2>6. CASE world.guard = "realtime-isolation" /\ RI!Next BY <2>6, RealtimeIsolationSteady DEF Steady, Steadies, Names
  <2>7. CASE world.guard = "definer-rpc" /\ DR!Next BY <2>7, DefinerRpcSteady DEF Steady, Steadies, Names
  <2>8. CASE world.guard = "column-exposure" /\ CE!Next BY <2>8, ColumnExposureSteady DEF Steady, Steadies, Names
  <2>9. CASE world.guard = "trigger-visibility" /\ TV!Next BY <2>9, TriggerVisibilitySteady DEF Steady, Steadies, Names
  <2>10. CASE world.guard = "schema-tenancy" /\ ST!Next BY <2>10, SchemaTenancySteady DEF Steady, Steadies, Names
  <2>11. CASE world.guard = "default-privileges" /\ DP!Next BY <2>11, DefaultPrivilegesSteady DEF Steady, Steadies, Names
  <2>12. CASE world.guard = "cross-tenant-fk" /\ FK!Next BY <2>12, CrossTenantFkSteady DEF Steady, Steadies, Names
  <2>13. CASE world.guard = "role-capabilities" /\ RC!Next BY <2>13, RoleCapabilitiesSteady DEF Steady, Steadies, Names
  <2>14. CASE world.guard = "constraint-oracles" /\ CO!Next BY <2>14, ConstraintOraclesSteady DEF Steady, Steadies, Names
  <2>15. CASE world.guard = "create-grants" /\ CG!Next BY <2>15, CreateGrantsSteady DEF Steady, Steadies, Names
  <2>16. CASE world.guard = "mfa-enforcement" /\ ME!Next BY <2>16, MfaEnforcementSteady DEF Steady, Steadies, Names
  <2>17. CASE world.guard = "shadow-tables" /\ SH!Next BY <2>17, ShadowTablesSteady DEF Steady, Steadies, Names
  <2>18. CASE world.guard = "pooler-bleed" /\ PB!Next BY <2>18, PoolerBleedSteady DEF Steady, Steadies, Names
  <2> QED
    BY <1>1, <2>1, <2>2, <2>3, <2>4, <2>5, <2>6, <2>7, <2>8, <2>9, <2>10, <2>11, <2>12, <2>13, <2>14, <2>15, <2>16,
       <2>17, <2>18
    DEF Guard
<1>2. CASE Drop \/ Cancel BY <1>2, FaultSteady
<1>3. CASE UNCHANGED vars
  <2>1. SUFFICES ASSUME world.guard \in Steadies PROVE SteadyInv'
    BY <1>3 DEF Steady, vars
  <2>2. world' = world /\ pg' = pg /\ me' = me /\ fault' = fault BY <1>3 DEF vars
  <2>3. Clear' = Clear BY <2>1, <2>2, ClearStays
  <2>4. SteadyInv BY <2>1 DEF Steady
  <2>5. Inside' = Inside /\ Held' = Held BY <2>2 DEF Inside, Held
  <2>6. Placed' BY <2>2, <2>4, <2>5 DEF SteadyInv, Placed, SI!Settled, SI!Target
  <2>7. Calm' = Calm BY <2>2, <2>5 DEF Calm, Fits
  <2> QED BY <2>2, <2>3, <2>4, <2>6, <2>7 DEF SteadyInv
<1> QED BY <1>1, <1>2, <1>3 DEF Next

\* Seventeen of the guards only reject for a fault, a connection the server
\* refuses or one of the conditions they are known to be fragile to: in all
\* other runs every statement finds its transaction and its savepoint.
LEMMA RejectsForAReason == Spec => [](world.guard \in Names \ {"identity-trust"} => OnlyFaultsThrow)
<1>1. Steady => (world.guard \in Names \ {"identity-trust"} => OnlyFaultsThrow)
  BY DEF Steady, Steadies, SteadyInv, OnlyFaultsThrow, Clear
<1> QED BY <1>1, SteadyInit, SteadyStep, PTL DEF Spec
================================================================================
