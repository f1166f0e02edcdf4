--------------------------- MODULE ProbeGuardsReads ---------------------------
(***************************************************************************)
(* What the answers of the guards that look at relations as a stranger or  *)
(* as a tenant mean, and that none is missing: tables, views, columns, and *)
(* the schemas of tenants.                                                 *)
(***************************************************************************)
EXTENDS ProbeGuardsAnswers

-----------------------------------------------------------------------------
(* anon-reads.                                                             *)

\* The relations on the list have no answer yet, the one at hand is asked, and what it
\* has shown is what the database holds.
AnonReadsKnow ==
  /\ DOMAIN me.loc = {"canary", "plan", "unread", "empty", "seen"}
  /\ me.at \in {"plan", "unprotected"} => pg.st \in {"idle", "lost"}
  /\ me.at = "unprotected" => Whole(me.todo)
  /\ me.at \in {"unprotected", "begin", "surface", "facts"} => me.said = {}
  /\ me.at \in {"begin", "surface", "facts"} => Queue(me.loc.plan)
  /\ me.at \in {"facts", "count", "undo"} => me.todo # <<>>
  /\ me.at \in {"facts", "count"} /\ fault = "none" => Live
  /\ fault = "none" => \A k \in me.loc.unread : AR!Asked(world.targets[k]) /\ world.targets[k].rows = "unreadable"
  /\ me.at \in {"canary", "role", "check", "next", "count", "undo"} => \A k \in Todo : Untold(k, "read")
  /\ me.at \in {"count", "undo"} => AR!Asked(Target)
  /\ me.at = "undo" => /\ me.loc.seen \in BOOLEAN
                       /\ me.loc.seen => Target.anon = "some"
                       /\ fault = "none" /\ Target.anon = "some" => me.loc.seen

\* The relation is on the list, on the one that is being made, or none is made yet.
AnonReadsPending(e) ==
  \/ me.at \in {"start", "plan", "unprotected"}
  \/ me.at = "begin" /\ fault = "lost"
  \/ me.at \in {"begin", "surface", "facts"} /\ e.on \in Elems(me.loc.plan)
  \/ me.at \in {"canary", "role", "check", "next", "count", "undo"} /\ e.on \in Todo

\* Everything exposed is pending or done.
AnonReadsInv == AnonReadsKnow /\ (Counts => \A e \in Truth.exposed : AnonReadsPending(e) \/ Done(e))

\* What is exposed to anon-reads, and what of it is missed, misjudged or provable.
LEMMA AnonReadsPoints ==
  ASSUME world.guard = "anon-reads"
  PROVE  /\ \A e : e \in Truth.exposed <=> /\ e = [on |-> e.on, arm |-> "read"] /\ e.on \in 1..Count
                                           /\ world.targets[e.on].grant
                                           /\ AR!Structural(world.targets[e.on]) \/ world.targets[e.on].anon = "some"
         /\ \A e : e \in Truth.blind <=> /\ e \in Truth.exposed
                                         /\ \/ fault = "cancelled" /\ AR!Asked(world.targets[e.on])
                                            \/ world.oldCatalog /\ world.targets[e.on].kind = "plain"
         /\ \A e : e \in Truth.provable <=>
              /\ e \in Truth.exposed /\ e \notin Truth.blind
              /\ AR!Asked(world.targets[e.on]) => world.targets[e.on].rows # "unreadable"
         /\ Truth.spurious = {}
<1>1. Truth = AR!Truth BY DEF Truth
<1>2. /\ Truth.exposed = AR!Exposed /\ Truth.blind = AR!Blind /\ Truth.provable = AR!Provable
      /\ Truth.spurious = {}
  BY <1>1 DEF AR!Truth, AR!Spurious
<1>3. \A e : e \in Truth.exposed <=> /\ e = [on |-> e.on, arm |-> "read"] /\ e.on \in 1..Count
                                     /\ world.targets[e.on].grant
                                     /\ AR!Structural(world.targets[e.on]) \/ world.targets[e.on].anon = "some"
  BY <1>2 DEF AR!Exposed, Count
<1> QED BY <1>2, <1>3 DEF AR!Blind, AR!Provable

\* What is exposed to anon-reads depends on the database and the fault alone.
LEMMA AnonReadsSame ==
  ASSUME world.guard = "anon-reads", world' = world, fault' = fault
  PROVE  Truth' = Truth
<1>1. Truth = AR!Truth BY DEF Truth
<1>2. Truth' = AR!Truth' BY DEF Truth
<1>3. AR!Exposed' = AR!Exposed BY DEF AR!Exposed, AR!Structural
<1>4. AR!Blind' = AR!Blind BY <1>3 DEF AR!Asked, AR!Blind, AR!Structural
<1>5. AR!Provable' = AR!Provable BY <1>3, <1>4 DEF AR!Asked, AR!Provable, AR!Structural
<1>6. AR!Spurious' = AR!Spurious BY DEF AR!Spurious
<1>7. AR!Fragile' = AR!Fragile BY DEF AR!Fragile
<1> QED BY <1>1, <1>2, <1>3, <1>4, <1>5, <1>6, <1>7 DEF AR!Truth

\* A step of anon-reads changes neither the database nor the fault.
LEMMA AnonReadsRest == ASSUME AR!Next PROVE world' = world /\ fault' = fault
BY DEF AR!Attempt, AR!Await, AR!Begin, AR!Check, AR!CheckCanary, AR!Connect, AR!CountVisible, AR!CreateCanary,
     AR!Disconnect, AR!Do, AR!Guarded, AR!Next, AR!NextRelation, AR!NextSurface, AR!PlanRelations, AR!ReadSurface,
     AR!RollBack, AR!Run, AR!SelfCheck, AR!SwitchRole, AR!Undo, AR!UndoProbe, AR!UnprotectedTables

\* A step of anon-reads keeps what it knows, and is one its runner expects.
LEMMA AnonReadsAnswers ==
  ASSUME Common, AnonReadsInv, world.guard = "anon-reads", AR!Next
  PROVE  Common' /\ AnonReadsInv' /\ Plays
<1>u. world' = world /\ fault' = fault BY AnonReadsRest
<1>t. Truth' = Truth BY <1>u, AnonReadsSame
<1>b. /\ AR!Connect <=> Connect
      /\ AR!Disconnect <=> Disconnect
      /\ AR!RollBack("close") <=> RollBack("close")
      /\ AR!CreateCanary("role") <=> CreateCanary("role")
      /\ AR!SwitchRole("check") <=> SwitchRole("check")
      /\ AR!CheckCanary("next") <=> CheckCanary("next")
  BY DEF AR!AsRole, AsRole, AR!Attempt, Attempt, AR!Await, Await, AR!CanaryRead, CanaryRead, AR!CheckCanary,
         CheckCanary, AR!Closed, Closed, AR!Connect, Connect, AR!CreateCanary, CreateCanary, AR!Disconnect,
         Disconnect, AR!Do, Do, AR!Ending, Ending, AR!Failed, Failed, AR!LeaksIn, LeaksIn, AR!Live, Live, AR!Made,
         Made, AR!RollBack, RollBack, AR!RolledBack, RolledBack, AR!Said, Said, AR!SwitchRole, SwitchRole,
         AR!Thrown, Thrown, AR!To, To, AR!Verdict, Verdict
<1>o. /\ AR!Live <=> Live
      /\ AR!Failed = Failed
      /\ AR!Began(pg) = Began(pg)
      /\ AR!Saved(pg) = Saved(pg)
      /\ AR!Released(pg) = Released(pg)
      /\ AR!Undone(pg) = Undone(pg)
      /\ AR!Undone(AR!Failed) = Undone(Failed)
      /\ AR!RolledBack(pg) = RolledBack(pg)
      /\ \A x : AR!AsRole(pg, x) = AsRole(pg, x)
      /\ \A x : AR!Made(pg, x) = Made(pg, x)
      /\ \A S : AR!Kept(S) = Kept(S)
      /\ AR!Target = Target
      /\ AR!Current = Current
  BY DEF AR!Live, Live, AR!Failed, Failed, AR!Began, Began, AR!Saved, Saved, AR!Released, Released, AR!Undone,
         Undone, AR!RolledBack, RolledBack, AR!AsRole, AsRole, AR!Made, Made, AR!Kept, Kept, AR!Target, Target,
         AR!Current, Current, AR!Closed, Closed
<1>c. Session /\ Shape /\ Meant /\ AnonReadsKnow BY DEF Common, AnonReadsInv
<1>k. DOMAIN me.loc = {"canary", "plan", "unread", "empty", "seen"} BY <1>c DEF AnonReadsKnow
<1>q. me.todo # <<>> =>
        /\ Current \in Todo /\ Current \in 1..Count /\ Queue(Tail(me.todo))
        /\ Elems(Tail(me.todo)) = Todo \ {Current}
  BY <1>c, Popping DEF Shape, Todo, Current
<1>x. Todo \subseteq 1..Count BY <1>c DEF Shape, Queue, Todo, Elems
\* Leaving.
<1>l. ASSUME Leaves, me.at \notin {"start", "done"}, pg' \in {pg, Failed} PROVE Common' /\ AnonReadsInv' /\ Plays
  <2>1. Shape' /\ Meant' /\ ~Counts' /\ Plays BY <1>u, <1>t, <1>l, Leaving
  <2>2. Session' BY <1>u, <1>c, <1>l, Moving DEF Moved, Leaves
  <2>4. (Unclear' <=> Unclear) /\ (\A k, x : Untold(k, x)' <=> Untold(k, x)) BY <1>u, <1>t, <1>c, <1>l, Quiet
      DEF Leaves
  <2>5. pg'.st \in {pg.st, IF pg.st = "open" THEN "aborted" ELSE pg.st} BY <1>c, <1>l DEF Failed, Session, Proper,
      Sound
  <2>3. AnonReadsKnow'
    <3>1. me'.at \in {"finally", "close"} /\ me'.todo = me.todo /\ me'.said = me.said /\ me'.loc = me.loc /\ DOMAIN me' = DOMAIN me
      BY <1>l DEF Leaves
    <3> QED BY <1>u, <1>c, <1>l, <2>1, <2>4, <2>5, <3>1 DEF AnonReadsKnow
  <2> QED BY <2>1, <2>2, <2>3 DEF Common, AnonReadsInv
\* Going on without an answer.
<1>s. ASSUME NEW at, NEW todo, Walks(at, todo, me.said), Queue(todo), Moved, me.at \notin {"start", "done"},
             at \notin {"start", "plan", "done"}, AnonReadsKnow',
             \A e \in Truth.exposed : Counts /\ AnonReadsPending(e) => AnonReadsPending(e)' \/ Done(e)
      PROVE  Common' /\ AnonReadsInv' /\ Plays
  <2>1. Shape' BY <1>u, <1>c, <1>s, Going
  <2>2. Meant' /\ \A e : Done(e)' <=> Done(e) BY <1>u, <1>t, <1>c, <1>s, Quiet DEF Walks
  <2>3. Session' BY <1>u, <1>c, <1>s, Moving DEF Walks
  <2>4. (Counts' => Counts) /\ Plays BY <1>s DEF Walks, Counts, Plays
  <2> QED BY <1>t, <1>s, <2>1, <2>2, <2>3, <2>4 DEF Common, AnonReadsInv
<1>e. /\ me' = AR!Thrown => Leaves
      /\ me' = AR!Ending(me, "skip") => Leaves
      /\ \A l : me' = AR!To(l) => Walks(l, me.todo, me.said) /\ me'.loc = me.loc
  BY <1>c DEF Shape, AR!Thrown, AR!Ending, AR!To, Leaves, Walks
\* An answer about the target at hand.
<1>a. ASSUME NEW says, says \in {"leak", "note", "clear"}, Moved, me.at \in {"next", "undo"}, me.todo # <<>>,
             Walks("next", Tail(me.todo), me.said \cup {[on |-> Current, arm |-> "read", says |-> says]}),
             me'.loc = me.loc, says = "leak" => [on |-> Current, arm |-> "read"] \in Truth.exposed \cup Truth.spurious,
             [on |-> Current, arm |-> "read"] \in Truth.exposed =>
                says = "leak" \/ (says = "note" /\ (fault # "none" \/ [on |-> Current, arm |-> "read"] \notin Truth.provable))
                              \/ [on |-> Current, arm |-> "read"] \in Truth.blind
      PROVE  Common' /\ AnonReadsInv' /\ Plays
  <2>1. Shape' BY <1>u, <1>c, <1>q, <1>a, Going
  <2> DEFINE e0 == [on |-> Current, arm |-> "read"]
  <2>0. Untold(Current, "read") BY <1>c, <1>q, <1>a DEF AnonReadsKnow
  <2>2. /\ Meant'
        /\ \A e : Done(e) => Done(e)'
        /\ \A e : e.on = Current /\ e.arm = "read" /\ says = "leak" => Done(e)'
        /\ \A e : e.on = Current /\ says # "clear" /\ (fault # "none" \/ e \notin Truth.provable) => Done(e)'
        /\ \A k, x : (k # Current \/ x # "read" \/ says = "note") /\ Untold(k, x) => Untold(k, x)'
        /\ says # "clear" /\ Unclear => Unclear'
    BY <1>u, <1>t, <1>c, <1>a, <2>0, Telling DEF Walks
  <2>3. Session' BY <1>u, <1>c, <1>a, Moving DEF Walks
  <2>4. (Counts' => Counts) /\ Plays BY <1>a DEF Walks, Counts, Plays
  <2>5. Todo' = Todo \ {Current} BY <1>q, <1>a DEF Walks, Todo
  <2>6. AnonReadsKnow' BY <1>u, <1>c, <1>k, <1>a, <2>2, <2>5 DEF AnonReadsKnow, Walks
  <2>7. ASSUME NEW e \in Truth.exposed, AnonReadsPending(e) PROVE AnonReadsPending(e)' \/ Done(e)'
    <3>1. e.on \in Todo BY <1>a, <2>7 DEF AnonReadsPending
    <3>2. CASE e.on = Current
      <4>1. e = e0 BY <3>2, AnonReadsPoints
      <4>2. e \in Truth.blind => Done(e)' BY <1>u, <1>t, <4>1, AnonReadsPoints DEF Done
      <4> QED BY <1>a, <2>2, <3>2, <4>1, <4>2
    <3>3. CASE e.on # Current BY <1>a, <2>5, <3>1, <3>3 DEF AnonReadsPending, Walks
    <3> QED BY <3>2, <3>3
  <2> QED BY <1>t, <2>1, <2>2, <2>3, <2>4, <2>6, <2>7 DEF Common, AnonReadsInv
<1>1. CASE AR!PlanRelations
  <2>1. /\ me.at = "plan" /\ pg' \in {pg, Failed}
        /\ me' = AR!Thrown \/ me' = AR!Ending(me, "skip") \/ (me' = AR!To("unprotected") /\ pg' = pg)
    BY <1>1, <1>o, Zenon DEF AR!PlanRelations, AR!Await, AR!Do
  <2>2. CASE me' = AR!To("unprotected") /\ pg' = pg
    <3>1. Walks("unprotected", me.todo, me.said) /\ me'.loc = me.loc BY <1>e, <2>2
    <3>2. AnonReadsKnow' BY <1>u, <1>c, <2>1, <2>2, <3>1 DEF AnonReadsKnow, Walks, Shape, Whole, Count
    <3>3. \A e : AnonReadsPending(e)' BY <3>1 DEF AnonReadsPending, Walks
    <3> QED BY <1>s, <1>c, <2>1, <3>1, <3>2, <3>3 DEF Shape, Moved
  <2> QED BY <1>e, <1>l, <2>1, <2>2
<1>2. CASE AR!UnprotectedTables
  <2> DEFINE others == {k \in 1..Count : world.targets[k].kind # "plain"}
  <2>1. /\ me.at = "unprotected" /\ pg' \in {pg, Failed}
        /\ \E todo \in {me.todo, Kept(others)} :
             /\ me' = [AR!Planned(todo) EXCEPT !.loc.plan = todo]
             /\ todo # me.todo => ~Live \/ world.oldCatalog
    BY <1>2, <1>o, Zenon DEF AR!UnprotectedTables, AR!Attempt, AR!Do, Count
  <2>2. PICK todo \in {me.todo, Kept(others)} :
             /\ me' = [AR!Planned(todo) EXCEPT !.loc.plan = todo]
             /\ todo # me.todo => ~Live \/ world.oldCatalog
    BY <2>1
  <2>3. Count \in Nat /\ Whole(me.todo) /\ me.said = {} /\ pg.st \in {"idle", "lost"}
    BY <1>c, <2>1 DEF Shape, AnonReadsKnow
  <2>4. Queue(todo) /\ Elems(todo) = (IF todo = me.todo THEN 1..Count ELSE others)
    <3>1. Queue(me.todo) /\ Elems(me.todo) = 1..Count BY <2>3, Listing
    <3>2. Queue(Kept(others)) /\ Elems(Kept(others)) = (1..Count) \cap others BY <2>3, Keeping
    <3> QED BY <2>2, <3>1, <3>2
  <2> HIDE DEF others
  <2>5. /\ DOMAIN me' = DOMAIN me /\ me'.said = me.said /\ me'.thrown = me.thrown
        /\ me'.loc = [me.loc EXCEPT !.plan = todo]
        /\ \/ todo = <<>> /\ me'.at = "close" /\ me'.result = "skip" /\ me'.todo = me.todo
           \/ todo # <<>> /\ me'.at = "begin" /\ me'.result = me.result /\ me'.todo = todo
    BY <1>c, <2>2 DEF Shape, AR!Planned, AR!Ending
  <2>6. Session' BY <1>u, <1>c, <2>1, <2>5, Moving DEF Moved
  <2>7. Meant' /\ \A e : Done(e)' <=> Done(e) BY <1>u, <1>t, <1>c, <2>5, Quiet
  <2>8. Shape' BY <1>u, <1>c, <2>1, <2>4, <2>5 DEF Shape, Queue, Count
  <2>9. me'.loc.plan = todo /\ DOMAIN me'.loc = DOMAIN me.loc /\ me'.loc.unread = me.loc.unread
    BY <1>k, <2>5
  <2>10. Queue(todo)' BY <1>u, <2>4 DEF Queue, Count
  <2>11. AnonReadsKnow' BY <1>u, <1>c, <1>k, <2>1, <2>3, <2>5, <2>9, <2>10 DEF AnonReadsKnow
  <2>12. ASSUME Counts', NEW e \in Truth.exposed PROVE AnonReadsPending(e)' \/ Done(e)
    <3>1. me'.at = "begin" BY <2>5, <2>12 DEF Counts
    <3>2. CASE todo = me.todo \/ e.on \in others
      <4>1. e.on \in 1..Count BY AnonReadsPoints
      <4>2. e.on \in Elems(todo) BY <2>4, <3>2, <4>1
      <4> QED BY <2>9, <3>1, <4>2 DEF AnonReadsPending, Elems
    <3>3. CASE ~Live
      <4>1. fault' = "lost" BY <1>u, <1>c, <2>1, <2>3, <3>3 DEF Session, Live
      <4> QED BY <3>1, <4>1 DEF AnonReadsPending
    <3>4. CASE world.oldCatalog /\ e.on \notin others
      <4>1. e.on \in 1..Count /\ e \in Truth.exposed BY <2>12, AnonReadsPoints
      <4>2. world.targets[e.on].kind = "plain" BY <3>4, <4>1 DEF others
      <4>3. e \in Truth.blind BY <3>4, <4>1, <4>2, AnonReadsPoints
      <4> QED BY <4>3, AnonReadsPoints DEF Done
    <3> QED BY <2>2, <3>2, <3>3, <3>4
  <2>13. Plays BY <2>1, <2>5 DEF Plays
  <2> QED BY <1>t, <2>6, <2>7, <2>8, <2>11, <2>12, <2>13 DEF Common, AnonReadsInv
<1>3. CASE AR!Begin
  <2>1. /\ me.at = "begin"
        /\ (me' = AR!Thrown /\ pg' = Failed) \/ (me' = AR!To("surface") /\ pg' = Began(pg) /\ Live)
    BY <1>3, <1>o, Zenon DEF AR!Begin, AR!Await, AR!Do
  <2>2. CASE me' = AR!To("surface") /\ pg' = Began(pg) /\ Live
    <3>1. Walks("surface", me.todo, me.said) /\ me'.loc = me.loc BY <1>e, <2>2
    <3>2. AnonReadsKnow' BY <1>u, <1>c, <2>1, <2>2, <3>1 DEF AnonReadsKnow, Walks, Queue, Count
    <3>3. fault # "lost" BY <1>c, <2>1, <2>2 DEF Session, Live
    <3>4. \A e : AnonReadsPending(e) => AnonReadsPending(e)' BY <1>u, <2>1, <3>1, <3>3 DEF AnonReadsPending, Walks,
        Elems
    <3> QED BY <1>s, <1>c, <2>1, <2>2, <3>1, <3>2, <3>4 DEF Shape, Moved
  <2> QED BY <1>e, <1>l, <2>1, <2>2
<1>4. CASE AR!NextSurface
  <2>1. /\ me.at = "surface"
        /\ \/ me' = [AR!To("canary") EXCEPT !.todo = me.loc.plan] /\ pg' = pg
           \/ me' = AR!Thrown /\ pg' = Failed
           \/ me' = AR!To("facts") /\ pg' = Saved(pg) /\ Live /\ me.todo # <<>>
    BY <1>4, <1>o, Zenon DEF AR!NextSurface, AR!Await, AR!Do
  <2>2. CASE me' = [AR!To("canary") EXCEPT !.todo = me.loc.plan] /\ pg' = pg
    <3>1. Walks("canary", me.loc.plan, me.said) /\ me'.loc = me.loc BY <1>c, <2>2 DEF Shape, AR!To, Walks
    <3>2. me.said = {} /\ Queue(me.loc.plan) BY <1>c, <2>1 DEF AnonReadsKnow
    <3>3. AnonReadsKnow' BY <1>u, <1>c, <3>1, <3>2 DEF AnonReadsKnow, Walks, Untold
    <3>4. \A e : AnonReadsPending(e) => AnonReadsPending(e)' BY <1>u, <2>1, <3>1 DEF AnonReadsPending, Walks, Todo
    <3> QED BY <1>s, <2>1, <2>2, <3>1, <3>2, <3>3, <3>4 DEF Moved
  <2>3. CASE me' = AR!To("facts") /\ pg' = Saved(pg) /\ Live /\ me.todo # <<>>
    <3>1. Walks("facts", me.todo, me.said) /\ me'.loc = me.loc BY <1>e, <2>3
    <3>2. Live' BY <1>c, <2>3, Saving DEF Live, Session, Proper
    <3>3. AnonReadsKnow' BY <1>u, <1>c, <2>1, <2>3, <3>1, <3>2 DEF AnonReadsKnow, Walks, Queue, Count
    <3>4. \A e : AnonReadsPending(e) => AnonReadsPending(e)' BY <1>u, <2>1, <3>1 DEF AnonReadsPending, Walks, Elems
    <3> QED BY <1>s, <1>c, <2>1, <2>3, <3>1, <3>3, <3>4 DEF Shape, Moved
  <2> QED BY <1>e, <1>l, <2>1, <2>2, <2>3
<1>5. CASE AR!ReadSurface
  <2> DEFINE on == [me EXCEPT !.todo = Tail(@), !.at = "surface"]
             S == me.loc.empty \cup {Current}
             U == me.loc.unread \cup {Current}
  <2>1. /\ me.at = "facts" /\ pg' \in {Released(pg), Undone(Failed)}
        /\ \/ me' = on \/ me' = [on EXCEPT !.loc.empty = S]
           \/ me' = [on EXCEPT !.loc.unread = U] /\ (~Live \/ (AR!Asked(Target) /\ Target.rows = "unreadable"))
    BY <1>5, <1>o, Zenon DEF AR!ReadSurface, AR!Guarded, AR!Do
  <2> HIDE DEF S, U
  <2>2. /\ Walks("surface", Tail(me.todo), me.said)
        /\ DOMAIN me'.loc = DOMAIN me.loc /\ me'.loc.plan = me.loc.plan
        /\ me'.loc.unread \in {me.loc.unread, U}
        /\ me'.loc.unread # me.loc.unread => ~Live \/ (AR!Asked(Target) /\ Target.rows = "unreadable")
    <3>1. CASE me' = on BY <1>c, <3>1 DEF Shape, Walks
    <3>2. CASE me' = [on EXCEPT !.loc.empty = S]
      <4>1. Walks("surface", Tail(me.todo), me.said) /\ me'.loc = [me.loc EXCEPT !.empty = S]
        BY <1>c, <3>2 DEF Shape, Walks
      <4> QED BY <1>k, <4>1
    <3>3. CASE me' = [on EXCEPT !.loc.unread = U] /\ (~Live \/ (AR!Asked(Target) /\ Target.rows = "unreadable"))
      <4>1. Walks("surface", Tail(me.todo), me.said) /\ me'.loc = [me.loc EXCEPT !.unread = U]
        BY <1>c, <3>3 DEF Shape, Walks
      <4> QED BY <1>k, <3>3, <4>1
    <3> QED BY <2>1, <3>1, <3>2, <3>3
  <2>3. me.todo # <<>> /\ Queue(me.loc.plan) /\ me.said = {} /\ (fault = "none" => Live)
    BY <1>c, <2>1 DEF AnonReadsKnow
  <2>4. AnonReadsKnow' BY <1>u, <1>c, <1>k, <2>1, <2>2, <2>3 DEF AnonReadsKnow, Walks, Queue, Count, U, Target,
      Current
  <2>5. \A e : AnonReadsPending(e) => AnonReadsPending(e)' BY <1>u, <2>1, <2>2 DEF AnonReadsPending, Walks, Elems
  <2> QED BY <1>s, <1>q, <2>1, <2>2, <2>3, <2>4, <2>5 DEF Moved
<1>6. CASE AR!CreateCanary("role")
  <2>1. /\ me.at = "canary" /\ Common' /\ Plays /\ Keeps /\ Walks("role", me.todo, me'.said)
        /\ me'.loc = me.loc \/ me'.loc = [me.loc EXCEPT !.canary = TRUE]
        /\ pg' = Failed \/ (Live /\ pg' = Made(pg, "canary"))
    BY <1>b, <1>t, <1>6, CreatesCanary
  <2>2. DOMAIN me'.loc = DOMAIN me.loc /\ me'.loc.unread = me.loc.unread BY <1>k, <2>1
  <2>3. AnonReadsKnow' BY <1>u, <1>c, <2>1, <2>2 DEF AnonReadsKnow, Walks, Keeps, Todo
  <2>4. \A e \in Truth.exposed : AnonReadsPending(e) => AnonReadsPending(e)' BY <1>u, <2>1, <2>2 DEF AnonReadsPending,
      Walks, Todo
  <2> QED BY <1>t, <2>1, <2>3, <2>4 DEF AnonReadsInv, Keeps, Counts, Walks
<1>7. CASE AR!SwitchRole("check")
  <2>1. /\ me.at = "role" /\ Common' /\ Plays /\ me'.loc = me.loc /\ me'.said = me.said
        /\ (Leaves /\ ~Counts' /\ pg' = Failed) \/ (Walks("check", me.todo, me.said) /\ Live /\ world.member /\ pg' = AsRole(pg, "app"))
    BY <1>b, <1>t, <1>7, SwitchesRole
  <2>2. (\A e : Done(e)' <=> Done(e)) /\ (Unclear' <=> Unclear) BY <1>u, <1>t, <1>c, <2>1, Quiet
  <2>3. AnonReadsKnow' BY <1>u, <1>c, <2>1, <2>2 DEF AnonReadsKnow, Walks, Leaves, Todo, Untold
  <2>4. \A e : AnonReadsPending(e) /\ Counts' => AnonReadsPending(e)' BY <1>u, <2>1 DEF AnonReadsPending, Walks, Todo
  <2> QED BY <1>t, <2>1, <2>2, <2>3, <2>4 DEF AnonReadsInv, Counts, Walks
<1>8. CASE AR!CheckCanary("next")
  <2>1. /\ me.at = "check" /\ Common' /\ Plays /\ me'.loc = me.loc /\ me'.said = me.said
        /\ (Leaves /\ ~Counts' /\ pg' = RolledBack(pg)) \/ (Walks("next", me.todo, me.said) /\ (pg' = pg \/ (~Live /\ pg' = Failed)))
    BY <1>b, <1>t, <1>8, ChecksCanary
  <2>2. (\A e : Done(e)' <=> Done(e)) /\ (Unclear' <=> Unclear) BY <1>u, <1>t, <1>c, <2>1, Quiet
  <2>3. AnonReadsKnow' BY <1>u, <1>c, <2>1, <2>2 DEF AnonReadsKnow, Walks, Leaves, Todo, Untold
  <2>4. \A e : AnonReadsPending(e) /\ Counts' => AnonReadsPending(e)' BY <1>u, <2>1 DEF AnonReadsPending, Walks, Todo
  <2> QED BY <1>t, <2>1, <2>2, <2>3, <2>4 DEF AnonReadsInv, Counts, Walks
<1>r. ASSUME NEW seen \in BOOLEAN, me' = AR!Answer(Target, Current, seen), Moved, me.at \in {"next", "undo"},
             me.todo # <<>>, seen => Target.anon = "some",
             AR!Asked(Target) => me.at = "undo" /\ (Target.anon = "some" => seen \/ fault = "cancelled")
      PROVE  Common' /\ AnonReadsInv' /\ Plays
  <2> DEFINE e0 == [on |-> Current, arm |-> "read"]
             says == AR!ClassifyRead(Target, Current \in me.loc.empty, seen)
  <2>1. /\ says \in {"silent", "leak", "note", "clear"}
        /\ says = "silent" <=> ~Target.grant
        /\ says = "leak" <=> Target.grant /\ (AR!Structural(Target) \/ seen)
    BY DEF AR!ClassifyRead
  <2>2. me' = AR!Onward(IF says = "silent" THEN me ELSE AR!Said(me, Current, "read", says))
    BY <1>r, <1>o DEF AR!Answer
  <2> HIDE DEF says
  <2>3. /\ Walks("next", Tail(me.todo), IF says = "silent" THEN me.said ELSE me.said \cup {[on |-> Current, arm |-> "read", says |-> says]})
        /\ me'.loc = me.loc
    BY <1>c, <2>2 DEF Shape, AR!Onward, AR!Said, Walks
  <2>4. e0 \in Truth.exposed <=> Target.grant /\ (AR!Structural(Target) \/ Target.anon = "some")
    BY <1>q, <1>r, AnonReadsPoints DEF Target, Current
  <2>5. CASE says = "silent"
    <3>1. Walks("next", Tail(me.todo), me.said) BY <2>3, <2>5
    <3>2. Todo' = Todo \ {Current} BY <1>q, <1>r, <3>1 DEF Walks, Todo
    <3>3. AnonReadsKnow' BY <1>u, <1>c, <1>r, <2>3, <3>1, <3>2 DEF AnonReadsKnow, Walks, Untold
    <3>4. ASSUME NEW e \in Truth.exposed, AnonReadsPending(e) PROVE AnonReadsPending(e)'
      <4>1. e.on \in Todo BY <1>r, <3>4 DEF AnonReadsPending
      <4>2. e.on # Current
        <5>1. SUFFICES ASSUME e.on = Current PROVE FALSE OBVIOUS
        <5>2. e = e0 BY <5>1, AnonReadsPoints
        <5> QED BY <2>1, <2>4, <2>5, <5>2
      <4> QED BY <3>1, <3>2, <4>1, <4>2 DEF AnonReadsPending, Walks
    <3> QED BY <1>s, <1>q, <1>r, <3>1, <3>3, <3>4
  <2>6. CASE says # "silent"
    <3>1. Walks("next", Tail(me.todo), me.said \cup {[on |-> Current, arm |-> "read", says |-> says]}) BY <2>3, <2>6
    <3>2. says = "leak" => e0 \in Truth.exposed BY <1>r, <2>1, <2>4
    <3>3. e0 \in Truth.exposed => says = "leak" \/ e0 \in Truth.blind
      <4>1. SUFFICES ASSUME e0 \in Truth.exposed, says # "leak" PROVE e0 \in Truth.blind OBVIOUS
      <4>2. Target.anon = "some" /\ ~seen /\ AR!Asked(Target) BY <2>1, <2>4, <4>1 DEF AR!Asked
      <4>3. fault = "cancelled" BY <1>r, <4>2
      <4> QED BY <1>q, <1>r, <4>1, <4>2, <4>3, AnonReadsPoints DEF Target, Current
    <3> QED BY <1>a, <1>r, <2>1, <2>3, <2>6, <3>1, <3>2, <3>3
  <2> QED BY <2>5, <2>6
<1>9. CASE AR!NextRelation
  <2>1. /\ me.at = "next"
        /\ \/ me.todo = <<>> /\ me' = AR!To("finally") /\ pg' = pg
           \/ /\ me.todo # <<>> /\ Current \in me.loc.unread /\ pg' = pg
              /\ me' = AR!Onward(AR!Said(me, Current, "read", "note"))
           \/ me.todo # <<>> /\ AR!Asked(Target) /\ Live /\ pg' = Saved(pg) /\ me' = AR!To("count")
           \/ pg' = Failed /\ me' = AR!Thrown
           \/ me.todo # <<>> /\ ~AR!Asked(Target) /\ pg' = pg /\ me' = AR!Answer(Target, Current, FALSE)
    BY <1>9, <1>o, Zenon DEF AR!NextRelation, AR!Await, AR!Do
  <2>2. CASE me.todo = <<>> /\ me' = AR!To("finally") /\ pg' = pg
    <3>1. Walks("finally", me.todo, me.said) /\ me'.loc = me.loc BY <1>e, <2>2
    <3>2. AnonReadsKnow' BY <1>u, <1>c, <3>1 DEF AnonReadsKnow, Walks
    <3>3. \A e : ~AnonReadsPending(e)
      <4>1. Todo = {} BY <2>2 DEF Todo, Elems
      <4> QED BY <2>1, <4>1 DEF AnonReadsPending
    <3> QED BY <1>s, <1>c, <2>1, <2>2, <3>1, <3>2, <3>3 DEF Moved, Shape
  <2>3. CASE /\ me.todo # <<>> /\ Current \in me.loc.unread /\ pg' = pg
             /\ me' = AR!Onward(AR!Said(me, Current, "read", "note"))
    <3>1. Walks("next", Tail(me.todo), me.said \cup {[on |-> Current, arm |-> "read", says |-> "note"]}) /\ me'.loc = me.loc
      BY <1>c, <2>3 DEF Shape, AR!Onward, AR!Said, Walks
    <3>2. fault # "none" \/ [on |-> Current, arm |-> "read"] \notin Truth.provable
      BY <1>c, <2>3, AnonReadsPoints DEF AnonReadsKnow
    <3> QED BY <1>a, <2>1, <2>3, <3>1, <3>2 DEF Moved
  <2>4. CASE me.todo # <<>> /\ AR!Asked(Target) /\ Live /\ pg' = Saved(pg) /\ me' = AR!To("count")
    <3>1. Walks("count", me.todo, me.said) /\ me'.loc = me.loc BY <1>e, <2>4
    <3>2. Live' BY <1>c, <2>4, Saving DEF Live, Session, Proper
    <3>3. AR!Asked(Target)' BY <1>u, <2>4, <3>1 DEF AR!Asked, AR!Structural, Target, Walks
    <3>4. AnonReadsKnow' BY <1>u, <1>c, <2>1, <2>4, <3>1, <3>2, <3>3 DEF AnonReadsKnow, Walks, Todo, Untold
    <3>5. \A e : AnonReadsPending(e) => AnonReadsPending(e)' BY <2>1, <3>1 DEF AnonReadsPending, Walks, Todo
    <3> QED BY <1>s, <1>c, <2>1, <2>4, <3>1, <3>4, <3>5 DEF Moved, Shape
  <2>5. CASE me.todo # <<>> /\ ~AR!Asked(Target) /\ pg' = pg /\ me' = AR!Answer(Target, Current, FALSE)
    BY <1>r, <2>1, <2>5 DEF Moved
  <2>6. CASE pg' = Failed /\ me' = AR!Thrown BY <1>e, <1>l, <2>1, <2>6
  <2> QED BY <2>1, <2>2, <2>3, <2>4, <2>5, <2>6
<1>10. CASE AR!CountVisible
  <2> DEFINE some == AR!Target.anon = "some"
  <2>1. /\ me.at = "count" /\ pg' \in {pg, Failed}
        /\ \/ me' = [AR!To("undo") EXCEPT !.loc.seen = some]
           \/ me' = [AR!To("undo") EXCEPT !.loc.seen = FALSE] /\ (~Live \/ Target.anon = "error")
    BY <1>10, <1>o, Zenon DEF AR!CountVisible, AR!Attempt, AR!Do
  <2>2. some \in BOOLEAN /\ (some <=> Target.anon = "some") BY <1>o
  <2> HIDE DEF some
  <2>3. PICK x \in BOOLEAN : /\ me' = [AR!To("undo") EXCEPT !.loc.seen = x]
                             /\ x => Target.anon = "some"
                             /\ ~x => Target.anon # "some" \/ ~Live
    BY <2>1, <2>2
  <2>4. /\ Walks("undo", me.todo, me.said) /\ me'.loc.seen = x
        /\ DOMAIN me'.loc = DOMAIN me.loc /\ me'.loc.unread = me.loc.unread
    <3>1. Walks("undo", me.todo, me.said) /\ me'.loc = [me.loc EXCEPT !.seen = x]
      BY <1>c, <2>3 DEF Shape, AR!To, Walks
    <3> QED BY <1>k, <3>1
  <2>5. Target' = Target /\ Todo' = Todo BY <1>u, <2>4 DEF Target, Todo, Walks
  <2>6. AR!Asked(Target)' <=> AR!Asked(Target) BY <2>5 DEF AR!Asked, AR!Structural
  <2>7. AnonReadsKnow' BY <1>u, <1>c, <2>1, <2>3, <2>4, <2>5, <2>6 DEF AnonReadsKnow, Walks, Untold
  <2>8. \A e : AnonReadsPending(e) => AnonReadsPending(e)' BY <2>1, <2>4, <2>5 DEF AnonReadsPending, Walks
  <2> QED BY <1>s, <1>c, <2>1, <2>4, <2>7, <2>8 DEF Moved, Shape
<1>11. CASE AR!UndoProbe
  <2>1. /\ me.at = "undo"
        /\ \/ pg.st \in {"open", "aborted"} /\ pg' = Undone(pg) /\ me' = AR!Answer(Target, Current, me.loc.seen)
           \/ pg' = pg /\ me' = AR!Thrown
    BY <1>11, <1>o, Zenon DEF AR!UndoProbe, AR!Undo, AR!Do
  <2>2. CASE pg.st \in {"open", "aborted"} /\ pg' = Undone(pg) /\ me' = AR!Answer(Target, Current, me.loc.seen)
    <3>1. /\ me.todo # <<>> /\ me.loc.seen \in BOOLEAN /\ (me.loc.seen => Target.anon = "some")
          /\ fault = "none" /\ Target.anon = "some" => me.loc.seen
      BY <1>c, <2>1 DEF AnonReadsKnow
    <3>2. fault \in {"none", "cancelled"} BY <1>c, <2>1, <2>2 DEF Session
    <3> QED BY <1>r, <2>1, <2>2, <3>1, <3>2 DEF Moved
  <2>3. CASE pg' = pg /\ me' = AR!Thrown BY <1>e, <1>l, <2>1, <2>3
  <2> QED BY <2>1, <2>2, <2>3
<1>12. CASE AR!RollBack("close")
  <2>1. /\ me.at = "finally" /\ Common' /\ Plays /\ me'.at = (IF me.thrown THEN "close" ELSE "close")
        /\ me'.thrown = me.thrown /\ me'.result = me.result
        /\ me'.loc = me.loc /\ me'.said = me.said /\ me'.todo = me.todo /\ (Counts' <=> Counts)
        /\ pg' \in {pg, RolledBack(pg)} /\ (pg.st \notin {"open", "aborted"} => pg' = pg)
    BY <1>b, <1>t, <1>12, RollsBack
  <2>2. (\A e : Done(e)' <=> Done(e)) /\ (Unclear' <=> Unclear) BY <1>u, <1>t, <1>c, <2>1, Quiet
  <2>3. AnonReadsKnow' BY <1>u, <1>c, <2>1, <2>2 DEF AnonReadsKnow
  <2>4. \A e \in Truth.exposed : AnonReadsPending(e) /\ Counts => AnonReadsPending(e)' BY <1>u, <2>1
      DEF AnonReadsPending
  <2> QED BY <1>t, <2>1, <2>2, <2>3, <2>4 DEF AnonReadsInv
<1>13. CASE AR!Connect
  <2>1. /\ me.at = "start" /\ Common' /\ Plays /\ me'.loc = me.loc /\ me'.said = {} /\ me'.todo = me.todo
        /\ \/ me'.at = "plan" /\ pg' = [pg EXCEPT !.st = "idle"] /\ pg'.st = "idle" /\ Whole(me'.todo)
           \/ me'.at = "done" /\ ~Counts' /\ pg' = pg
    BY <1>b, <1>t, <1>13, Connects
  <2>2. AnonReadsKnow' BY <1>u, <1>c, <2>1 DEF AnonReadsKnow, Unclear
  <2>3. Counts' => \A e : AnonReadsPending(e)' BY <2>1 DEF AnonReadsPending
  <2> QED BY <2>1, <2>2, <2>3 DEF AnonReadsInv
<1>14. CASE AR!Disconnect
  <2>1. /\ me.at = "close" /\ Common' /\ Plays /\ me'.at = "done"
        /\ me'.loc = me.loc /\ me'.said = me.said /\ me'.todo = me.todo /\ (Counts' => Counts)
    BY <1>b, <1>t, <1>14, Disconnects
  <2>2. (\A e : Done(e)' <=> Done(e)) /\ (Unclear' <=> Unclear) BY <1>u, <1>t, <1>c, <2>1, Quiet
  <2>3. AnonReadsKnow' BY <1>u, <1>c, <2>1, <2>2 DEF AnonReadsKnow
  <2>4. \A e : ~AnonReadsPending(e) BY <2>1 DEF AnonReadsPending
  <2> QED BY <1>t, <2>1, <2>2, <2>3, <2>4 DEF AnonReadsInv
<1> QED BY <1>1, <1>2, <1>3, <1>4, <1>5, <1>6, <1>7, <1>8, <1>9, <1>10, <1>11, <1>12, <1>13, <1>14 DEF AR!Next,
    AR!Check, AR!Run, AR!SelfCheck

\* So does a fault, whenever it strikes.
LEMMA AnonReadsStruck ==
  ASSUME Common, AnonReadsInv, world.guard = "anon-reads", Drop \/ Cancel
  PROVE  Common' /\ AnonReadsInv'
<1>1. world' = world /\ fault = "none" BY DEF Drop, Cancel
<1>2. Truth'.exposed = Truth.exposed /\ Truth.blind \subseteq Truth'.blind /\ Truth.spurious \subseteq Truth'.spurious
  <2>1. Truth = AR!Truth /\ Truth' = AR!Truth' BY <1>1 DEF Truth
  <2>2. AR!Exposed' = AR!Exposed BY <1>1 DEF AR!Exposed, AR!Structural
  <2>3. AR!Blind \subseteq AR!Blind' BY <1>1, <2>2 DEF AR!Asked, AR!Blind, AR!Structural
  <2>4. AR!Spurious \subseteq AR!Spurious' BY <1>1 DEF AR!Spurious
  <2> QED BY <2>1, <2>2, <2>3, <2>4 DEF AR!Truth
<1>3. /\ me' = me /\ fault' # "none" /\ Common'
      /\ \/ fault' = "lost" /\ pg'.st = "lost" /\ pg'.who = "nobody" /\ pg'.saves = <<>>
         \/ fault' = "cancelled" /\ pg.st = "open" /\ pg'.st = "aborted" /\ pg' = Failed
      /\ \A e : Done(e) => Done(e)'
      /\ \A k, x : Untold(k, x)' <=> Untold(k, x)
      /\ Unclear' <=> Unclear
  BY <1>2, Striking
<1>4. AnonReadsKnow' BY <1>1, <1>3 DEF AnonReadsInv, AnonReadsKnow, Whole, Queue, Count, Todo, AR!Asked,
    AR!Structural, Target
<1>5. \A e : AnonReadsPending(e) => AnonReadsPending(e)' BY <1>1, <1>3 DEF AnonReadsPending, Todo
<1> QED BY <1>2, <1>3, <1>4, <1>5 DEF AnonReadsInv, Counts

\* Anon-reads begins so.
LEMMA AnonReadsBegins == ASSUME AR!Init PROVE Common /\ AnonReadsInv /\ world.guard = "anon-reads"
<1>1. Begins("anon-reads") /\ me.loc = [canary |-> FALSE, plan |-> <<>>, unread |-> {}, empty |-> {}, seen |-> FALSE]
  BY WorldAssumption DEF Names, Begins, Whole, Count, Closed, AR!Init, AR!Enter, AR!Entered, AR!Closed
<1>2. Common BY <1>1, Beginning DEF Names
<1>3. AnonReadsKnow BY <1>1 DEF AnonReadsKnow, Begins, Unclear
<1> QED BY <1>1, <1>2, <1>3 DEF AnonReadsInv, AnonReadsPending, Begins

\* A step of nobody keeps it.
LEMMA AnonReadsStays ==
  ASSUME Common, AnonReadsInv, world.guard = "anon-reads", UNCHANGED vars
  PROVE  Common' /\ AnonReadsInv'
<1>1. world' = world /\ fault' = fault /\ pg' = pg /\ me' = me BY DEF vars
<1>2. Truth' = Truth BY <1>1, AnonReadsSame
<1>3. Common' /\ (\A e : Done(e)' <=> Done(e)) /\ (Counts' <=> Counts) BY <1>1, <1>2, Resting
<1>4. Todo' = Todo /\ Target' = Target /\ Live' = Live /\ Count' = Count BY <1>1 DEF Todo, Target, Live, Count, Elems
<1>5. \A e : AnonReadsPending(e)' <=> AnonReadsPending(e) BY <1>1, <1>4 DEF AnonReadsPending, Elems
<1>6. \A k : Untold(k, "read")' <=> Untold(k, "read") BY <1>1 DEF Untold
<1>7. \A k : AR!Asked(world.targets[k])' <=> AR!Asked(world.targets[k]) BY <1>1 DEF AR!Asked, AR!Structural
<1>8. AR!Asked(Target)' <=> AR!Asked(Target) BY <1>1, <1>4 DEF AR!Asked, AR!Structural
<1>9. AnonReadsKnow' BY <1>1, <1>4, <1>6, <1>7, <1>8 DEF AnonReadsInv, AnonReadsKnow, Whole, Queue
<1> QED BY <1>2, <1>3, <1>5, <1>9 DEF AnonReadsInv

\* At the end nothing is pending, and a question is a target and an arm.
LEMMA AnonReadsEnds ==
  ASSUME Common, world.guard = "anon-reads", AnonReadsInv, me.at = "done", Counts
  PROVE  /\ \A e \in Truth.exposed : e = Key(e) /\ Done(e)
         /\ Truth.provable \subseteq Truth.exposed
<1>1. \A e : ~AnonReadsPending(e) BY DEF AnonReadsPending
<1> QED BY <1>1, AnonReadsPoints DEF AnonReadsInv, Key

-----------------------------------------------------------------------------
(* anon-writes.                                                            *)
\* The statements on the relation at hand that have been tried.
Tried(e) == e.on = Current /\ e.arm = "UPDATE" /\ (me.at = "DELETE" \/ (me.at = "probe" /\ me.loc.cmd = "DELETE"))

\* The relations on the list have no answer yet but for the statement that was tried
\* on the one at hand, and what is probed is to be probed.
AnonWritesKnow ==
  /\ DOMAIN me.loc = {"canary", "cmd"}
  /\ me.at \in {"plan", "views"} => pg.st \in {"idle", "lost"}
  /\ me.at = "views" => Whole(me.todo)
  /\ me.at \in {"plan", "views"} => me.said = {}
  /\ me.at \in {"begin", "canary", "role", "check", "next", "UPDATE", "DELETE", "probe"} =>
       /\ \A k \in Todo : world.targets[k].view => AW!PlanViewSurface(world.targets[k])
       /\ \A k \in Todo, c \in AW!Commands : Untold(k, c) \/ Tried([on |-> k, arm |-> c])
  /\ me.at \in {"UPDATE", "DELETE", "probe"} => me.todo # <<>> /\ (Target.view \/ Target.rls)
  /\ me.at = "probe" => me.loc.cmd \in {"UPDATE", "DELETE"} /\ AW!Probes(Target, me.loc.cmd)
  /\ me.at = "probe" /\ fault = "none" => Live

\* The relation is on the list and the statement has not been tried on it.
AnonWritesPending(e) ==
  \/ me.at \in {"start", "plan", "views"}
  \/ me.at \in {"begin", "canary", "role", "check", "next", "UPDATE", "DELETE", "probe"} /\ e.on \in Todo /\ ~Tried(e)

\* Everything exposed is pending or done.
AnonWritesInv == AnonWritesKnow /\ (Counts => \A e \in Truth.exposed : AnonWritesPending(e) \/ Done(e))

\* What is exposed to anon-writes, and what of it is missed, misjudged or provable.
LEMMA AnonWritesPoints ==
  ASSUME world.guard = "anon-writes"
  PROVE  /\ \A e : e \in Truth.exposed <=>
              /\ e = [on |-> e.on, arm |-> e.arm] /\ e.on \in 1..Count /\ e.arm \in AW!Commands
              /\ AW!Writable(world.targets[e.on], e.arm)
         /\ \A e : e \in Truth.blind <=>
              /\ e \in Truth.exposed
              /\ \/ e.arm = "INSERT" /\ (world.targets[e.on].view \/ world.targets[e.on].rls)
                 \/ world.targets[e.on].view /\ (world.oldCatalog \/ fault # "none")
         /\ Truth.provable = Truth.exposed \ Truth.blind
<1>1. Truth.exposed = AW!Exposed /\ Truth.blind = AW!Blind /\ Truth.provable = AW!Provable BY DEF Truth, AW!Truth
<1>2. \A e : e \in Truth.exposed <=>
              /\ e = [on |-> e.on, arm |-> e.arm] /\ e.on \in 1..Count /\ e.arm \in AW!Commands
              /\ AW!Writable(world.targets[e.on], e.arm)
  BY <1>1 DEF AW!Exposed, Count
<1> QED BY <1>1, <1>2 DEF AW!Blind, AW!Provable

\* What a relation that is probed can lose to a statement.
LEMMA AnonWritesEffects ==
  ASSUME NEW t, NEW cmd \in {"UPDATE", "DELETE"}, t.view => AW!PlanViewSurface(t), t.view \/ t.rls
  PROVE  AW!Writable(t, cmd) <=> AW!Effect(t, cmd) \in {"rows", "key"}
<1>1. cmd \in AW!Commands BY DEF AW!Commands
<1>2. cmd \in AW!GrantedWrites(t) <=> AW!Effect(t, cmd) # "nogrant" BY <1>1 DEF AW!GrantedWrites
<1> QED BY <1>2 DEF AW!Writable

\* What is exposed to anon-writes depends on the database and the fault alone.
LEMMA AnonWritesSame ==
  ASSUME world.guard = "anon-writes", world' = world, fault' = fault
  PROVE  Truth' = Truth
<1>1. Truth = AW!Truth BY DEF Truth
<1>2. Truth' = AW!Truth' BY DEF Truth
<1>3. AW!Exposed' = AW!Exposed BY DEF AW!Commands, AW!Effect, AW!Exposed, AW!GrantedWrites, AW!PlanViewSurface,
    AW!Writable
<1>4. AW!Blind' = AW!Blind BY <1>3 DEF AW!Blind
<1>5. AW!Provable' = AW!Provable BY <1>3, <1>4 DEF AW!Provable
<1>6. AW!Spurious' = AW!Spurious BY DEF AW!Spurious
<1>7. AW!Fragile' = AW!Fragile BY DEF AW!Fragile
<1> QED BY <1>1, <1>2, <1>3, <1>4, <1>5, <1>6, <1>7 DEF AW!Truth

\* A step of anon-writes changes neither the database nor the fault.
LEMMA AnonWritesRest == ASSUME AW!Next PROVE world' = world /\ fault' = fault
BY DEF AW!Attempt, AW!Await, AW!Begin, AW!Check, AW!CheckCanary, AW!Connect, AW!CreateCanary, AW!Disconnect, AW!Do,
     AW!Guarded, AW!Next, AW!NextTarget, AW!OpenProbe, AW!PlanSurface, AW!PlanViews, AW!ProbeWrite, AW!RollBack,
     AW!Run, AW!SelfCheck, AW!SwitchRole

\* A step of anon-writes keeps what it knows, and is one its runner expects.
LEMMA AnonWritesAnswers ==
  ASSUME Common, AnonWritesInv, world.guard = "anon-writes", AW!Next
  PROVE  Common' /\ AnonWritesInv' /\ Plays
<1>u. world' = world /\ fault' = fault BY AnonWritesRest
<1>t. Truth' = Truth BY <1>u, AnonWritesSame
<1>b. /\ AW!Connect <=> Connect
      /\ AW!Disconnect <=> Disconnect
      /\ AW!RollBack("close") <=> RollBack("close")
      /\ AW!CreateCanary("role") <=> CreateCanary("role")
      /\ AW!SwitchRole("check") <=> SwitchRole("check")
      /\ AW!CheckCanary("next") <=> CheckCanary("next")
  BY DEF AW!AsRole, AsRole, AW!Attempt, Attempt, AW!Await, Await, AW!CanaryRead, CanaryRead, AW!CheckCanary,
         CheckCanary, AW!Closed, Closed, AW!Connect, Connect, AW!CreateCanary, CreateCanary, AW!Disconnect,
         Disconnect, AW!Do, Do, AW!Ending, Ending, AW!Failed, Failed, AW!LeaksIn, LeaksIn, AW!Live, Live, AW!Made,
         Made, AW!RollBack, RollBack, AW!RolledBack, RolledBack, AW!Said, Said, AW!SwitchRole, SwitchRole,
         AW!Thrown, Thrown, AW!To, To, AW!Verdict, Verdict
<1>o. /\ AW!Live <=> Live
      /\ AW!Failed = Failed
      /\ AW!Began(pg) = Began(pg)
      /\ AW!Saved(pg) = Saved(pg)
      /\ AW!Released(pg) = Released(pg)
      /\ AW!Undone(pg) = Undone(pg)
      /\ AW!Undone(AW!Failed) = Undone(Failed)
      /\ AW!RolledBack(pg) = RolledBack(pg)
      /\ \A x : AW!AsRole(pg, x) = AsRole(pg, x)
      /\ \A x : AW!Made(pg, x) = Made(pg, x)
      /\ \A S : AW!Kept(S) = Kept(S)
      /\ AW!Target = Target
      /\ AW!Current = Current
  BY DEF AW!Live, Live, AW!Failed, Failed, AW!Began, Began, AW!Saved, Saved, AW!Released, Released, AW!Undone,
         Undone, AW!RolledBack, RolledBack, AW!AsRole, AsRole, AW!Made, Made, AW!Kept, Kept, AW!Target, Target,
         AW!Current, Current, AW!Closed, Closed
<1>c. Session /\ Shape /\ Meant /\ AnonWritesKnow BY DEF Common, AnonWritesInv
<1>k. DOMAIN me.loc = {"canary", "cmd"} BY <1>c DEF AnonWritesKnow
<1>q. me.todo # <<>> =>
        /\ Current \in Todo /\ Current \in 1..Count /\ Queue(Tail(me.todo))
        /\ Elems(Tail(me.todo)) = Todo \ {Current}
  BY <1>c, Popping DEF Shape, Todo, Current
<1>x. Todo \subseteq 1..Count BY <1>c DEF Shape, Queue, Todo, Elems
\* Leaving.
<1>l. ASSUME Leaves, me.at \notin {"start", "done"}, pg' \in {pg, Failed} PROVE Common' /\ AnonWritesInv' /\ Plays
  <2>1. Shape' /\ Meant' /\ ~Counts' /\ Plays BY <1>u, <1>t, <1>l, Leaving
  <2>2. Session' BY <1>u, <1>c, <1>l, Moving DEF Moved, Leaves
  <2>4. (Unclear' <=> Unclear) /\ (\A k, x : Untold(k, x)' <=> Untold(k, x)) BY <1>u, <1>t, <1>c, <1>l, Quiet
      DEF Leaves
  <2>5. pg'.st \in {pg.st, IF pg.st = "open" THEN "aborted" ELSE pg.st} BY <1>c, <1>l DEF Failed, Session, Proper,
      Sound
  <2>3. AnonWritesKnow'
    <3>1. me'.at \in {"finally", "close"} /\ me'.todo = me.todo /\ me'.said = me.said /\ me'.loc = me.loc /\ DOMAIN me' = DOMAIN me
      BY <1>l DEF Leaves
    <3> QED BY <1>u, <1>c, <1>l, <2>1, <2>4, <2>5, <3>1 DEF AnonWritesKnow
  <2> QED BY <2>1, <2>2, <2>3 DEF Common, AnonWritesInv
\* Going on without an answer.
<1>s. ASSUME NEW at, NEW todo, Walks(at, todo, me.said), Queue(todo), Moved, me.at \notin {"start", "done"},
             at \notin {"start", "plan", "done"}, AnonWritesKnow',
             \A e \in Truth.exposed : Counts /\ AnonWritesPending(e) => AnonWritesPending(e)' \/ Done(e)
      PROVE  Common' /\ AnonWritesInv' /\ Plays
  <2>1. Shape' BY <1>u, <1>c, <1>s, Going
  <2>2. Meant' /\ \A e : Done(e)' <=> Done(e) BY <1>u, <1>t, <1>c, <1>s, Quiet DEF Walks
  <2>3. Session' BY <1>u, <1>c, <1>s, Moving DEF Walks
  <2>4. (Counts' => Counts) /\ Plays BY <1>s DEF Walks, Counts, Plays
  <2> QED BY <1>t, <1>s, <2>1, <2>2, <2>3, <2>4 DEF Common, AnonWritesInv
<1>e. /\ me' = AW!Thrown => Leaves
      /\ me' = AW!Ending(me, "skip") => Leaves
      /\ \A l : me' = AW!To(l) => Walks(l, me.todo, me.said) /\ me'.loc = me.loc
  BY <1>c DEF Shape, AW!Thrown, AW!Ending, AW!To, Leaves, Walks
\* Going on with several answers.
<1>m. ASSUME NEW at, NEW todo, NEW S, Walks(at, todo, me.said \cup S), Queue(todo), Moved, me.at \notin {"start", "done"},
             at \notin {"start", "plan", "done"}, AnonWritesKnow',
             \A a \in S : Meaning(a) /\ a.says # "clear",
             \A a \in S, b \in me.said : a.says = "leak" /\ b.on = a.on /\ b.arm = a.arm => b.says # "clear",
             \A e \in Truth.exposed : Counts /\ AnonWritesPending(e) =>
                \/ AnonWritesPending(e)' \/ Done(e)
                \/ e \in Truth.blind
                \/ \E a \in S : a.on = e.on /\ (fault = "none" /\ e \in Truth.provable => a.arm = e.arm /\ a.says = "leak")
      PROVE  Common' /\ AnonWritesInv' /\ Plays
  <2>1. Shape' BY <1>u, <1>c, <1>m, Going
  <2>2. /\ Meant'
        /\ \A e : Done(e) => Done(e)'
        /\ \A e : (\E a \in S : a.on = e.on) => Heard(e)'
        /\ \A e : (\E a \in S : a.on = e.on /\ a.arm = e.arm /\ a.says = "leak") => Done(e)'
    BY <1>u, <1>t, <1>c, <1>m, TellingAll DEF Walks
  <2>3. Session' BY <1>u, <1>c, <1>m, Moving DEF Walks
  <2>4. (Counts' => Counts) /\ Plays BY <1>m DEF Walks, Counts, Plays
  <2>5. \A e \in Truth.exposed : e \in Truth.blind => Done(e)' BY <1>u, <1>t, AnonWritesPoints DEF Done
  <2>6. ASSUME NEW e \in Truth.exposed, Counts, AnonWritesPending(e) PROVE AnonWritesPending(e)' \/ Done(e)'
    <3>1. CASE \E a \in S : a.on = e.on /\ (fault = "none" /\ e \in Truth.provable => a.arm = e.arm /\ a.says = "leak")
      <4>1. Heard(e)' BY <2>2, <3>1
      <4>2. fault = "none" /\ e \in Truth.provable => Done(e)' BY <2>2, <3>1
      <4>3. ~(fault = "none" /\ e \in Truth.provable) => Done(e)' BY <1>u, <1>t, <4>1 DEF Done
      <4> QED BY <4>2, <4>3
    <3> QED BY <1>m, <2>2, <2>5, <2>6, <3>1
  <2> QED BY <1>t, <1>m, <2>1, <2>2, <2>3, <2>4, <2>6 DEF Common, AnonWritesInv
<1>r. me.todo # <<>> => Target = world.targets[Current] /\ Current \in 1..Count BY <1>q DEF Target, Current
<1>j. \A e \in Truth.blind : Done(e) BY AnonWritesPoints DEF Done
<1>i. \A k, x : k \notin {Current} => ~Tried([on |-> k, arm |-> x]) BY DEF Tried
\* The relation at hand is left: its rows were deleted, or could not be.
<1>n. ASSUME Walks("next", Tail(me.todo), me'.said), DOMAIN me'.loc = DOMAIN me.loc, me.at \in {"next", "DELETE", "probe"},
             me.todo # <<>>, \A k, x : k # Current /\ Untold(k, x) => Untold(k, x)'
      PROVE  /\ AnonWritesKnow' /\ Todo' = Todo \ {Current}
             /\ \A e : AnonWritesPending(e) /\ e.on # Current => AnonWritesPending(e)'
  <2>1. Todo' = Todo \ {Current} BY <1>q, <1>n DEF Walks, Todo
  <2>2. \A k \in Todo, c \in AW!Commands : k # Current => Untold(k, c)'
    BY <1>c, <1>i, <1>n DEF AnonWritesKnow
  <2>3. AnonWritesKnow' BY <1>u, <1>c, <1>n, <2>1, <2>2 DEF AnonWritesKnow, Walks
  <2>4. \A e : ~Tried(e)' BY <1>n DEF Tried, Walks
  <2> QED BY <1>n, <2>1, <2>3, <2>4 DEF AnonWritesPending, Walks
<1>1. CASE AW!PlanSurface
  <2>1. /\ me.at = "plan" /\ pg' \in {pg, Failed}
        /\ me' = AW!Thrown \/ me' = AW!Ending(me, "skip") \/ (me' = AW!To("views") /\ pg' = pg)
    BY <1>1, <1>o, Zenon DEF AW!PlanSurface, AW!Await, AW!Do
  <2>2. CASE me' = AW!To("views") /\ pg' = pg
    <3>1. Walks("views", me.todo, me.said) /\ me'.loc = me.loc BY <1>e, <2>2
    <3>2. AnonWritesKnow' BY <1>u, <1>c, <2>1, <2>2, <3>1 DEF AnonWritesKnow, Walks, Shape, Whole, Count
    <3>3. \A e : AnonWritesPending(e)' BY <3>1 DEF AnonWritesPending, Walks
    <3> QED BY <1>s, <1>c, <2>1, <2>2, <3>1, <3>2, <3>3 DEF Shape, Moved
  <2> QED BY <1>e, <1>l, <2>1, <2>2
<1>2. CASE AW!PlanViews
  <2> DEFINE tables == {k \in 1..Count : ~world.targets[k].view}
             views == {k \in 1..Count : world.targets[k].view /\ AW!PlanViewSurface(world.targets[k])}
             T == AW!Kept(tables)
             V == AW!Kept(views)
  <2>1. /\ me.at = "views" /\ pg' \in {pg, Failed}
        /\ me' = AW!Planned(T \o V) \/ (me' = AW!Planned(T) /\ (~Live \/ world.oldCatalog))
    BY <1>2, <1>o, Zenon DEF AW!PlanViews, AW!Attempt, AW!Do, Count
  <2>2. Count \in Nat /\ Whole(me.todo) /\ me.said = {} BY <1>c, <2>1 DEF Shape, AnonWritesKnow
  <2>3. T = Kept(tables) /\ V = Kept(views) BY <1>o
  <2>4. tables \subseteq 1..Count /\ views \subseteq 1..Count /\ tables \cap views = {} OBVIOUS
  <2>10. \A k \in 1..Count : (k \in tables <=> ~world.targets[k].view)
                             /\ (k \in views <=> world.targets[k].view /\ AW!PlanViewSurface(world.targets[k]))
    OBVIOUS
  <2> HIDE DEF T, V, tables, views
  <2>5. Queue(T) /\ Elems(T) = (1..Count) \cap tables /\ Queue(V) /\ Elems(V) = (1..Count) \cap views
    BY <2>2, <2>3, Keeping
  <2>6. Elems(T) = tables /\ Elems(V) = views BY <2>4, <2>5
  <2>7. Queue(T \o V) /\ Elems(T \o V) = tables \cup views BY <2>2, <2>4, <2>5, <2>6, Joining
  <2>8. PICK todo : /\ me' = AW!Planned(todo) /\ Queue(todo) /\ Elems(todo) \in {tables, tables \cup views}
                    /\ views \subseteq Elems(todo) \/ ~Live \/ world.oldCatalog
    BY <2>1, <2>5, <2>6, <2>7
  <2>9. CASE todo = <<>>
    <3>1. me' = AW!Ending(me, "skip") BY <2>8, <2>9 DEF AW!Planned
    <3> QED BY <1>e, <1>l, <2>1, <3>1
  <2>11. CASE todo # <<>>
    <3>1. Walks("begin", todo, me.said) /\ me'.loc = me.loc BY <1>c, <2>8, <2>11 DEF AW!Planned, Walks, Shape
    <3>2. Todo' = Elems(todo) BY <3>1 DEF Todo, Walks
    <3>3. \A k, x : Untold(k, x)' BY <2>2, <3>1 DEF Untold, Walks
    <3>4. \A k \in Elems(todo) : k \in 1..Count /\ (world.targets[k].view => AW!PlanViewSurface(world.targets[k]))
      BY <2>4, <2>8, <2>10
    <3>5. AnonWritesKnow' BY <1>u, <1>c, <3>1, <3>2, <3>3, <3>4 DEF AnonWritesKnow, Walks
    <3>6. ASSUME NEW e \in Truth.exposed PROVE AnonWritesPending(e)' \/ Done(e)
      <4>1. e.on \in 1..Count /\ AW!Writable(world.targets[e.on], e.arm) BY AnonWritesPoints
      <4>2. e.on \in tables \/ e.on \in views BY <2>10, <4>1 DEF AW!Writable
      <4>3. CASE e.on \in Elems(todo)
        <5>1. ~Tried(e)' BY <3>1 DEF Tried, Walks
        <5> QED BY <3>1, <3>2, <4>3, <5>1 DEF AnonWritesPending, Walks
      <4>4. CASE e.on \notin Elems(todo)
        <5>1. world.targets[e.on].view /\ (~Live \/ world.oldCatalog) BY <2>8, <2>10, <4>1, <4>2, <4>4
        <5>3. pg.st \in {"idle", "lost"} BY <1>c, <2>1 DEF AnonWritesKnow
        <5>2. ~Live => fault # "none" BY <1>c, <2>1, <5>3 DEF Session, Live
        <5> QED BY <1>j, <5>1, <5>2, AnonWritesPoints
      <4> QED BY <4>3, <4>4
    <3> QED BY <1>s, <2>1, <2>8, <3>1, <3>5, <3>6 DEF Moved
  <2> QED BY <2>9, <2>11
<1>3. CASE AW!Begin
  <2>1. /\ me.at = "begin"
        /\ (me' = AW!Thrown /\ pg' = Failed) \/ (me' = AW!To("canary") /\ pg' = Began(pg) /\ Live)
    BY <1>3, <1>o, Zenon DEF AW!Begin, AW!Await, AW!Do
  <2>2. CASE me' = AW!To("canary") /\ pg' = Began(pg) /\ Live
    <3>1. Walks("canary", me.todo, me.said) /\ me'.loc = me.loc BY <1>e, <2>2
    <3>2. AnonWritesKnow' BY <1>u, <1>c, <2>1, <2>2, <3>1 DEF AnonWritesKnow, Walks, Todo, Untold, Tried, Current
    <3>3. \A e : AnonWritesPending(e) => AnonWritesPending(e)' BY <1>u, <2>1, <3>1 DEF AnonWritesPending, Walks, Todo,
        Tried
    <3> QED BY <1>s, <1>c, <2>1, <2>2, <3>1, <3>2, <3>3 DEF Shape, Moved
  <2> QED BY <1>e, <1>l, <2>1, <2>2
<1>4. CASE AW!CreateCanary("role")
  <2>1. /\ me.at = "canary" /\ Common' /\ Plays /\ Keeps /\ Walks("role", me.todo, me'.said)
        /\ me'.loc = me.loc \/ me'.loc = [me.loc EXCEPT !.canary = TRUE]
        /\ pg' = Failed \/ (Live /\ pg' = Made(pg, "canary"))
    BY <1>b, <1>t, <1>4, CreatesCanary
  <2>2. DOMAIN me'.loc = DOMAIN me.loc /\ me'.loc.cmd = me.loc.cmd BY <1>k, <2>1
  <2>3. AnonWritesKnow' BY <1>u, <1>c, <2>1, <2>2 DEF AnonWritesKnow, Walks, Keeps, Todo, Tried, Current
  <2>4. \A e \in Truth.exposed : AnonWritesPending(e) => AnonWritesPending(e)' BY <1>u, <2>1, <2>2
      DEF AnonWritesPending, Walks, Todo, Tried
  <2> QED BY <1>t, <2>1, <2>3, <2>4 DEF AnonWritesInv, Keeps, Counts, Walks
<1>5. CASE AW!SwitchRole("check")
  <2>1. /\ me.at = "role" /\ Common' /\ Plays /\ me'.loc = me.loc /\ me'.said = me.said
        /\ (Leaves /\ ~Counts' /\ pg' = Failed) \/ (Walks("check", me.todo, me.said) /\ Live /\ world.member /\ pg' = AsRole(pg, "app"))
    BY <1>b, <1>t, <1>5, SwitchesRole
  <2>2. (\A e : Done(e)' <=> Done(e)) /\ (Unclear' <=> Unclear) BY <1>u, <1>t, <1>c, <2>1, Quiet
  <2>3. AnonWritesKnow' BY <1>u, <1>c, <2>1, <2>2 DEF AnonWritesKnow, Walks, Leaves, Todo, Untold, Tried, Current
  <2>4. \A e : AnonWritesPending(e) /\ Counts' => AnonWritesPending(e)' BY <1>u, <2>1 DEF AnonWritesPending, Walks,
      Todo, Tried
  <2> QED BY <1>t, <2>1, <2>2, <2>3, <2>4 DEF AnonWritesInv, Counts, Walks
<1>6. CASE AW!CheckCanary("next")
  <2>1. /\ me.at = "check" /\ Common' /\ Plays /\ me'.loc = me.loc /\ me'.said = me.said
        /\ (Leaves /\ ~Counts' /\ pg' = RolledBack(pg)) \/ (Walks("next", me.todo, me.said) /\ (pg' = pg \/ (~Live /\ pg' = Failed)))
    BY <1>b, <1>t, <1>6, ChecksCanary
  <2>2. (\A e : Done(e)' <=> Done(e)) /\ (Unclear' <=> Unclear) BY <1>u, <1>t, <1>c, <2>1, Quiet
  <2>3. AnonWritesKnow' BY <1>u, <1>c, <2>1, <2>2 DEF AnonWritesKnow, Walks, Leaves, Todo, Untold, Tried, Current
  <2>4. \A e : AnonWritesPending(e) /\ Counts' => AnonWritesPending(e)' BY <1>u, <2>1 DEF AnonWritesPending, Walks,
      Todo, Tried
  <2> QED BY <1>t, <2>1, <2>2, <2>3, <2>4 DEF AnonWritesInv, Counts, Walks
<1>7. CASE AW!NextTarget
  <2> DEFINE S == [on : {Current}, arm : AW!GrantedWrites(Target), says : {"leak"}]
  <2>1. /\ me.at = "next" /\ pg' = pg
        /\ \/ me.todo = <<>> /\ me' = AW!To("finally")
           \/ me.todo # <<>> /\ ~Target.view /\ ~Target.rls /\ me' = AW!Onward([me EXCEPT !.said = @ \cup S])
           \/ me.todo # <<>> /\ (Target.view \/ Target.rls) /\ me' = AW!To("UPDATE")
    BY <1>7, <1>o, Zenon DEF AW!NextTarget, AW!Do
  <2>2. CASE me.todo = <<>> /\ me' = AW!To("finally")
    <3>1. Walks("finally", me.todo, me.said) /\ me'.loc = me.loc BY <1>e, <2>2
    <3>2. AnonWritesKnow' BY <1>u, <1>c, <3>1 DEF AnonWritesKnow, Walks
    <3>3. \A e : ~AnonWritesPending(e)
      <4>1. Todo = {} BY <2>2 DEF Todo, Elems
      <4> QED BY <2>1, <4>1 DEF AnonWritesPending
    <3> QED BY <1>s, <1>c, <2>1, <2>2, <3>1, <3>2, <3>3 DEF Moved, Shape
  <2>3. CASE me.todo # <<>> /\ ~Target.view /\ ~Target.rls /\ me' = AW!Onward([me EXCEPT !.said = @ \cup S])
    <3>1. \A a \in S : a = [on |-> Current, arm |-> a.arm, says |-> "leak"] /\ a.arm \in AW!GrantedWrites(Target) OBVIOUS
    <3>2. \A c \in AW!GrantedWrites(Target) : [on |-> Current, arm |-> c, says |-> "leak"] \in S OBVIOUS
    <3> HIDE DEF S
    <3>3. Walks("next", Tail(me.todo), me.said \cup S) /\ me'.loc = me.loc BY <1>c, <2>3 DEF AW!Onward, Walks, Shape
    <3>4. \A a \in S : a.on = Current /\ a.says = "leak" /\ a = [on |-> a.on, arm |-> a.arm, says |-> a.says]
                       /\ Key(a) = [on |-> Current, arm |-> a.arm] /\ a.arm \in AW!GrantedWrites(Target)
      BY <3>1 DEF Key
    <3>5. AW!GrantedWrites(Target) \subseteq AW!Commands BY DEF AW!GrantedWrites
    <3>6. ASSUME NEW a \in S PROVE Meaning(a) /\ a.says # "clear"
      <4>1. AW!Writable(Target, a.arm) BY <2>3, <3>4 DEF AW!Writable
      <4>2. Key(a) = [on |-> Key(a).on, arm |-> Key(a).arm] /\ Key(a).on = Current /\ Key(a).arm = a.arm BY <3>4
      <4>3. Key(a) \in Truth.exposed BY <1>r, <2>3, <3>4, <3>5, <4>1, <4>2, AnonWritesPoints
      <4> QED BY <3>4, <4>3 DEF Meaning
    <3>7. \A k \in Todo, c \in AW!Commands : Untold(k, c) BY <1>c, <2>1 DEF AnonWritesKnow, Tried
    <3>8. ASSUME NEW a \in S, NEW b \in me.said, b.on = a.on, b.arm = a.arm PROVE b.says # "clear"
      <4>1. Untold(Current, a.arm) BY <1>q, <2>3, <3>4, <3>5, <3>7
      <4> QED BY <3>4, <3>8, <4>1 DEF Untold
    <3>9. \A k, x : k # Current /\ Untold(k, x) => Untold(k, x)' BY <3>3, <3>4 DEF Untold, Walks
    <3>10. Walks("next", Tail(me.todo), me'.said) BY <3>3 DEF Walks
    <3>11. AnonWritesKnow' /\ \A e : AnonWritesPending(e) /\ e.on # Current => AnonWritesPending(e)'
      BY <1>n, <2>1, <2>3, <3>3, <3>9, <3>10
    <3>12. ASSUME NEW e \in Truth.exposed, e.on = Current PROVE \E a \in S : a.on = e.on /\ a.arm = e.arm /\ a.says = "leak"
      <4>1. AW!Writable(Target, e.arm) BY <1>r, <2>3, <3>12, AnonWritesPoints
      <4>2. e.arm \in AW!GrantedWrites(Target) BY <2>3, <4>1 DEF AW!Writable
      <4> QED BY <3>2, <3>12, <4>2
    <3> QED BY <1>m, <1>q, <2>1, <2>3, <3>3, <3>6, <3>8, <3>11, <3>12 DEF Moved
  <2>4. CASE me.todo # <<>> /\ (Target.view \/ Target.rls) /\ me' = AW!To("UPDATE")
    <3>1. Walks("UPDATE", me.todo, me.said) /\ me'.loc = me.loc BY <1>e, <2>4
    <3>2. AnonWritesKnow' BY <1>u, <1>c, <2>1, <2>4, <3>1 DEF AnonWritesKnow, Walks, Todo, Untold, Tried, Current,
        Target
    <3>3. \A e : AnonWritesPending(e) => AnonWritesPending(e)' BY <2>1, <3>1 DEF AnonWritesPending, Walks, Todo, Tried
    <3> QED BY <1>s, <1>c, <2>1, <2>4, <3>1, <3>2, <3>3 DEF Moved, Shape
  <2> QED BY <2>1, <2>2, <2>3, <2>4
\* After a statement: what it has shown, and what remains to be tried.
<1>w. ASSUME NEW cmd \in {"UPDATE", "DELETE"}, NEW said, NEW m, me.at = cmd \/ (me.at = "probe" /\ me.loc.cmd = cmd), me.todo # <<>>,
             m.said = said, m.todo = me.todo, m.loc = me.loc, m.thrown = me.thrown, m.result = me.result, DOMAIN m = DOMAIN me,
             me' = AW!After(m, cmd), \A k, x : (k # Current \/ x # cmd) /\ Untold(k, x) => Untold(k, x)'
      PROVE  /\ Walks(IF cmd = "UPDATE" THEN "DELETE" ELSE "next", IF cmd = "UPDATE" THEN me.todo ELSE Tail(me.todo), said)
             /\ AnonWritesKnow'
             /\ \A e \in Truth.exposed : AnonWritesPending(e) => AnonWritesPending(e)' \/ (e.on = Current /\ e.arm = cmd) \/ e \in Truth.blind
  <2>1. CASE cmd = "UPDATE"
    <3>1. Walks("DELETE", me.todo, said) /\ me'.loc = me.loc BY <1>c, <1>w, <2>1 DEF AW!After, Walks, Shape
    <3>2. Todo' = Todo /\ Current' = Current /\ Target' = Target BY <1>u, <3>1 DEF Todo, Current, Target, Walks
    <3>3. \A k \in Todo, c \in AW!Commands : (k = Current /\ c = "UPDATE") \/ Untold(k, c)'
      BY <1>c, <1>w, <2>1 DEF AnonWritesKnow, Tried
    <3>4. AnonWritesKnow' BY <1>u, <1>c, <1>w, <3>1, <3>2, <3>3 DEF AnonWritesKnow, Walks, Tried
    <3>5. \A e : AnonWritesPending(e) /\ ~(e.on = Current /\ e.arm = cmd) => AnonWritesPending(e)'
      BY <1>w, <2>1, <3>1, <3>2 DEF AnonWritesPending, Walks, Tried
    <3> QED BY <2>1, <3>1, <3>4, <3>5
  <2>2. CASE cmd = "DELETE"
    <3>1. Walks("next", Tail(me.todo), said) /\ me'.loc = me.loc BY <1>c, <1>w, <2>2 DEF AW!After, AW!Onward, Walks,
        Shape
    <3>2. Walks("next", Tail(me.todo), me'.said) BY <3>1 DEF Walks
    <3>3. me.at \in {"DELETE", "probe"} BY <1>w, <2>2
    <3>4. AnonWritesKnow' /\ \A e : AnonWritesPending(e) /\ e.on # Current => AnonWritesPending(e)'
      BY <1>n, <1>w, <3>1, <3>2, <3>3
    <3>5. ASSUME NEW e \in Truth.exposed, AnonWritesPending(e), e.on = Current PROVE e.arm = "DELETE" \/ e \in Truth.blind
      <4>1. e.arm # "UPDATE" BY <1>w, <2>2, <3>5 DEF AnonWritesPending, Tried
      <4>2. Target.view \/ Target.rls BY <1>c, <1>w, <2>2 DEF AnonWritesKnow
      <4>3. e.arm \in {"INSERT", "DELETE"} BY <4>1, AnonWritesPoints DEF AW!Commands
      <4> QED BY <1>r, <1>w, <3>5, <4>2, <4>3, AnonWritesPoints
    <3> QED BY <2>2, <3>1, <3>4, <3>5
  <2> QED BY <1>w, <2>1, <2>2
\* The relation at hand and its statement, as a question.
<1>z. ASSUME NEW cmd \in {"UPDATE", "DELETE"}, me.at \in {"UPDATE", "DELETE", "probe"}
      PROVE  /\ me.todo # <<>> /\ (Target.view => AW!PlanViewSurface(Target))
             /\ [on |-> Current, arm |-> cmd] \in Truth.exposed <=> AW!Effect(Target, cmd) \in {"rows", "key"}
             /\ Current \in Todo
  <2>1. me.todo # <<>> /\ (Target.view \/ Target.rls) BY <1>c, <1>z DEF AnonWritesKnow
  <2>2. Current \in Todo /\ Target = world.targets[Current] /\ Current \in 1..Count BY <1>q, <1>r, <2>1
  <2>3. Target.view => AW!PlanViewSurface(Target) BY <1>c, <1>z, <2>2 DEF AnonWritesKnow
  <2>4. AW!Writable(Target, cmd) <=> AW!Effect(Target, cmd) \in {"rows", "key"} BY <2>1, <2>3, AnonWritesEffects
  <2>5. cmd \in AW!Commands BY DEF AW!Commands
  <2> QED BY <2>1, <2>2, <2>3, <2>4, <2>5, AnonWritesPoints
<1>8. CASE AW!OpenProbe
  <2>1. PICK cmd \in {"UPDATE", "DELETE"} :
          /\ me.at = cmd
          /\ \/ ~AW!Probes(Target, cmd) /\ pg' = pg /\ me' = AW!After(me, cmd)
             \/ AW!Probes(Target, cmd) /\ Live /\ pg' = Saved(pg) /\ me' = [AW!To("probe") EXCEPT !.loc.cmd = cmd]
             \/ pg' = Failed /\ me' = AW!Thrown
    BY <1>8, <1>o, Zenon DEF AW!OpenProbe, AW!Await, AW!Do
  <2>2. /\ me.todo # <<>>
        /\ [on |-> Current, arm |-> cmd] \in Truth.exposed <=> AW!Effect(Target, cmd) \in {"rows", "key"}
    BY <1>z, <2>1
  <2>3. CASE ~AW!Probes(Target, cmd) /\ pg' = pg /\ me' = AW!After(me, cmd)
    <3>1. me'.said = me.said BY <1>c, <2>3 DEF AW!After, AW!Onward, Shape
    <3>2. \A k, x : Untold(k, x) => Untold(k, x)' BY <3>1 DEF Untold
    <3>3. PICK at, todo : at = (IF cmd = "UPDATE" THEN "DELETE" ELSE "next") /\ todo = (IF cmd = "UPDATE" THEN me.todo ELSE Tail(me.todo))
      OBVIOUS
    <3>4. /\ Walks(at, todo, me.said) /\ AnonWritesKnow'
          /\ \A e \in Truth.exposed : AnonWritesPending(e) => AnonWritesPending(e)' \/ (e.on = Current /\ e.arm = cmd) \/ e \in Truth.blind
      BY <1>w, <2>1, <2>2, <2>3, <3>2, <3>3
    <3>5. AW!Effect(Target, cmd) \notin {"rows", "key"} BY <2>3 DEF AW!Probes
    <3>6. \A e \in Truth.exposed : e.on = Current => e.arm # cmd BY <2>2, <3>5, AnonWritesPoints
    <3>7. Queue(todo) /\ at \in {"DELETE", "next"} BY <1>c, <1>q, <2>2, <3>3 DEF Shape
    <3>8. me.at \in {"UPDATE", "DELETE"} /\ Moved BY <2>1, <2>3 DEF Moved
    <3> QED BY <1>s, <1>j, <3>4, <3>6, <3>7, <3>8
  <2>4. CASE AW!Probes(Target, cmd) /\ Live /\ pg' = Saved(pg) /\ me' = [AW!To("probe") EXCEPT !.loc.cmd = cmd]
    <3>1. Walks("probe", me.todo, me.said) /\ DOMAIN me'.loc = DOMAIN me.loc /\ me'.loc.cmd = cmd
      <4>1. Walks("probe", me.todo, me.said) /\ me'.loc = [me.loc EXCEPT !.cmd = cmd] BY <1>c, <2>4 DEF Shape, AW!To,
          Walks
      <4> QED BY <1>k, <4>1
    <3>2. Live' BY <1>c, <2>4, Saving DEF Live, Session, Proper
    <3>3. Todo' = Todo /\ Current' = Current /\ Target' = Target /\ (\A k, x : Untold(k, x)' <=> Untold(k, x))
      BY <1>u, <3>1 DEF Todo, Current, Target, Untold, Walks
    <3>4. \A e : Tried(e)' <=> Tried(e) BY <2>1, <3>1, <3>3 DEF Tried, Walks
    <3>5. \A k, c : Tried([on |-> k, arm |-> c])' <=> Tried([on |-> k, arm |-> c])
      BY <2>1, <3>1, <3>3 DEF Tried, Walks
    <3>6. AnonWritesKnow' BY <1>u, <1>c, <2>1, <2>2, <2>4, <3>1, <3>2, <3>3, <3>5 DEF AnonWritesKnow, Walks
    <3>7. \A e : AnonWritesPending(e) => AnonWritesPending(e)' BY <2>1, <3>1, <3>3, <3>4 DEF AnonWritesPending, Walks
    <3>8. Queue(me.todo) BY <1>c DEF Shape
    <3> QED BY <1>s, <2>1, <2>4, <3>1, <3>6, <3>7, <3>8 DEF Moved
  <2> QED BY <1>e, <1>l, <2>1, <2>3, <2>4
<1>9. CASE AW!ProbeWrite
  <2>0. PICK cmd : cmd = me.loc.cmd OBVIOUS
  <2> DEFINE effect == AW!Effect(Target, cmd)
             rec(x) == AW!Recorded(Target, Current, cmd, AW!ProbeSays(x))
  <2>1. /\ me.at = "probe"
        /\ \/ pg' = Undone(pg) /\ me' = AW!After(rec(effect), cmd)
           \/ pg' = Undone(Failed) /\ me' = AW!After(rec(IF Live THEN effect ELSE "error"), cmd)
    BY <1>9, <1>o, <2>0, Zenon DEF AW!ProbeWrite, AW!Guarded, AW!Do
  <2>2. cmd \in {"UPDATE", "DELETE"} /\ AW!Probes(Target, cmd) /\ (fault = "none" => Live) BY <1>c, <2>0, <2>1
      DEF AnonWritesKnow
  <2>3. /\ me.todo # <<>> /\ Current \in Todo
        /\ [on |-> Current, arm |-> cmd] \in Truth.exposed <=> effect \in {"rows", "key"}
    BY <1>z, <2>1, <2>2
  <2> HIDE DEF effect
  <2>4. PICK x : x \in {effect, "error"} /\ (x # effect => ~Live) /\ me' = AW!After(rec(x), cmd) BY <2>1
  <2>5. PICK says : says = AW!ProbeSays(x) OBVIOUS
  <2>6. /\ says \in {"leak", "note", "clear"} /\ (says = "leak" <=> x \in {"rows", "key"})
        /\ says = "note" /\ x \in {"rows", "key"} => FALSE
        /\ says = "clear" => x \in {"none", "denied"}
    BY <2>5 DEF AW!ProbeSays
  <2>7. (says = "leak" => effect \in {"rows", "key"}) /\ (says = "clear" => effect \notin {"rows", "key"})
        /\ (says # "leak" /\ effect \in {"rows", "key"} => says = "note" /\ fault # "none")
    <3>1. says = "leak" \/ says = "clear" => x = effect BY <2>4, <2>6
    <3> QED BY <2>2, <2>4, <2>6, <3>1
  <2>8. Untold(Current, cmd) /\ cmd \in AW!Commands
    <3>1. cmd \in AW!Commands BY <2>2 DEF AW!Commands
    <3>2. Untold(Current, cmd) \/ Tried([on |-> Current, arm |-> cmd]) BY <1>c, <2>1, <2>3, <3>1 DEF AnonWritesKnow
    <3>3. ~Tried([on |-> Current, arm |-> cmd]) BY <2>0, <2>1 DEF Tried
    <3> QED BY <3>1, <3>2, <3>3
  <2>9. PICK at, todo : at = (IF cmd = "UPDATE" THEN "DELETE" ELSE "next") /\ todo = (IF cmd = "UPDATE" THEN me.todo ELSE Tail(me.todo))
    OBVIOUS
  <2>10. Queue(todo) /\ at \in {"DELETE", "next"} /\ Moved BY <1>c, <1>q, <2>1, <2>3, <2>9 DEF Shape, Moved
  <2>11. CASE Target.view /\ says = "note"
    <3>1. me' = AW!After(me, cmd) BY <2>4, <2>5, <2>11 DEF AW!Recorded
    <3>2. me'.said = me.said BY <1>c, <3>1 DEF AW!After, AW!Onward, Shape
    <3>3. \A k, y : Untold(k, y) => Untold(k, y)' BY <3>2 DEF Untold
    <3>4. /\ Walks(at, todo, me.said) /\ AnonWritesKnow'
          /\ \A e \in Truth.exposed : AnonWritesPending(e) => AnonWritesPending(e)' \/ (e.on = Current /\ e.arm = cmd) \/ e \in Truth.blind
      BY <1>w, <2>0, <2>1, <2>2, <2>3, <2>9, <3>1, <3>3
    <3>5. ASSUME NEW e \in Truth.exposed, e.on = Current, e.arm = cmd PROVE e \in Truth.blind
      <4>1. e = [on |-> Current, arm |-> cmd] BY <3>5, AnonWritesPoints
      <4>2. fault # "none" BY <2>3, <2>7, <2>11, <4>1
      <4> QED BY <1>r, <2>3, <2>11, <3>5, <4>2, AnonWritesPoints
    <3>6. me.at \notin {"start", "done"} /\ at \notin {"start", "plan", "done"} BY <2>1, <2>10
    <3> QED BY <1>s, <1>j, <2>10, <3>4, <3>5, <3>6
  <2>12. CASE ~(Target.view /\ says = "note")
    <3> DEFINE m == AW!Said(me, Current, cmd, says)
               said == me.said \cup {[on |-> Current, arm |-> cmd, says |-> says]}
    <3>1. me' = AW!After(m, cmd) BY <2>4, <2>5, <2>12 DEF AW!Recorded
    <3>2. /\ DOMAIN m = DOMAIN me /\ m.said = said /\ m.todo = me.todo /\ m.loc = me.loc /\ m.thrown = me.thrown /\ m.result = me.result
      BY <1>c DEF AW!Said, Shape
    <3> HIDE DEF m
    <3>3. me'.said = said
      <4> HIDE DEF said
      <4> QED BY <1>c, <3>1, <3>2 DEF AW!After, AW!Onward, Shape
    <3>4. [on |-> Current, arm |-> cmd] \in Truth.exposed \cup Truth.spurious \/ says # "leak" BY <2>3, <2>7
    <3>5. says = "clear" => [on |-> Current, arm |-> cmd] \notin Truth.exposed \ Truth.blind BY <2>3, <2>7
    <3>6. /\ Meant'
          /\ \A e : Done(e) => Done(e)'
          /\ \A e : e.on = Current /\ e.arm = cmd /\ says = "leak" => Done(e)'
          /\ \A e : e.on = Current /\ says # "clear" /\ (fault # "none" \/ e \notin Truth.provable) => Done(e)'
          /\ \A k, y : (k # Current \/ y # cmd \/ says = "note") /\ Untold(k, y) => Untold(k, y)'
      BY <1>u, <1>t, <1>c, <2>6, <2>8, <3>3, <3>4, <3>5, Telling
    <3> HIDE DEF said
    <3>7. /\ Walks(at, todo, said) /\ AnonWritesKnow'
          /\ \A e \in Truth.exposed : AnonWritesPending(e) => AnonWritesPending(e)' \/ (e.on = Current /\ e.arm = cmd) \/ e \in Truth.blind
      BY <1>w, <2>0, <2>1, <2>2, <2>3, <2>9, <3>1, <3>2, <3>6
    <3>8. ASSUME NEW e \in Truth.exposed, e.on = Current, e.arm = cmd PROVE Done(e)'
      <4>1. e = [on |-> Current, arm |-> cmd] BY <3>8, AnonWritesPoints
      <4>2. effect \in {"rows", "key"} BY <2>3, <4>1
      <4>3. says = "leak" \/ (says = "note" /\ fault # "none") BY <2>7, <4>2
      <4> QED BY <3>6, <3>8, <4>3
    <3>9. Shape'
      <4>1. me.at # "done" BY <2>1
      <4> QED BY <1>u, <1>c, <2>10, <3>7, <4>1, Going
    <3>10. Session' BY <1>u, <1>c, <2>1, <2>10, <3>7, Moving DEF Walks
    <3>11. (Counts' => Counts) /\ Plays
      <4>1. me.said \subseteq me'.said BY <3>3 DEF said
      <4> QED BY <2>1, <2>10, <3>7, <4>1 DEF Walks, Counts, Plays
    <3>12. \A e \in Truth.exposed : e \in Truth.blind => Done(e)' BY <1>j, <3>6
    <3> QED BY <1>t, <3>6, <3>7, <3>8, <3>9, <3>10, <3>11, <3>12 DEF Common, AnonWritesInv
  <2> QED BY <2>11, <2>12
<1>10. CASE AW!RollBack("close")
  <2>1. /\ me.at = "finally" /\ Common' /\ Plays /\ me'.at = (IF me.thrown THEN "close" ELSE "close")
        /\ me'.thrown = me.thrown /\ me'.result = me.result
        /\ me'.loc = me.loc /\ me'.said = me.said /\ me'.todo = me.todo /\ (Counts' <=> Counts)
        /\ pg' \in {pg, RolledBack(pg)} /\ (pg.st \notin {"open", "aborted"} => pg' = pg)
    BY <1>b, <1>t, <1>10, RollsBack
  <2>2. (\A e : Done(e)' <=> Done(e)) /\ (Unclear' <=> Unclear) BY <1>u, <1>t, <1>c, <2>1, Quiet
  <2>3. AnonWritesKnow' BY <1>u, <1>c, <2>1, <2>2 DEF AnonWritesKnow
  <2>4. \A e \in Truth.exposed : AnonWritesPending(e) /\ Counts => AnonWritesPending(e)' BY <1>u, <2>1
      DEF AnonWritesPending
  <2> QED BY <1>t, <2>1, <2>2, <2>3, <2>4 DEF AnonWritesInv
<1>11. CASE AW!Connect
  <2>1. /\ me.at = "start" /\ Common' /\ Plays /\ me'.loc = me.loc /\ me'.said = {} /\ me'.todo = me.todo
        /\ \/ me'.at = "plan" /\ pg' = [pg EXCEPT !.st = "idle"] /\ pg'.st = "idle" /\ Whole(me'.todo)
           \/ me'.at = "done" /\ ~Counts' /\ pg' = pg
    BY <1>b, <1>t, <1>11, Connects
  <2>2. AnonWritesKnow' BY <1>u, <1>c, <2>1 DEF AnonWritesKnow, Unclear
  <2>3. Counts' => \A e : AnonWritesPending(e)' BY <2>1 DEF AnonWritesPending
  <2> QED BY <2>1, <2>2, <2>3 DEF AnonWritesInv
<1>12. CASE AW!Disconnect
  <2>1. /\ me.at = "close" /\ Common' /\ Plays /\ me'.at = "done"
        /\ me'.loc = me.loc /\ me'.said = me.said /\ me'.todo = me.todo /\ (Counts' => Counts)
    BY <1>b, <1>t, <1>12, Disconnects
  <2>2. (\A e : Done(e)' <=> Done(e)) /\ (Unclear' <=> Unclear) BY <1>u, <1>t, <1>c, <2>1, Quiet
  <2>3. AnonWritesKnow' BY <1>u, <1>c, <2>1, <2>2 DEF AnonWritesKnow
  <2>4. \A e : ~AnonWritesPending(e) BY <2>1 DEF AnonWritesPending
  <2> QED BY <1>t, <2>1, <2>2, <2>3, <2>4 DEF AnonWritesInv
<1> QED BY <1>1, <1>2, <1>3, <1>4, <1>5, <1>6, <1>7, <1>8, <1>9, <1>10, <1>11, <1>12 DEF AW!Next, AW!Check, AW!Run,
    AW!SelfCheck

\* So does a fault, whenever it strikes.
LEMMA AnonWritesStruck ==
  ASSUME Common, AnonWritesInv, world.guard = "anon-writes", Drop \/ Cancel
  PROVE  Common' /\ AnonWritesInv'
<1>1. world' = world /\ fault = "none" BY DEF Drop, Cancel
<1>2. Truth'.exposed = Truth.exposed /\ Truth.blind \subseteq Truth'.blind /\ Truth.spurious \subseteq Truth'.spurious
  <2>1. Truth = AW!Truth /\ Truth' = AW!Truth' BY <1>1 DEF Truth
  <2>2. AW!Exposed' = AW!Exposed BY <1>1 DEF AW!Commands, AW!Effect, AW!Exposed, AW!GrantedWrites, AW!PlanViewSurface,
      AW!Writable
  <2>3. AW!Blind \subseteq AW!Blind' BY <1>1, <2>2 DEF AW!Blind
  <2>4. AW!Spurious \subseteq AW!Spurious' BY <1>1 DEF AW!Spurious
  <2> QED BY <2>1, <2>2, <2>3, <2>4 DEF AW!Truth
<1>3. /\ me' = me /\ fault' # "none" /\ Common'
      /\ \/ fault' = "lost" /\ pg'.st = "lost" /\ pg'.who = "nobody" /\ pg'.saves = <<>>
         \/ fault' = "cancelled" /\ pg.st = "open" /\ pg'.st = "aborted" /\ pg' = Failed
      /\ \A e : Done(e) => Done(e)'
      /\ \A k, x : Untold(k, x)' <=> Untold(k, x)
      /\ Unclear' <=> Unclear
  BY <1>2, Striking
<1>6. Todo' = Todo /\ Target' = Target /\ \A k, c : Tried([on |-> k, arm |-> c])' <=> Tried([on |-> k, arm |-> c])
  BY <1>1, <1>3 DEF Todo, Target, Current, Tried
<1>4. AnonWritesKnow'
  <2>1. AnonWritesKnow BY DEF AnonWritesInv
  <2>2. me.at \in {"plan", "views"} => pg'.st \in {"idle", "lost"} BY <1>3, <2>1 DEF AnonWritesKnow
  <2>3. me.at \in {"begin", "canary", "role", "check", "next", "UPDATE", "DELETE", "probe"} =>
          /\ \A k \in Todo : (world.targets[k].view => AW!PlanViewSurface(world.targets[k]))'
          /\ \A k \in Todo, c \in AW!Commands : Untold(k, c)' \/ Tried([on |-> k, arm |-> c])'
    <3>1. \A k : (world.targets[k].view => AW!PlanViewSurface(world.targets[k]))' <=> (world.targets[k].view => AW!PlanViewSurface(world.targets[k]))
      BY <1>1 DEF AW!PlanViewSurface, AW!GrantedWrites, AW!Effect, AW!Commands
    <3>2. \A k, c : Untold(k, c)' <=> Untold(k, c) BY <1>3
    <3> QED BY <1>6, <2>1, <3>1, <3>2 DEF AnonWritesKnow
  <2>4. me.at = "probe" => me.loc.cmd \in {"UPDATE", "DELETE"} /\ AW!Probes(Target, me.loc.cmd)'
    BY <1>3, <1>6, <2>1 DEF AnonWritesKnow, AW!Probes, AW!Effect
  <2>5. me.at = "views" => Whole(me.todo)' BY <1>1, <1>3, <2>1 DEF AnonWritesKnow, Whole, Count
  <2> QED BY <1>3, <1>6, <2>1, <2>2, <2>3, <2>4, <2>5 DEF AnonWritesKnow, AW!Commands
<1>5. \A e : AnonWritesPending(e) => AnonWritesPending(e)' BY <1>1, <1>3 DEF AnonWritesPending, Todo, Tried, Current
<1> QED BY <1>2, <1>3, <1>4, <1>5 DEF AnonWritesInv, Counts

\* Anon-writes begins so.
LEMMA AnonWritesBegins == ASSUME AW!Init PROVE Common /\ AnonWritesInv /\ world.guard = "anon-writes"
<1>1. Begins("anon-writes") /\ me.loc = [canary |-> FALSE, cmd |-> "UPDATE"]
  BY WorldAssumption DEF Names, Begins, Whole, Count, Closed, AW!Init, AW!Enter, AW!Entered, AW!Closed
<1>2. Common BY <1>1, Beginning DEF Names
<1>3. AnonWritesKnow BY <1>1 DEF AnonWritesKnow, Begins, Unclear
<1> QED BY <1>1, <1>2, <1>3 DEF AnonWritesInv, AnonWritesPending, Begins

\* A step of nobody keeps it.
LEMMA AnonWritesStays ==
  ASSUME Common, AnonWritesInv, world.guard = "anon-writes", UNCHANGED vars
  PROVE  Common' /\ AnonWritesInv'
<1>1. world' = world /\ fault' = fault /\ pg' = pg /\ me' = me BY DEF vars
<1>2. Truth' = Truth BY <1>1, AnonWritesSame
<1>3. Common' /\ (\A e : Done(e)' <=> Done(e)) /\ (Counts' <=> Counts) BY <1>1, <1>2, Resting
<1>4. Todo' = Todo /\ Target' = Target /\ Live' = Live /\ Count' = Count /\ Current' = Current
  BY <1>1 DEF Todo, Target, Live, Count, Current, Elems
<1>5. \A e : Tried(e)' <=> Tried(e) BY <1>1, <1>4 DEF Tried
<1>6. \A e : AnonWritesPending(e)' <=> AnonWritesPending(e) BY <1>1, <1>4, <1>5 DEF AnonWritesPending
<1>7. \A k, c : Untold(k, c)' <=> Untold(k, c) BY <1>1 DEF Untold
<1>8. /\ \A k : AW!PlanViewSurface(world.targets[k])' <=> AW!PlanViewSurface(world.targets[k])
      /\ AW!Probes(Target, me.loc.cmd)' <=> AW!Probes(Target, me.loc.cmd)
      /\ AW!Commands' = AW!Commands
  BY <1>1, <1>4 DEF AW!PlanViewSurface, AW!Probes, AW!Commands, AW!GrantedWrites, AW!Effect
<1>9. AnonWritesKnow' BY <1>1, <1>4, <1>5, <1>7, <1>8 DEF AnonWritesInv, AnonWritesKnow, Whole
<1> QED BY <1>2, <1>3, <1>6, <1>9 DEF AnonWritesInv

\* At the end nothing is pending, and a question is a target and an arm.
LEMMA AnonWritesEnds ==
  ASSUME Common, world.guard = "anon-writes", AnonWritesInv, me.at = "done", Counts
  PROVE  /\ \A e \in Truth.exposed : e = Key(e) /\ Done(e)
         /\ Truth.provable \subseteq Truth.exposed
<1>1. \A e : ~AnonWritesPending(e) BY DEF AnonWritesPending
<1> QED BY <1>1, AnonWritesPoints DEF AnonWritesInv, Key

-----------------------------------------------------------------------------
(* view-isolation.                                                         *)

\* The views on the list have no answer yet, the one at hand has two tenants or does
\* not say, and nobody is impersonated behind a hook of another kind.
ViewIsolationKnow ==
  /\ DOMAIN me.loc = {"canary", "plan", "unread", "own", "cross"}
  /\ me.at # "done" /\ world.hook = "other" => Nobody(pg)
  /\ me.at \in {"begin", "surface", "tenants", "deps", "nested"} => Whole(me.loc.plan)
  /\ me.at \in {"begin", "surface", "tenants", "deps", "nested", "canary", "role", "check"} =>
       \A k \in 1..Count : Untold(k, "tenant")
  /\ me.at \in {"canary", "role", "check"} => Whole(me.todo)
  /\ me.at \in {"tenants", "deps", "nested", "forward", "reverse"} => me.todo # <<>>
  /\ me.at \in {"tenants", "forward", "reverse"} /\ fault = "none" => Live
  /\ fault = "none" => \A k \in me.loc.unread : world.targets[k].tenants = "unreadable"
  /\ me.at \in {"next", "forward", "reverse"} => \A k \in Todo : Untold(k, "tenant")
  /\ me.at \in {"forward", "reverse"} => Target.tenants # "one"
  /\ me.at = "reverse" => (me.loc.cross <=> Target.reads = "all")

\* The view is on the list, or the list is still to be made.
ViewIsolationPending(e) ==
  \/ me.at \in {"start", "plan", "begin", "surface", "tenants", "deps", "nested", "canary", "role", "check"}
  \/ me.at \in {"next", "forward", "reverse"} /\ e.on \in Todo

\* Everything exposed is pending or done.
ViewIsolationInv == ViewIsolationKnow /\ (Counts => \A e \in Truth.exposed : ViewIsolationPending(e) \/ Done(e))

\* What is exposed to view-isolation, and what of it is missed, misjudged or provable.
LEMMA ViewIsolationPoints ==
  ASSUME world.guard = "view-isolation"
  PROVE  /\ \A e : e \in Truth.exposed <=>
              /\ e = [on |-> e.on, arm |-> "tenant"] /\ e.on \in 1..Count
              /\ world.targets[e.on].tenants # "one"
              /\ \/ world.targets[e.on].reads = "all"
                 \/ world.targets[e.on].reads = "down" /\ world.hook # "other"
         /\ Truth.blind = {}
         /\ \A e : e \in Truth.provable <=> e \in Truth.exposed /\ world.targets[e.on].tenants = "two" /\ world.hook # "fails"
<1>1. Truth.exposed = VI!Exposed /\ Truth.blind = {} /\ Truth.provable = VI!Provable BY DEF Truth, VI!Truth, VI!Blind
<1>2. \A e : e \in Truth.exposed <=>
              /\ e = [on |-> e.on, arm |-> "tenant"] /\ e.on \in 1..Count
              /\ world.targets[e.on].tenants # "one"
              /\ \/ world.targets[e.on].reads = "all"
                 \/ world.targets[e.on].reads = "down" /\ world.hook # "other"
  BY <1>1 DEF VI!Exposed, Count
<1> QED BY <1>1, <1>2 DEF VI!Provable

\* What is exposed to view-isolation depends on the database and the fault alone.
LEMMA ViewIsolationSame ==
  ASSUME world.guard = "view-isolation", world' = world, fault' = fault
  PROVE  Truth' = Truth
<1>1. Truth = VI!Truth BY DEF Truth
<1>2. Truth' = VI!Truth' BY DEF Truth
<1>3. VI!Exposed' = VI!Exposed BY DEF VI!Exposed
<1>4. VI!Blind' = VI!Blind BY DEF VI!Blind
<1>5. VI!Provable' = VI!Provable BY <1>3 DEF VI!Provable
<1>6. VI!Spurious' = VI!Spurious BY DEF VI!Spurious
<1>7. VI!Fragile' = VI!Fragile BY DEF VI!Fragile
<1> QED BY <1>1, <1>2, <1>3, <1>4, <1>5, <1>6, <1>7 DEF VI!Truth

\* A step of view-isolation changes neither the database nor the fault.
LEMMA ViewIsolationRest == ASSUME VI!Next PROVE world' = world /\ fault' = fault
BY DEF VI!Attempt, VI!Await, VI!Begin, VI!Check, VI!CheckCanary, VI!Connect, VI!CreateCanary, VI!Disconnect,
     VI!DistinctTenants, VI!Do, VI!Guarded, VI!NestedViewDeps, VI!Next, VI!NextSurface, VI!NextView, VI!PlanViews,
     VI!ProbeForward, VI!ProbeReverse, VI!RollBack, VI!Run, VI!SelfCheck, VI!SwitchRole

\* A step of view-isolation keeps what it knows, and is one its runner expects.
LEMMA ViewIsolationAnswers ==
  ASSUME Common, ViewIsolationInv, world.guard = "view-isolation", VI!Next
  PROVE  Common' /\ ViewIsolationInv' /\ Plays
<1>u. world' = world /\ fault' = fault BY ViewIsolationRest
<1>t. Truth' = Truth BY <1>u, ViewIsolationSame
<1>b. /\ VI!Connect <=> Connect
      /\ VI!Disconnect <=> Disconnect
      /\ VI!RollBack("close") <=> RollBack("close")
      /\ VI!CreateCanary("role") <=> CreateCanary("role")
      /\ VI!SwitchRole("check") <=> SwitchRole("check")
      /\ VI!CheckCanary("next") <=> CheckCanary("next")
  BY DEF VI!AsRole, AsRole, VI!Attempt, Attempt, VI!Await, Await, VI!CanaryRead, CanaryRead, VI!CheckCanary,
         CheckCanary, VI!Closed, Closed, VI!Connect, Connect, VI!CreateCanary, CreateCanary, VI!Disconnect,
         Disconnect, VI!Do, Do, VI!Ending, Ending, VI!Failed, Failed, VI!LeaksIn, LeaksIn, VI!Live, Live, VI!Made,
         Made, VI!RollBack, RollBack, VI!RolledBack, RolledBack, VI!Said, Said, VI!SwitchRole, SwitchRole,
         VI!Thrown, Thrown, VI!To, To, VI!Verdict, Verdict
<1>o. /\ VI!Live <=> Live
      /\ VI!Failed = Failed
      /\ VI!Began(pg) = Began(pg)
      /\ VI!Saved(pg) = Saved(pg)
      /\ VI!Released(pg) = Released(pg)
      /\ VI!Undone(pg) = Undone(pg)
      /\ VI!Undone(VI!Failed) = Undone(Failed)
      /\ VI!RolledBack(pg) = RolledBack(pg)
      /\ \A x : VI!AsRole(pg, x) = AsRole(pg, x)
      /\ \A x : VI!Acting(pg, x) = Acting(pg, x)
      /\ \A x : VI!Made(pg, x) = Made(pg, x)
      /\ VI!Target = Target
      /\ VI!Current = Current
      /\ \A s : VI!Released(s) = Released(s)
  BY DEF VI!Live, Live, VI!Failed, Failed, VI!Began, Began, VI!Saved, Saved, VI!Released, Released, VI!Undone,
         Undone, VI!RolledBack, RolledBack, VI!AsRole, AsRole, VI!Acting, Acting, VI!Made, Made, VI!Target, Target,
         VI!Current, Current, VI!Closed, Closed
<1>c. Session /\ Shape /\ Meant /\ ViewIsolationKnow BY DEF Common, ViewIsolationInv
<1>k. DOMAIN me.loc = {"canary", "plan", "unread", "own", "cross"} BY <1>c DEF ViewIsolationKnow
<1>q. me.todo # <<>> =>
        /\ Current \in Todo /\ Current \in 1..Count /\ Queue(Tail(me.todo))
        /\ Elems(Tail(me.todo)) = Todo \ {Current}
  BY <1>c, Popping DEF Shape, Todo, Current
<1>x. Todo \subseteq 1..Count BY <1>c DEF Shape, Queue, Todo, Elems
\* Nobody is impersonated where the guard's own hook is another.
<1>h. Nobody(pg) =>
        /\ pg' \in {pg, Failed, Saved(pg), Released(pg), Undone(pg), Undone(Failed), RolledBack(pg), Began(pg)} => Nobody(pg')
        /\ pg' \in {[pg EXCEPT !.st = "idle"], Acting(pg, "nobody"), Released(Acting(pg, "nobody"))} => Nobody(pg')
        /\ (\E r : pg' = AsRole(pg, r)) \/ (\E x : pg' = Made(pg, x)) => Nobody(pg')
  BY <1>c, Unnamed DEF Session, Proper
<1>n0. pg' \in {pg, Failed} /\ Nobody(pg) => Nobody(pg') BY <1>h
\* Leaving.
<1>l. ASSUME Leaves, me.at \notin {"start", "done"}, pg' \in {pg, Failed} PROVE Common' /\ ViewIsolationInv' /\ Plays
  <2>1. Shape' /\ Meant' /\ ~Counts' /\ Plays BY <1>u, <1>t, <1>l, Leaving
  <2>2. Session' BY <1>u, <1>c, <1>l, Moving DEF Moved, Leaves
  <2>4. (Unclear' <=> Unclear) /\ (\A k, x : Untold(k, x)' <=> Untold(k, x)) BY <1>u, <1>t, <1>c, <1>l, Quiet
      DEF Leaves
  <2>5. pg'.st \in {pg.st, IF pg.st = "open" THEN "aborted" ELSE pg.st} BY <1>c, <1>l DEF Failed, Session, Proper,
      Sound
  <2>3. ViewIsolationKnow'
    <3>1. me'.at \in {"finally", "close"} /\ me'.todo = me.todo /\ me'.said = me.said /\ me'.loc = me.loc /\ DOMAIN me' = DOMAIN me
      BY <1>l DEF Leaves
    <3> QED BY <1>u, <1>c, <1>l, <2>1, <2>4, <2>5, <3>1, <1>n0 DEF ViewIsolationKnow
  <2> QED BY <2>1, <2>2, <2>3 DEF Common, ViewIsolationInv
\* Going on without an answer.
<1>s. ASSUME NEW at, NEW todo, Walks(at, todo, me.said), Queue(todo), Moved, me.at \notin {"start", "done"},
             at \notin {"start", "plan", "done"}, ViewIsolationKnow',
             \A e \in Truth.exposed : Counts /\ ViewIsolationPending(e) => ViewIsolationPending(e)' \/ Done(e)
      PROVE  Common' /\ ViewIsolationInv' /\ Plays
  <2>1. Shape' BY <1>u, <1>c, <1>s, Going
  <2>2. Meant' /\ \A e : Done(e)' <=> Done(e) BY <1>u, <1>t, <1>c, <1>s, Quiet DEF Walks
  <2>3. Session' BY <1>u, <1>c, <1>s, Moving DEF Walks
  <2>4. (Counts' => Counts) /\ Plays BY <1>s DEF Walks, Counts, Plays
  <2> QED BY <1>t, <1>s, <2>1, <2>2, <2>3, <2>4 DEF Common, ViewIsolationInv
<1>e. /\ me' = VI!Thrown => Leaves
      /\ me' = VI!Ending(me, "skip") => Leaves
      /\ \A l : me' = VI!To(l) => Walks(l, me.todo, me.said) /\ me'.loc = me.loc
  BY <1>c DEF Shape, VI!Thrown, VI!Ending, VI!To, Leaves, Walks
\* An answer about the target at hand.
<1>a. ASSUME NEW says, says \in {"leak", "note", "clear"}, Moved, me.at \in {"next", "forward", "reverse"}, me.todo # <<>>,
             Walks("next", Tail(me.todo), me.said \cup {[on |-> Current, arm |-> "tenant", says |-> says]}),
             DOMAIN me'.loc = DOMAIN me.loc, me'.loc.unread = me.loc.unread, world.hook = "other" /\ Nobody(pg) => Nobody(pg'), says = "leak" => [on |-> Current, arm |-> "tenant"] \in Truth.exposed \cup Truth.spurious,
             [on |-> Current, arm |-> "tenant"] \in Truth.exposed =>
                says = "leak" \/ (says = "note" /\ (fault # "none" \/ [on |-> Current, arm |-> "tenant"] \notin Truth.provable))
                              \/ [on |-> Current, arm |-> "tenant"] \in Truth.blind
      PROVE  Common' /\ ViewIsolationInv' /\ Plays
  <2>1. Shape' BY <1>u, <1>c, <1>q, <1>a, Going
  <2> DEFINE e0 == [on |-> Current, arm |-> "tenant"]
  <2>0. Untold(Current, "tenant") BY <1>c, <1>q, <1>a DEF ViewIsolationKnow
  <2>2. /\ Meant'
        /\ \A e : Done(e) => Done(e)'
        /\ \A e : e.on = Current /\ e.arm = "tenant" /\ says = "leak" => Done(e)'
        /\ \A e : e.on = Current /\ says # "clear" /\ (fault # "none" \/ e \notin Truth.provable) => Done(e)'
        /\ \A k, x : (k # Current \/ x # "tenant" \/ says = "note") /\ Untold(k, x) => Untold(k, x)'
        /\ says # "clear" /\ Unclear => Unclear'
    BY <1>u, <1>t, <1>c, <1>a, <2>0, Telling DEF Walks
  <2>3. Session' BY <1>u, <1>c, <1>a, Moving DEF Walks
  <2>4. (Counts' => Counts) /\ Plays BY <1>a DEF Walks, Counts, Plays
  <2>5. Todo' = Todo \ {Current} BY <1>q, <1>a DEF Walks, Todo
  <2>6. ViewIsolationKnow' BY <1>u, <1>c, <1>k, <1>a, <2>2, <2>5 DEF ViewIsolationKnow, Walks
  <2>7. ASSUME NEW e \in Truth.exposed, ViewIsolationPending(e) PROVE ViewIsolationPending(e)' \/ Done(e)'
    <3>1. e.on \in Todo BY <1>a, <2>7 DEF ViewIsolationPending
    <3>2. CASE e.on = Current
      <4>1. e = e0 BY <3>2, ViewIsolationPoints
      <4>2. e \in Truth.blind => Done(e)' BY <1>u, <1>t, <4>1, ViewIsolationPoints DEF Done
      <4> QED BY <1>a, <2>2, <3>2, <4>1, <4>2
    <3>3. CASE e.on # Current BY <1>a, <2>5, <3>1, <3>3 DEF ViewIsolationPending, Walks
    <3> QED BY <3>2, <3>3
  <2> QED BY <1>t, <2>1, <2>2, <2>3, <2>4, <2>6, <2>7 DEF Common, ViewIsolationInv
<1>r. me.todo # <<>> => Target = world.targets[Current] /\ Current \in 1..Count BY <1>q DEF Target, Current
<1>i. me.at # "done" /\ world.hook = "other" => Nobody(pg) BY <1>c DEF ViewIsolationKnow
\* Going on in the first pass.
<1>f. ASSUME NEW at, NEW todo, Walks(at, todo, me.said), Queue(todo), DOMAIN me'.loc = DOMAIN me.loc, me'.loc.plan = me.loc.plan,
             me.at \in {"begin", "surface", "tenants", "deps", "nested"}, at \in {"surface", "tenants", "deps", "nested"},
             pg' \in {Failed, Saved(pg), Released(pg), Undone(Failed)} \/ (Live /\ pg' = Began(pg)),
             at \in {"tenants", "deps", "nested"} => todo # <<>>, at = "tenants" => Live',
             fault = "none" => \A k \in me'.loc.unread : k \in me.loc.unread \/ world.targets[k].tenants = "unreadable"
      PROVE  Common' /\ ViewIsolationInv' /\ Plays
  <2>1. Moved /\ (Nobody(pg) => Nobody(pg')) BY <1>f, <1>h DEF Moved
  <2>2. (\A k, x : Untold(k, x)' <=> Untold(k, x)) BY <1>f DEF Untold, Walks
  <2>3. Whole(me.loc.plan)' BY <1>u, <1>c, <1>f DEF ViewIsolationKnow, Whole, Count
  <2>4. \A k \in (1..Count)' : k \in 1..Count BY <1>u DEF Count
  <2>5. ViewIsolationKnow' BY <1>u, <1>c, <1>f, <2>1, <2>2, <2>3, <2>4 DEF ViewIsolationKnow, Walks, Whole
  <2>6. \A e : ViewIsolationPending(e)' BY <1>f DEF ViewIsolationPending, Walks
  <2> QED BY <1>s, <1>f, <2>1, <2>5, <2>6
<1>1. CASE VI!PlanViews
  <2> DEFINE m == VI!Planned(me.todo)
  <2>1. /\ me.at = "plan"
        /\ \/ pg' = pg /\ me' = [m EXCEPT !.loc.plan = me.todo]
           \/ pg' = Failed /\ me' = VI!Thrown
    BY <1>1, <1>o, Zenon DEF VI!PlanViews, VI!Await, VI!Do
  <2>2. CASE pg' = pg /\ me' = [m EXCEPT !.loc.plan = me.todo]
    <3>1. /\ DOMAIN m = DOMAIN me /\ m.loc = me.loc /\ m.said = me.said /\ m.thrown = me.thrown /\ m.todo = me.todo
          /\ \/ me.todo = <<>> /\ m.at = "close" /\ m.result = "skip"
             \/ me.todo # <<>> /\ m.at = "begin" /\ m.result = me.result
      BY <1>c DEF VI!Planned, VI!Ending, Shape
    <3> HIDE DEF m
    <3>2. /\ DOMAIN me' = DOMAIN me /\ me'.said = me.said /\ me'.thrown = me.thrown /\ me'.todo = me.todo /\ me'.at = m.at /\ me'.result = m.result
          /\ DOMAIN me'.loc = DOMAIN me.loc /\ me'.loc.plan = me.todo /\ me'.loc.unread = me.loc.unread
      BY <1>c, <1>k, <2>2, <3>1 DEF Shape
    <3>3. Moved /\ (Nobody(pg) => Nobody(pg')) BY <2>2 DEF Moved
    <3>4. Whole(me.todo) /\ me.said = {} /\ Queue(me.todo) BY <1>c, <2>1 DEF Shape
    <3>5. CASE m.at = "close" /\ m.result = "skip"
      <4>0. PICK S : S = {} OBVIOUS
      <4>1. me'.said = me.said \cup S BY <3>2, <4>0
      <4>2. Common' /\ ~Counts' /\ Plays BY <1>u, <1>t, <1>c, <2>1, <3>2, <3>3, <3>5, <4>0, <4>1, Dropping
      <4>3. ViewIsolationKnow' BY <1>u, <1>c, <2>1, <3>2, <3>3, <3>5 DEF ViewIsolationKnow
      <4> QED BY <4>2, <4>3 DEF ViewIsolationInv
    <3>6. CASE m.at = "begin" /\ m.result = me.result
      <4>1. Walks("begin", me.todo, me.said) BY <3>2, <3>6 DEF Walks
      <4>2. Whole(me.todo)' BY <1>u, <3>2, <3>4 DEF Whole, Count
      <4>3. \A k, x : Untold(k, x)' BY <3>2, <3>4 DEF Untold
      <4>4. ViewIsolationKnow' BY <1>u, <1>c, <2>1, <3>2, <3>3, <3>6, <4>2, <4>3 DEF ViewIsolationKnow, Whole
      <4>5. \A e : ViewIsolationPending(e)' BY <3>2, <3>6 DEF ViewIsolationPending
      <4> QED BY <1>s, <2>1, <3>3, <3>4, <4>1, <4>4, <4>5
    <3> QED BY <3>1, <3>5, <3>6
  <2> QED BY <1>e, <1>l, <2>1, <2>2
<1>2. CASE VI!Begin
  <2>1. /\ me.at = "begin"
        /\ (me' = VI!Thrown /\ pg' = Failed) \/ (me' = VI!To("surface") /\ pg' = Began(pg) /\ Live)
    BY <1>2, <1>o, Zenon DEF VI!Begin, VI!Await, VI!Do
  <2>2. CASE me' = VI!To("surface") /\ pg' = Began(pg) /\ Live
    <3>1. Walks("surface", me.todo, me.said) /\ me'.loc = me.loc /\ Queue(me.todo) BY <1>e, <1>c, <2>2 DEF Shape
    <3> QED BY <1>f, <1>c, <2>1, <2>2, <3>1 DEF ViewIsolationKnow
  <2> QED BY <1>e, <1>l, <2>1, <2>2
<1>3. CASE VI!NextSurface
  <2>1. /\ me.at = "surface"
        /\ \/ me.todo = <<>> /\ pg' = pg /\ me' = [VI!To("canary") EXCEPT !.todo = me.loc.plan]
           \/ me.todo # <<>> /\ Live /\ pg' = Saved(pg) /\ me' = VI!To("tenants")
           \/ pg' = Failed /\ me' = VI!Thrown
    BY <1>3, <1>o, Zenon DEF VI!NextSurface, VI!Await, VI!Do
  <2>2. CASE pg' = pg /\ me' = [VI!To("canary") EXCEPT !.todo = me.loc.plan]
    <3>1. Walks("canary", me.loc.plan, me.said) /\ me'.loc = me.loc BY <1>c, <2>2 DEF Shape, VI!To, Walks
    <3>2. Whole(me.loc.plan) /\ Count \in Nat BY <1>c, <2>1 DEF ViewIsolationKnow, Shape
    <3>3. Queue(me.loc.plan) BY <3>2, Listing
    <3>4. Whole(me.todo)' /\ (\A k, x : Untold(k, x)' <=> Untold(k, x)) /\ Count' = Count BY <1>u, <3>1, <3>2
        DEF Whole, Count, Untold, Walks
    <3>5. ViewIsolationKnow' BY <1>u, <1>c, <2>1, <2>2, <3>1, <3>4 DEF ViewIsolationKnow, Walks
    <3>6. \A e : ViewIsolationPending(e)' BY <3>1 DEF ViewIsolationPending, Walks
    <3> QED BY <1>s, <2>1, <2>2, <3>1, <3>3, <3>5, <3>6 DEF Moved
  <2>3. CASE me.todo # <<>> /\ Live /\ pg' = Saved(pg) /\ me' = VI!To("tenants")
    <3>1. Walks("tenants", me.todo, me.said) /\ me'.loc = me.loc /\ Queue(me.todo) BY <1>e, <1>c, <2>3 DEF Shape
    <3>2. Live' BY <1>c, <2>3, Saving DEF Live, Session, Proper
    <3> QED BY <1>f, <2>1, <2>3, <3>1, <3>2
  <2> QED BY <1>e, <1>l, <2>1, <2>2, <2>3
<1>4. CASE VI!DistinctTenants
  <2> DEFINE U == me.loc.unread \cup {VI!Current}
             m2 == [me EXCEPT !.loc.unread = U]
             after(m) == IF VI!Target.mat THEN VI!Surfaced(m) ELSE [m EXCEPT !.at = "deps"]
  <2>1. /\ me.at = "tenants"
        /\ \/ pg' = Released(pg) /\ me' = after(me)
           \/ pg' = Undone(Failed) /\ (~Live \/ VI!Target.tenants = "unreadable") /\ me' = after(m2)
    BY <1>4, <1>o, Zenon DEF VI!DistinctTenants, VI!Guarded, VI!Do
  <2>2. /\ DOMAIN m2 = DOMAIN me /\ m2.at = me.at /\ m2.todo = me.todo /\ m2.said = me.said /\ m2.thrown = me.thrown /\ m2.result = me.result
        /\ DOMAIN m2.loc = DOMAIN me.loc /\ m2.loc.plan = me.loc.plan /\ m2.loc.unread = U
    BY <1>c, <1>k DEF Shape
  <2>7. U = me.loc.unread \cup {Current} BY <1>o
  <2> HIDE DEF m2, U
  <2>3. PICK m : /\ me' = after(m) /\ m \in {me, m2} /\ (m # me => ~Live \/ VI!Target.tenants = "unreadable")
                 /\ pg' \in {Released(pg), Undone(Failed)}
    BY <2>1
  <2>4. /\ DOMAIN m = DOMAIN me /\ m.todo = me.todo /\ m.said = me.said /\ m.thrown = me.thrown /\ m.result = me.result
        /\ DOMAIN m.loc = DOMAIN me.loc /\ m.loc.plan = me.loc.plan /\ m.loc.unread \in {me.loc.unread, U}
        /\ m.loc.unread # me.loc.unread => ~Live \/ Target.tenants = "unreadable"
    BY <1>o, <2>2, <2>3
  <2>5. PICK at, todo : /\ Walks(at, todo, me.said) /\ me'.loc = m.loc
                        /\ \/ at = "surface" /\ todo = Tail(me.todo)
                           \/ at = "deps" /\ todo = me.todo
    <3>1. CASE me' = VI!Surfaced(m)
      <4>1. Walks("surface", Tail(me.todo), me.said) /\ me'.loc = m.loc BY <1>c, <2>4, <3>1 DEF VI!Surfaced, Walks,
          Shape
      <4> QED BY <4>1
    <3>2. CASE me' = [m EXCEPT !.at = "deps"]
      <4>1. Walks("deps", me.todo, me.said) /\ me'.loc = m.loc BY <1>c, <2>4, <3>2 DEF Walks, Shape
      <4> QED BY <4>1
    <3> QED BY <2>3, <3>1, <3>2
  <2>6. me.todo # <<>> /\ (fault = "none" => Live) BY <1>c, <2>1 DEF ViewIsolationKnow
  <2>8. Queue(todo) /\ Target = world.targets[Current] BY <1>c, <1>q, <1>r, <2>5, <2>6 DEF Shape
  <2>9. fault = "none" => \A k \in me'.loc.unread : k \in me.loc.unread \/ world.targets[k].tenants = "unreadable"
    BY <2>4, <2>5, <2>6, <2>7, <2>8
  <2> QED BY <1>f, <2>1, <2>3, <2>4, <2>5, <2>6, <2>8, <2>9
<1>5. CASE VI!NestedViewDeps
  <2>1. \/ me.at = "deps" /\ pg' = Saved(pg) /\ me' = VI!To("nested")
        \/ me.at = "deps" /\ pg' = Failed /\ me' = VI!Thrown
        \/ me.at = "nested" /\ pg' \in {Released(pg), Undone(Failed)} /\ me' = VI!Surfaced(me)
    <3>1. VI!Await("deps", FALSE, VI!Saved(pg), VI!To("nested")) \/ VI!Guarded("nested", FALSE, VI!Released(pg), VI!Surfaced(me), VI!Surfaced(me))
      BY <1>5, Zenon DEF VI!NestedViewDeps
    <3>2. CASE VI!Await("deps", FALSE, VI!Saved(pg), VI!To("nested")) BY <1>o, <3>2, Zenon DEF VI!Await, VI!Do
    <3>3. CASE VI!Guarded("nested", FALSE, VI!Released(pg), VI!Surfaced(me), VI!Surfaced(me)) BY <1>o, <3>3, Zenon
        DEF VI!Guarded, VI!Do
    <3> QED BY <3>1, <3>2, <3>3
  <2>2. me.todo # <<>> /\ Queue(me.todo) BY <1>c, <2>1 DEF ViewIsolationKnow, Shape
  <2>3. CASE me.at = "deps" /\ pg' = Saved(pg) /\ me' = VI!To("nested")
    <3>1. Walks("nested", me.todo, me.said) /\ me'.loc = me.loc BY <1>e, <2>3
    <3> QED BY <1>f, <2>2, <2>3, <3>1
  <2>4. CASE me.at = "nested" /\ pg' \in {Released(pg), Undone(Failed)} /\ me' = VI!Surfaced(me)
    <3>1. Walks("surface", Tail(me.todo), me.said) /\ me'.loc = me.loc BY <1>c, <2>4 DEF VI!Surfaced, Walks, Shape
    <3>2. Queue(Tail(me.todo)) BY <1>q, <2>2
    <3> QED BY <1>f, <2>4, <3>1, <3>2
  <2> QED BY <1>e, <1>l, <2>1, <2>3, <2>4
<1>6. CASE VI!CreateCanary("role")
  <2>1. /\ me.at = "canary" /\ Common' /\ Plays /\ Keeps /\ Walks("role", me.todo, me'.said)
        /\ me'.loc = me.loc \/ me'.loc = [me.loc EXCEPT !.canary = TRUE]
        /\ pg' = Failed \/ (Live /\ pg' = Made(pg, "canary"))
    BY <1>b, <1>t, <1>6, CreatesCanary
  <2>2. DOMAIN me'.loc = DOMAIN me.loc /\ me'.loc.unread = me.loc.unread BY <1>k, <2>1
  <2>3. ViewIsolationKnow' BY <1>u, <1>c, <2>1, <2>2, <1>h, <1>i DEF ViewIsolationKnow, Walks, Keeps, Todo, Whole,
      Count
  <2>4. \A e \in Truth.exposed : ViewIsolationPending(e) => ViewIsolationPending(e)' BY <1>u, <2>1, <2>2
      DEF ViewIsolationPending, Walks, Todo
  <2> QED BY <1>t, <2>1, <2>3, <2>4 DEF ViewIsolationInv, Keeps, Counts, Walks
<1>7. CASE VI!SwitchRole("check")
  <2>1. /\ me.at = "role" /\ Common' /\ Plays /\ me'.loc = me.loc /\ me'.said = me.said
        /\ (Leaves /\ ~Counts' /\ pg' = Failed) \/ (Walks("check", me.todo, me.said) /\ Live /\ world.member /\ pg' = AsRole(pg, "app"))
    BY <1>b, <1>t, <1>7, SwitchesRole
  <2>2. (\A e : Done(e)' <=> Done(e)) /\ (Unclear' <=> Unclear) BY <1>u, <1>t, <1>c, <2>1, Quiet
  <2>3. ViewIsolationKnow' BY <1>u, <1>c, <2>1, <2>2, <1>h, <1>i DEF ViewIsolationKnow, Walks, Leaves, Todo, Untold,
      Whole, Count
  <2>4. \A e : ViewIsolationPending(e) /\ Counts' => ViewIsolationPending(e)' BY <1>u, <2>1 DEF ViewIsolationPending,
      Walks, Todo
  <2> QED BY <1>t, <2>1, <2>2, <2>3, <2>4 DEF ViewIsolationInv, Counts, Walks
<1>8. CASE VI!CheckCanary("next")
  <2>1. /\ me.at = "check" /\ Common' /\ Plays /\ me'.loc = me.loc /\ me'.said = me.said
        /\ (Leaves /\ ~Counts' /\ pg' = RolledBack(pg)) \/ (Walks("next", me.todo, me.said) /\ (pg' = pg \/ (~Live /\ pg' = Failed)))
    BY <1>b, <1>t, <1>8, ChecksCanary
  <2>2. Whole(me.todo) /\ Count \in Nat BY <1>c, <2>1 DEF ViewIsolationKnow, Shape
  <2>3. Todo = 1..Count BY <2>2, Listing DEF Todo
  <2>4. me'.todo = me.todo BY <2>1 DEF Leaves, Walks
  <2>5. Todo' = Todo /\ (\A k, x : Untold(k, x)' <=> Untold(k, x)) /\ (Nobody(pg) => Nobody(pg'))
    BY <1>h, <2>1, <2>4 DEF Todo, Untold
  <2>6. ViewIsolationKnow' BY <1>u, <1>c, <1>i, <2>1, <2>3, <2>5 DEF ViewIsolationKnow, Walks, Leaves
  <2>7. Counts' => Walks("next", me.todo, me.said) BY <2>1
  <2>8. Counts' => \A e \in Truth.exposed : ViewIsolationPending(e)' BY <2>3, <2>5, <2>7, ViewIsolationPoints
      DEF ViewIsolationPending, Walks
  <2> QED BY <1>t, <2>1, <2>6, <2>8 DEF ViewIsolationInv
<1>9. CASE VI!NextView
  <2>1. /\ me.at = "next"
        /\ \/ me.todo = <<>> /\ pg' = pg /\ me' = VI!To("finally")
           \/ /\ me.todo # <<>> /\ (Current \in me.loc.unread \/ Target.tenants = "one")
              /\ pg' = pg /\ me' = VI!Onward(VI!Said(me, Current, "tenant", "note"))
           \/ me.todo # <<>> /\ Target.tenants # "one" /\ Live /\ pg' = Saved(pg) /\ me' = VI!To("forward")
           \/ pg' = Failed /\ me' = VI!Thrown
    BY <1>9, <1>o, Zenon DEF VI!NextView, VI!Await, VI!Do
  <2>2. CASE me.todo = <<>> /\ pg' = pg /\ me' = VI!To("finally")
    <3>1. Walks("finally", me.todo, me.said) /\ me'.loc = me.loc BY <1>e, <2>2
    <3>2. ViewIsolationKnow' BY <1>u, <1>c, <2>1, <2>2, <3>1 DEF ViewIsolationKnow, Walks
    <3>3. \A e : ~ViewIsolationPending(e)
      <4>1. Todo = {} BY <2>2 DEF Todo, Elems
      <4> QED BY <2>1, <4>1 DEF ViewIsolationPending
    <3> QED BY <1>s, <1>c, <2>1, <2>2, <3>1, <3>2, <3>3 DEF Moved, Shape
  <2>3. CASE /\ me.todo # <<>> /\ (Current \in me.loc.unread \/ Target.tenants = "one")
             /\ pg' = pg /\ me' = VI!Onward(VI!Said(me, Current, "tenant", "note"))
    <3>1. Walks("next", Tail(me.todo), me.said \cup {[on |-> Current, arm |-> "tenant", says |-> "note"]}) /\ me'.loc = me.loc
      BY <1>c, <2>3 DEF Shape, VI!Onward, VI!Said, Walks
    <3>2. fault # "none" \/ [on |-> Current, arm |-> "tenant"] \notin Truth.provable
      BY <1>c, <1>r, <2>3, ViewIsolationPoints DEF ViewIsolationKnow
    <3>3. Moved /\ (Nobody(pg) => Nobody(pg')) BY <2>3 DEF Moved
    <3> QED BY <1>a, <2>1, <2>3, <3>1, <3>2, <3>3
  <2>4. CASE me.todo # <<>> /\ Target.tenants # "one" /\ Live /\ pg' = Saved(pg) /\ me' = VI!To("forward")
    <3>1. Walks("forward", me.todo, me.said) /\ me'.loc = me.loc BY <1>e, <2>4
    <3>2. Live' /\ (Nobody(pg) => Nobody(pg')) BY <1>c, <1>h, <2>4, Saving DEF Live, Session, Proper
    <3>3. Todo' = Todo /\ Target' = Target /\ (\A k, x : Untold(k, x)' <=> Untold(k, x)) BY <1>u, <3>1 DEF Todo,
        Target, Untold, Walks
    <3>4. ViewIsolationKnow' BY <1>u, <1>c, <2>1, <2>4, <3>1, <3>2, <3>3 DEF ViewIsolationKnow, Walks
    <3>5. \A e : ViewIsolationPending(e) => ViewIsolationPending(e)' BY <2>1, <3>1, <3>3 DEF ViewIsolationPending,
        Walks
    <3> QED BY <1>s, <1>c, <2>1, <2>4, <3>1, <3>4, <3>5 DEF Moved, Shape
  <2> QED BY <1>e, <1>l, <2>1, <2>2, <2>3, <2>4
\* A view whose probe raised, by a fault or because the role or the hook failed.
<1>v. ASSUME me' = VI!Unproven, me.at \in {"forward", "reverse"}, me.todo # <<>>, pg' = Undone(Failed),
             fault # "none" \/ [on |-> Current, arm |-> "tenant"] \notin Truth.provable
      PROVE  Common' /\ ViewIsolationInv' /\ Plays
  <2>1. Walks("next", Tail(me.todo), me.said \cup {[on |-> Current, arm |-> "tenant", says |-> "note"]}) /\ me'.loc = me.loc
    BY <1>c, <1>o, <1>v DEF Shape, VI!Unproven, VI!Onward, VI!Said, Walks
  <2>2. Moved /\ (Nobody(pg) => Nobody(pg')) BY <1>v, <1>h DEF Moved
  <2> QED BY <1>a, <1>v, <2>1, <2>2
<1>10. CASE VI!ProbeForward
  <2> DEFINE who == VI!Becomes("A")
             own == VI!Finds(VI!Target, who, "A")
             cross == VI!Finds(VI!Target, who, "B")
  <2>1. /\ me.at = "forward"
        /\ \/ Live /\ pg' = Acting(pg, who) /\ me' = [VI!To("reverse") EXCEPT !.loc.own = own, !.loc.cross = cross]
           \/ (~Live \/ world.hook = "fails" \/ VI!Target.reads = "denied") /\ pg' = Undone(Failed) /\ me' = VI!Unproven
    BY <1>10, <1>o, Zenon DEF VI!ProbeForward, VI!Guarded, VI!Do
  <2>2. me.todo # <<>> /\ (fault = "none" => Live) /\ Target.tenants # "one" BY <1>c, <2>1 DEF ViewIsolationKnow
  <2>3. who = (IF world.hook = "other" THEN pg.who ELSE "A") BY DEF VI!Becomes
  <2>4. world.hook = "other" => pg.who = "nobody" BY <1>i, <2>1 DEF Nobody
  <2>5. cross <=> Target.reads = "all" BY <1>o, <2>3, <2>4 DEF VI!Finds
  <2>6. CASE Live /\ pg' = Acting(pg, who) /\ me' = [VI!To("reverse") EXCEPT !.loc.own = own, !.loc.cross = cross]
    <3> HIDE DEF own, cross, who
    <3>1. /\ Walks("reverse", me.todo, me.said) /\ DOMAIN me'.loc = DOMAIN me.loc /\ me'.loc.cross = cross /\ me'.loc.unread = me.loc.unread
      <4>1. Walks("reverse", me.todo, me.said) /\ me'.loc = [me.loc EXCEPT !.own = own, !.cross = cross]
        BY <1>c, <2>6 DEF Shape, VI!To, Walks
      <4> QED BY <1>k, <4>1
    <3>2. Live' /\ Moved BY <1>c, <2>6, Plainly DEF Live, Session, Proper, Moved
    <3>3. world.hook = "other" => Nobody(pg') BY <1>h, <1>i, <2>1, <2>3, <2>4, <2>6
    <3>4. Todo' = Todo /\ Target' = Target /\ (\A k, x : Untold(k, x)' <=> Untold(k, x)) BY <1>u, <3>1 DEF Todo,
        Target, Untold, Walks
    <3>5. ViewIsolationKnow' BY <1>u, <1>c, <2>1, <2>2, <2>5, <3>1, <3>2, <3>3, <3>4 DEF ViewIsolationKnow, Walks
    <3>6. \A e : ViewIsolationPending(e) => ViewIsolationPending(e)' BY <2>1, <3>1, <3>4 DEF ViewIsolationPending,
        Walks
    <3> QED BY <1>s, <1>c, <2>1, <3>1, <3>2, <3>5, <3>6 DEF Shape
  <2>7. CASE (~Live \/ world.hook = "fails" \/ VI!Target.reads = "denied") /\ pg' = Undone(Failed) /\ me' = VI!Unproven
    <3>1. VI!Target = world.targets[Current] BY <1>o, <1>r, <2>2
    <3>2. fault # "none" \/ [on |-> Current, arm |-> "tenant"] \notin Truth.provable BY <2>2, <2>7, <3>1,
        ViewIsolationPoints
    <3> QED BY <1>v, <2>1, <2>2, <2>7, <3>2
  <2> QED BY <2>1, <2>6, <2>7
<1>11. CASE VI!ProbeReverse
  <2> DEFINE who == VI!Becomes("B")
             cross == me.loc.cross \/ VI!Finds(VI!Target, who, "A")
             says == VI!ClassifyViewResult(me.loc.own, cross)
  <2>1. /\ me.at = "reverse"
        /\ \/ pg' = Released(Acting(pg, who)) /\ me' = VI!Onward(VI!Said(me, Current, "tenant", says))
           \/ ~Live /\ pg' = Undone(Failed) /\ me' = VI!Unproven
    BY <1>11, <1>o, Zenon DEF VI!ProbeReverse, VI!Guarded, VI!Do
  <2>2. me.todo # <<>> /\ (fault = "none" => Live) /\ Target.tenants # "one" /\ (me.loc.cross <=> Target.reads = "all") /\ Current \in Todo
    BY <1>c, <1>q, <2>1 DEF ViewIsolationKnow
  <2>3. who = (IF world.hook = "other" THEN pg.who ELSE "B") BY DEF VI!Becomes
  <2>4. world.hook = "other" => pg.who = "nobody" BY <1>i, <2>1 DEF Nobody
  <2>5. cross <=> Target.reads = "all" \/ (Target.reads = "down" /\ world.hook # "other")
    BY <1>o, <2>2, <2>3, <2>4 DEF VI!Finds
  <2>6. says \in {"leak", "note", "clear"} /\ (says = "leak" <=> cross) BY DEF VI!ClassifyViewResult
  <2>7. CASE pg' = Released(Acting(pg, who)) /\ me' = VI!Onward(VI!Said(me, Current, "tenant", says))
    <3> HIDE DEF cross, says, who
    <3>1. Walks("next", Tail(me.todo), me.said \cup {[on |-> Current, arm |-> "tenant", says |-> says]}) /\ me'.loc = me.loc
      BY <1>c, <2>7 DEF Shape, VI!Onward, VI!Said, Walks
    <3>2. Moved BY <2>7, Zenon DEF Moved
    <3>3. world.hook = "other" /\ Nobody(pg) => Nobody(pg') BY <1>h, <2>3, <2>4, <2>7
    <3>4. [on |-> Current, arm |-> "tenant"] \in Truth.exposed <=> says = "leak"
      BY <1>r, <2>2, <2>5, <2>6, ViewIsolationPoints
    <3>5. PICK s : s = says OBVIOUS
    <3>6. Walks("next", Tail(me.todo), me.said \cup {[on |-> Current, arm |-> "tenant", says |-> s]}) BY <3>1, <3>5
    <3>7. s \in {"leak", "note", "clear"} /\ ([on |-> Current, arm |-> "tenant"] \in Truth.exposed <=> s = "leak")
      BY <2>6, <3>4, <3>5
    <3>8. me'.loc.unread = me.loc.unread /\ DOMAIN me'.loc = DOMAIN me.loc BY <3>1
    <3> QED BY <1>a, <2>1, <2>2, <3>2, <3>3, <3>6, <3>7, <3>8
  <2>8. CASE ~Live /\ pg' = Undone(Failed) /\ me' = VI!Unproven BY <1>v, <2>1, <2>2, <2>8
  <2> QED BY <2>1, <2>7, <2>8
<1>12. CASE VI!RollBack("close")
  <2>1. /\ me.at = "finally" /\ Common' /\ Plays /\ me'.at = (IF me.thrown THEN "close" ELSE "close")
        /\ me'.thrown = me.thrown /\ me'.result = me.result
        /\ me'.loc = me.loc /\ me'.said = me.said /\ me'.todo = me.todo /\ (Counts' <=> Counts)
        /\ pg' \in {pg, RolledBack(pg)} /\ (pg.st \notin {"open", "aborted"} => pg' = pg)
    BY <1>b, <1>t, <1>12, RollsBack
  <2>2. (\A e : Done(e)' <=> Done(e)) /\ (Unclear' <=> Unclear) BY <1>u, <1>t, <1>c, <2>1, Quiet
  <2>3. ViewIsolationKnow' BY <1>u, <1>c, <2>1, <2>2, <1>h, <1>i DEF ViewIsolationKnow, Todo, Untold
  <2>4. \A e \in Truth.exposed : ViewIsolationPending(e) /\ Counts => ViewIsolationPending(e)' BY <1>u, <2>1
      DEF ViewIsolationPending
  <2> QED BY <1>t, <2>1, <2>2, <2>3, <2>4 DEF ViewIsolationInv
<1>13. CASE VI!Connect
  <2>1. /\ me.at = "start" /\ Common' /\ Plays /\ me'.loc = me.loc /\ me'.said = {} /\ me'.todo = me.todo
        /\ \/ me'.at = "plan" /\ pg' = [pg EXCEPT !.st = "idle"] /\ pg'.st = "idle" /\ Whole(me'.todo)
           \/ me'.at = "done" /\ ~Counts' /\ pg' = pg
    BY <1>b, <1>t, <1>13, Connects
  <2>2. ViewIsolationKnow' BY <1>u, <1>c, <2>1, <1>h, <1>i DEF ViewIsolationKnow, Unclear
  <2>3. Counts' => \A e : ViewIsolationPending(e)' BY <2>1 DEF ViewIsolationPending
  <2> QED BY <2>1, <2>2, <2>3 DEF ViewIsolationInv
<1>14. CASE VI!Disconnect
  <2>1. /\ me.at = "close" /\ Common' /\ Plays /\ me'.at = "done"
        /\ me'.loc = me.loc /\ me'.said = me.said /\ me'.todo = me.todo /\ (Counts' => Counts)
    BY <1>b, <1>t, <1>14, Disconnects
  <2>2. (\A e : Done(e)' <=> Done(e)) /\ (Unclear' <=> Unclear) BY <1>u, <1>t, <1>c, <2>1, Quiet
  <2>3. ViewIsolationKnow' BY <1>u, <1>c, <2>1, <2>2 DEF ViewIsolationKnow
  <2>4. \A e : ~ViewIsolationPending(e) BY <2>1 DEF ViewIsolationPending
  <2> QED BY <1>t, <2>1, <2>2, <2>3, <2>4 DEF ViewIsolationInv
<1> QED BY <1>1, <1>2, <1>3, <1>4, <1>5, <1>6, <1>7, <1>8, <1>9, <1>10, <1>11, <1>12, <1>13, <1>14 DEF VI!Next,
    VI!Check, VI!Run, VI!SelfCheck

\* So does a fault, whenever it strikes.
LEMMA ViewIsolationStruck ==
  ASSUME Common, ViewIsolationInv, world.guard = "view-isolation", Drop \/ Cancel
  PROVE  Common' /\ ViewIsolationInv'
<1>1. world' = world /\ fault = "none" BY DEF Drop, Cancel
<1>2. Truth'.exposed = Truth.exposed /\ Truth.blind \subseteq Truth'.blind /\ Truth.spurious \subseteq Truth'.spurious
  <2>1. Truth = VI!Truth /\ Truth' = VI!Truth' BY <1>1 DEF Truth
  <2>2. VI!Exposed' = VI!Exposed BY <1>1 DEF VI!Exposed
  <2>3. VI!Blind \subseteq VI!Blind' BY <1>1, <2>2 DEF VI!Blind
  <2>4. VI!Spurious \subseteq VI!Spurious' BY <1>1 DEF VI!Spurious
  <2> QED BY <2>1, <2>2, <2>3, <2>4 DEF VI!Truth
<1>3. /\ me' = me /\ fault' # "none" /\ Common'
      /\ \/ fault' = "lost" /\ pg'.st = "lost" /\ pg'.who = "nobody" /\ pg'.saves = <<>>
         \/ fault' = "cancelled" /\ pg.st = "open" /\ pg'.st = "aborted" /\ pg' = Failed
      /\ \A e : Done(e) => Done(e)'
      /\ \A k, x : Untold(k, x)' <=> Untold(k, x)
      /\ Unclear' <=> Unclear
  BY <1>2, Striking
<1>6. Nobody(pg) => Nobody(pg')
  <2>1. pg' = Failed /\ Nobody(pg) => Nobody(pg') BY Unnamed DEF Common, Session, Proper
  <2>2. pg'.who = "nobody" /\ pg'.saves = <<>> => Nobody(pg') BY DEF Nobody
  <2> QED BY <1>3, <2>1, <2>2
<1>4. ViewIsolationKnow' BY <1>1, <1>3, <1>6 DEF ViewIsolationInv, ViewIsolationKnow, Todo, Whole, Count, Target, Live
<1>5. \A e : ViewIsolationPending(e) => ViewIsolationPending(e)' BY <1>1, <1>3 DEF ViewIsolationPending, Todo
<1> QED BY <1>2, <1>3, <1>4, <1>5 DEF ViewIsolationInv, Counts

\* View-isolation begins so.
LEMMA ViewIsolationBegins == ASSUME VI!Init PROVE Common /\ ViewIsolationInv /\ world.guard = "view-isolation"
<1>1. Begins("view-isolation") /\ me.loc = [canary |-> FALSE, plan |-> <<>>, unread |-> {}, own |-> FALSE, cross |-> FALSE]
  BY WorldAssumption DEF Names, Begins, Whole, Count, Closed, VI!Init, VI!Enter, VI!Entered, VI!Closed
<1>2. Common BY <1>1, Beginning DEF Names
<1>3. ViewIsolationKnow BY <1>1 DEF ViewIsolationKnow, Begins, Unclear, Nobody, Closed
<1> QED BY <1>1, <1>2, <1>3 DEF ViewIsolationInv, ViewIsolationPending, Begins

\* A step of nobody keeps it.
LEMMA ViewIsolationStays ==
  ASSUME Common, ViewIsolationInv, world.guard = "view-isolation", UNCHANGED vars
  PROVE  Common' /\ ViewIsolationInv'
<1>1. world' = world /\ fault' = fault /\ pg' = pg /\ me' = me BY DEF vars
<1>2. Truth' = Truth BY <1>1, ViewIsolationSame
<1>3. Common' /\ (\A e : Done(e)' <=> Done(e)) /\ (Counts' <=> Counts) BY <1>1, <1>2, Resting
<1>4. ViewIsolationKnow' /\ (\A e : ViewIsolationPending(e)' <=> ViewIsolationPending(e))
  BY <1>1, <1>2 DEF ViewIsolationInv, ViewIsolationKnow, ViewIsolationPending, Nobody, Whole, Count, Untold, Live,
      Todo, Target, Shape, Walks,
           Queue, Meant, Unclear, Done, Meaning, Key, Agreed, Heard, Found, Common, Leaves, Counts, Plays, Elems,
           Lists, Results, Session, Moved, Roles, Proper
<1> QED BY <1>2, <1>3, <1>4 DEF ViewIsolationInv

\* At the end nothing is pending, and a question is a target and an arm.
LEMMA ViewIsolationEnds ==
  ASSUME Common, world.guard = "view-isolation", ViewIsolationInv, me.at = "done", Counts
  PROVE  /\ \A e \in Truth.exposed : e = Key(e) /\ Done(e)
         /\ Truth.provable \subseteq Truth.exposed
<1>1. \A e : ~ViewIsolationPending(e) BY DEF ViewIsolationPending
<1> QED BY <1>1, ViewIsolationPoints DEF ViewIsolationInv, Key

-----------------------------------------------------------------------------
(* column-exposure.                                                        *)

\* The tables that are still to be probed can be planned, and a probe has its table.
ColumnExposureKnow ==
  /\ DOMAIN me.loc = {"plan"}
  /\ Unclear
  /\ me.at \in {"grants", "begin", "role", "next", "probe"} => \A k \in Todo : CE!Planable(world.targets[k])
  /\ me.at = "probe" => me.todo # <<>> /\ (fault = "none" => Live)

\* The table is on the list, or the list is still to be made.
ColumnExposurePending(e) ==
  \/ me.at \in {"start", "plan"}
  \/ me.at \in {"grants", "begin", "role", "next", "probe"} /\ e.on \in Todo

\* Everything exposed is pending or done.
ColumnExposureInv == ColumnExposureKnow /\ (Counts => \A e \in Truth.exposed : ColumnExposurePending(e) \/ Done(e))

\* What is exposed to column-exposure, and what of it is missed, misjudged or provable.
LEMMA ColumnExposurePoints ==
  ASSUME world.guard = "column-exposure"
  PROVE  /\ \A e : e \in Truth.exposed <=>
              /\ e = [on |-> e.on, arm |-> "columns"] /\ e.on \in 1..Count
              /\ CE!Planable(world.targets[e.on]) /\ world.targets[e.on].read = "values"
         /\ fault # "none" => Truth.blind = Truth.exposed
         /\ fault = "none" => Truth.blind = {}
         /\ Truth.provable = Truth.exposed
<1>1. Truth.exposed = CE!Exposed /\ Truth.blind = CE!Blind /\ Truth.provable = CE!Exposed
  BY DEF Truth, CE!Truth, CE!Provable
<1>2. \A e : e \in Truth.exposed <=>
              /\ e = [on |-> e.on, arm |-> "columns"] /\ e.on \in 1..Count
              /\ CE!Planable(world.targets[e.on]) /\ world.targets[e.on].read = "values"
  BY <1>1 DEF CE!Exposed, Count
<1> QED BY <1>1, <1>2 DEF CE!Blind

\* What is exposed to column-exposure depends on the database and the fault alone.
LEMMA ColumnExposureSame ==
  ASSUME world.guard = "column-exposure", world' = world, fault' = fault
  PROVE  Truth' = Truth
<1>1. Truth = CE!Truth BY DEF Truth
<1>2. Truth' = CE!Truth' BY DEF Truth
<1>3. CE!Exposed' = CE!Exposed BY DEF CE!Exposed, CE!Planable
<1>4. CE!Blind' = CE!Blind BY <1>3 DEF CE!Blind
<1>5. CE!Provable' = CE!Provable BY <1>3 DEF CE!Provable
<1>6. CE!Spurious' = CE!Spurious BY DEF CE!Spurious
<1>7. CE!Fragile' = CE!Fragile BY DEF CE!Fragile
<1> QED BY <1>1, <1>2, <1>3, <1>4, <1>5, <1>6, <1>7 DEF CE!Truth

\* A step of column-exposure changes neither the database nor the fault.
LEMMA ColumnExposureRest == ASSUME CE!Next PROVE world' = world /\ fault' = fault
BY DEF CE!AssumeRole, CE!Attempt, CE!Await, CE!Begin, CE!Check, CE!Connect, CE!Disconnect, CE!Do, CE!Finish,
     CE!GrantPaths, CE!Guarded, CE!Next, CE!NextRelation, CE!PlanRelations, CE!ProbeRelation, CE!RollBack, CE!Run

\* A step of column-exposure keeps what it knows, and is one its runner expects.
LEMMA ColumnExposureAnswers ==
  ASSUME Common, ColumnExposureInv, world.guard = "column-exposure", CE!Next
  PROVE  Common' /\ ColumnExposureInv' /\ Plays
<1>u. world' = world /\ fault' = fault BY ColumnExposureRest
<1>t. Truth' = Truth BY <1>u, ColumnExposureSame
<1>b. /\ CE!Connect <=> Connect
      /\ CE!Disconnect <=> Disconnect
      /\ CE!RollBack("handoff") <=> RollBack("handoff")
  BY DEF CE!Closed, Closed, CE!Connect, Connect, CE!Disconnect, Disconnect, CE!Do, Do, CE!LeaksIn, LeaksIn,
         CE!RollBack, RollBack, CE!RolledBack, RolledBack, CE!To, To, CE!Verdict, Verdict
<1>o. /\ CE!Live <=> Live
      /\ CE!Failed = Failed
      /\ CE!Began(pg) = Began(pg)
      /\ CE!Saved(pg) = Saved(pg)
      /\ CE!Released(pg) = Released(pg)
      /\ CE!Undone(pg) = Undone(pg)
      /\ CE!Undone(CE!Failed) = Undone(Failed)
      /\ CE!RolledBack(pg) = RolledBack(pg)
      /\ \A x : CE!AsRole(pg, x) = AsRole(pg, x)
      /\ \A S : CE!Kept(S) = Kept(S)
      /\ CE!Target = Target
      /\ CE!Current = Current
  BY DEF CE!Live, Live, CE!Failed, Failed, CE!Began, Began, CE!Saved, Saved, CE!Released, Released, CE!Undone,
         Undone, CE!RolledBack, RolledBack, CE!AsRole, AsRole, CE!Kept, Kept, CE!Target, Target, CE!Current,
         Current, CE!Closed, Closed
<1>c. Session /\ Shape /\ Meant /\ ColumnExposureKnow BY DEF Common, ColumnExposureInv
<1>k. DOMAIN me.loc = {"plan"} BY <1>c DEF ColumnExposureKnow
<1>q. me.todo # <<>> =>
        /\ Current \in Todo /\ Current \in 1..Count /\ Queue(Tail(me.todo))
        /\ Elems(Tail(me.todo)) = Todo \ {Current}
  BY <1>c, Popping DEF Shape, Todo, Current
<1>x. Todo \subseteq 1..Count BY <1>c DEF Shape, Queue, Todo, Elems
\* Leaving.
<1>l. ASSUME Leaves, me.at \notin {"start", "done"}, pg' \in {pg, Failed} PROVE Common' /\ ColumnExposureInv' /\ Plays
  <2>1. Shape' /\ Meant' /\ ~Counts' /\ Plays BY <1>u, <1>t, <1>l, Leaving
  <2>2. Session' BY <1>u, <1>c, <1>l, Moving DEF Moved, Leaves
  <2>4. (Unclear' <=> Unclear) /\ (\A k, x : Untold(k, x)' <=> Untold(k, x)) BY <1>u, <1>t, <1>c, <1>l, Quiet
      DEF Leaves
  <2>5. pg'.st \in {pg.st, IF pg.st = "open" THEN "aborted" ELSE pg.st} BY <1>c, <1>l DEF Failed, Session, Proper,
      Sound
  <2>3. ColumnExposureKnow'
    <3>1. me'.at \in {"finally", "close"} /\ me'.todo = me.todo /\ me'.said = me.said /\ me'.loc = me.loc /\ DOMAIN me' = DOMAIN me
      BY <1>l DEF Leaves
    <3> QED BY <1>u, <1>c, <1>l, <2>1, <2>4, <2>5, <3>1 DEF ColumnExposureKnow
  <2> QED BY <2>1, <2>2, <2>3 DEF Common, ColumnExposureInv
\* Going on without an answer.
<1>s. ASSUME NEW at, NEW todo, Walks(at, todo, me.said), Queue(todo), Moved, me.at \notin {"start", "done"},
             at \notin {"start", "plan", "done"}, ColumnExposureKnow',
             \A e \in Truth.exposed : Counts /\ ColumnExposurePending(e) => ColumnExposurePending(e)' \/ Done(e)
      PROVE  Common' /\ ColumnExposureInv' /\ Plays
  <2>1. Shape' BY <1>u, <1>c, <1>s, Going
  <2>2. Meant' /\ \A e : Done(e)' <=> Done(e) BY <1>u, <1>t, <1>c, <1>s, Quiet DEF Walks
  <2>3. Session' BY <1>u, <1>c, <1>s, Moving DEF Walks
  <2>4. (Counts' => Counts) /\ Plays BY <1>s DEF Walks, Counts, Plays
  <2> QED BY <1>t, <1>s, <2>1, <2>2, <2>3, <2>4 DEF Common, ColumnExposureInv
<1>e. /\ me' = CE!Thrown => Leaves
      /\ me' = CE!Ending(me, "skip") => Leaves
      /\ \A l : me' = CE!To(l) => Walks(l, me.todo, me.said) /\ me'.loc = me.loc
  BY <1>c DEF Shape, CE!Thrown, CE!Ending, CE!To, Leaves, Walks
\* An answer about the target at hand.
<1>a. ASSUME NEW says, says \in {"leak", "note"}, Moved, me.at \in {"probe"}, me.todo # <<>>,
             Walks("next", Tail(me.todo), me.said \cup {[on |-> Current, arm |-> "columns", says |-> says]}),
             me'.loc = me.loc, says = "leak" => [on |-> Current, arm |-> "columns"] \in Truth.exposed \cup Truth.spurious,
             [on |-> Current, arm |-> "columns"] \in Truth.exposed =>
                says = "leak" \/ (says = "note" /\ (fault # "none" \/ [on |-> Current, arm |-> "columns"] \notin Truth.provable))
                              \/ [on |-> Current, arm |-> "columns"] \in Truth.blind
      PROVE  Common' /\ ColumnExposureInv' /\ Plays
  <2>1. Shape' BY <1>u, <1>c, <1>q, <1>a, Going
  <2> DEFINE e0 == [on |-> Current, arm |-> "columns"]
  <2>0. Unclear BY <1>c, <1>q, <1>a DEF ColumnExposureKnow
  <2>2. /\ Meant'
        /\ \A e : Done(e) => Done(e)'
        /\ \A e : e.on = Current /\ e.arm = "columns" /\ says = "leak" => Done(e)'
        /\ \A e : e.on = Current /\ says # "clear" /\ (fault # "none" \/ e \notin Truth.provable) => Done(e)'
        /\ \A k, x : (k # Current \/ x # "columns" \/ says = "note") /\ Untold(k, x) => Untold(k, x)'
        /\ says # "clear" /\ Unclear => Unclear'
    BY <1>u, <1>t, <1>c, <1>a, <2>0, Telling DEF Walks
  <2>3. Session' BY <1>u, <1>c, <1>a, Moving DEF Walks
  <2>4. (Counts' => Counts) /\ Plays BY <1>a DEF Walks, Counts, Plays
  <2>5. Todo' = Todo \ {Current} BY <1>q, <1>a DEF Walks, Todo
  <2>6. ColumnExposureKnow' BY <1>u, <1>c, <1>k, <1>a, <2>2, <2>5 DEF ColumnExposureKnow, Walks
  <2>7. ASSUME NEW e \in Truth.exposed, ColumnExposurePending(e) PROVE ColumnExposurePending(e)' \/ Done(e)'
    <3>1. e.on \in Todo BY <1>a, <2>7 DEF ColumnExposurePending
    <3>2. CASE e.on = Current
      <4>1. e = e0 BY <3>2, ColumnExposurePoints
      <4>2. e \in Truth.blind => Done(e)' BY <1>u, <1>t, <4>1, ColumnExposurePoints DEF Done
      <4> QED BY <1>a, <2>2, <3>2, <4>1, <4>2
    <3>3. CASE e.on # Current BY <1>a, <2>5, <3>1, <3>3 DEF ColumnExposurePending, Walks
    <3> QED BY <3>2, <3>3
  <2> QED BY <1>t, <2>1, <2>2, <2>3, <2>4, <2>6, <2>7 DEF Common, ColumnExposureInv
\* A statement that goes on.
<1>f. ASSUME NEW at \in {"begin", "role", "next", "probe", "finally"}, Walks(at, me.todo, me.said), me'.loc = me.loc,
             me.at \in {"grants", "begin", "role", "next"}, Moved,
             at = "finally" => me.todo = <<>>, at = "probe" => me.todo # <<>> /\ Live'
      PROVE  Common' /\ ColumnExposureInv' /\ Plays
  <2>1. ColumnExposureKnow' BY <1>u, <1>c, <1>f DEF ColumnExposureKnow, Walks, Unclear, Todo
  <2>2. ASSUME NEW e, ColumnExposurePending(e) PROVE ColumnExposurePending(e)'
    <3>1. e.on \in Todo BY <1>f, <2>2 DEF ColumnExposurePending
    <3>2. at # "finally" BY <1>f, <3>1 DEF Todo, Elems
    <3> QED BY <1>f, <3>1, <3>2 DEF ColumnExposurePending, Walks, Todo
  <2> QED BY <1>s, <1>c, <1>f, <2>1, <2>2 DEF Shape
\* What other guards look at is handed to them with a note.
<1>h. ASSUME me' = CE!HandOff(CE!To("close")), pg' = pg, me.at \notin {"start", "done"},
             \A e \in Truth.exposed : Counts => ~ColumnExposurePending(e)
      PROVE  Common' /\ ColumnExposureInv' /\ Plays
  <2> DEFINE a == [on |-> 0, arm |-> "handoff", says |-> "note"]
  <2>1. me' = CE!To("close") \/ me' = [CE!To("close") EXCEPT !.said = @ \cup {a}]
    BY <1>h DEF CE!HandOff, CE!Said
  <2> HIDE DEF a
  <2>2. DOMAIN me' = DOMAIN me /\ me'.loc = me.loc /\ me'.at = "close" /\ me'.todo = me.todo
        /\ me'.thrown = me.thrown /\ me'.result = me.result /\ me'.said \in {me.said, me.said \cup {a}}
    BY <1>c, <2>1 DEF CE!To, Shape
  <2>3. Walks("close", me.todo, me'.said) BY <2>2 DEF Walks
  <2>4. Shape' BY <1>u, <1>c, <1>h, <2>3, Going DEF Shape
  <2>5. Meant' /\ Keeps
    <3>1. CASE me'.said = me.said BY <1>u, <1>t, <1>c, <3>1, Quiet DEF Keeps
    <3>2. CASE me'.said = me.said \cup {a} BY <1>u, <1>t, <1>c, <3>2, Noting DEF a
    <3> QED BY <2>2, <3>1, <3>2
  <2>6. Session' BY <1>u, <1>c, <1>h, <2>2, Moving DEF Moved
  <2>7. ColumnExposureKnow' BY <1>c, <2>2, <2>5 DEF ColumnExposureKnow, Keeps
  <2>8. (Counts' => Counts) /\ Plays BY <1>h, <2>2 DEF Counts, Plays
  <2> QED BY <1>t, <1>c, <1>h, <2>4, <2>5, <2>6, <2>7, <2>8 DEF Common, ColumnExposureInv, Keeps
<1>1. CASE CE!PlanRelations
  <2> DEFINE plan == {k \in 1..Len(world.targets) : CE!Planable(world.targets[k])}
  <2>1. /\ me.at = "plan"
        /\ \/ pg' = pg /\ me' = CE!Ending(me, "skip")
           \/ pg' = pg /\ plan = {} /\ me' = CE!HandOff(CE!To("close"))
           \/ pg' = pg /\ me' = [CE!To("grants") EXCEPT !.todo = Kept(plan)]
           \/ pg' = Failed /\ me' = CE!Thrown
    BY <1>1, <1>o, Zenon DEF CE!PlanRelations, CE!Await, CE!Do
  <2>2. \A e \in Truth.exposed : e.on \in plan BY ColumnExposurePoints DEF Count
  <2>3. \A k \in plan : k \in 1..Count /\ CE!Planable(world.targets[k]) BY DEF Count
  <2> HIDE DEF plan
  <2>4. CASE pg' = pg /\ plan = {} /\ me' = CE!HandOff(CE!To("close"))
    <3>1. Truth.exposed = {} BY <2>2, <2>4
    <3> QED BY <1>h, <2>1, <2>4, <3>1
  <2>5. CASE pg' = pg /\ me' = [CE!To("grants") EXCEPT !.todo = Kept(plan)]
    <3>1. Whole(me.todo) BY <1>c, <2>1 DEF Shape
    <3>2. Queue(Kept(plan)) /\ Elems(Kept(plan)) = (1..Count) \cap plan BY <1>c, <3>1, Keeping DEF Shape
    <3>3. Walks("grants", Kept(plan), me.said) /\ me'.loc = me.loc BY <1>c, <2>5 DEF CE!To, Walks, Shape
    <3>4. Todo' = plan BY <2>3, <3>2, <3>3 DEF Todo, Walks
    <3>5. ColumnExposureKnow' BY <1>u, <1>c, <2>3, <3>3, <3>4 DEF ColumnExposureKnow, Walks, Unclear
    <3>6. \A e \in Truth.exposed : ColumnExposurePending(e)' BY <2>2, <3>3, <3>4 DEF ColumnExposurePending, Walks
    <3> QED BY <1>s, <1>c, <2>1, <2>5, <3>2, <3>3, <3>5, <3>6 DEF Moved
  <2> QED BY <1>e, <1>l, <2>1, <2>4, <2>5
<1>2. CASE CE!GrantPaths
  <2>1. /\ me.at = "grants"
        /\ \/ Live /\ pg' = pg /\ me' = CE!To("begin")
           \/ pg' = Failed /\ me' = CE!Thrown
    BY <1>2, <1>b, <1>o, Zenon DEF CE!GrantPaths, CE!Await, CE!Do
  <2>2. CASE Live /\ pg' = pg /\ me' = CE!To("begin")
    <3>1. Walks("begin", me.todo, me.said) /\ me'.loc = me.loc BY <1>e, <2>2
    <3> QED BY <1>f, <2>1, <2>2, <3>1 DEF Moved
  <2> QED BY <1>e, <1>l, <2>1, <2>2
<1>3. CASE CE!Begin
  <2>1. /\ me.at = "begin"
        /\ \/ Live /\ pg' = Began(pg) /\ me' = CE!To("role")
           \/ pg' = Failed /\ me' = CE!Thrown
    BY <1>3, <1>b, <1>o, Zenon DEF CE!Begin, CE!Await, CE!Do
  <2>2. CASE Live /\ pg' = Began(pg) /\ me' = CE!To("role")
    <3>1. Walks("role", me.todo, me.said) /\ me'.loc = me.loc BY <1>e, <2>2
    <3> QED BY <1>f, <2>1, <2>2, <3>1 DEF Moved
  <2> QED BY <1>e, <1>l, <2>1, <2>2
<1>4. CASE CE!AssumeRole
  <2>1. /\ me.at = "role"
        /\ \/ pg' = AsRole(pg, "app") /\ me' = CE!To("next")
           \/ pg' = Failed /\ me' = [CE!To("finally") EXCEPT !.result = "skip"]
    BY <1>4, <1>b, <1>o, Zenon DEF CE!AssumeRole, CE!Attempt, CE!Do
  <2>2. CASE pg' = AsRole(pg, "app") /\ me' = CE!To("next")
    <3>1. Walks("next", me.todo, me.said) /\ me'.loc = me.loc BY <1>e, <2>2
    <3> QED BY <1>f, <2>1, <2>2, <3>1 DEF Moved, Roles
  <2>3. CASE pg' = Failed /\ me' = [CE!To("finally") EXCEPT !.result = "skip"]
    <3>1. Leaves BY <1>c, <2>3 DEF CE!To, Leaves, Shape
    <3> QED BY <1>l, <2>1, <2>3, <3>1
  <2> QED BY <2>1, <2>2, <2>3
<1>5. CASE CE!NextRelation
  <2>1. /\ me.at = "next"
        /\ \/ pg' = pg /\ me.todo = <<>> /\ me' = CE!To("finally")
           \/ Live /\ pg' = Saved(pg) /\ me.todo # <<>> /\ me' = CE!To("probe")
           \/ pg' = Failed /\ me' = CE!Thrown
    BY <1>5, <1>b, <1>o, Zenon DEF CE!NextRelation, CE!Await, CE!Do
  <2>2. CASE pg' = pg /\ me.todo = <<>> /\ me' = CE!To("finally")
    <3>1. Walks("finally", me.todo, me.said) /\ me'.loc = me.loc BY <1>e, <2>2
    <3> QED BY <1>f, <2>1, <2>2, <3>1 DEF Moved
  <2>3. CASE Live /\ pg' = Saved(pg) /\ me.todo # <<>> /\ me' = CE!To("probe")
    <3>1. Walks("probe", me.todo, me.said) /\ me'.loc = me.loc BY <1>e, <2>3
    <3>2. Live' BY <1>c, <2>3 DEF Live, Saved, Session, Proper, Sound
    <3> QED BY <1>f, <2>1, <2>3, <3>1, <3>2 DEF Moved
  <2> QED BY <1>e, <1>l, <2>1, <2>2, <2>3
<1>6. CASE CE!ProbeRelation
  <2> DEFINE says == CE!ClassifyExposure(Target.read)
  <2>1. /\ me.at = "probe"
        /\ \/ Live /\ Target.read \notin {"denied", "error"} /\ pg' = Released(pg)
              /\ me' = CE!Onward(CE!Said(me, Current, "columns", says))
           \/ (~Live \/ Target.read \in {"denied", "error"}) /\ pg' = Undone(Failed) /\ me' = CE!Onward(me)
    BY <1>6, <1>b, <1>o, Zenon DEF CE!ProbeRelation, CE!Guarded, CE!Do
  <2>2. /\ me.todo # <<>> /\ (fault = "none" => Live) /\ CE!Planable(Target) /\ Target = world.targets[Current]
    BY <1>c, <1>q, <2>1 DEF ColumnExposureKnow, Target, Current
  <2>3. says \in {"leak", "note"} /\ (says = "leak" <=> Target.read = "values") BY DEF CE!ClassifyExposure
  <2> HIDE DEF says
  <2>4. CASE pg' = Released(pg) /\ me' = CE!Onward(CE!Said(me, Current, "columns", says))
    <3>1. /\ Walks("next", Tail(me.todo), me.said \cup {[on |-> Current, arm |-> "columns", says |-> says]})
          /\ me'.loc = me.loc
      BY <1>c, <2>4 DEF CE!Onward, CE!Said, Walks, Shape
    <3>2. [on |-> Current, arm |-> "columns"] \in Truth.exposed <=> says = "leak"
      BY <1>q, <2>2, <2>3, ColumnExposurePoints
    <3> QED BY <1>a, <2>1, <2>2, <2>3, <2>4, <3>1, <3>2 DEF Moved
  <2>5. CASE (~Live \/ Target.read \in {"denied", "error"}) /\ pg' = Undone(Failed) /\ me' = CE!Onward(me)
    <3>1. Walks("next", Tail(me.todo), me.said) /\ me'.loc = me.loc BY <1>c, <2>5 DEF CE!Onward, Walks, Shape
    <3>2. Todo' = Todo \ {Current} BY <1>q, <2>2, <3>1 DEF Walks, Todo
    <3>3. ColumnExposureKnow' BY <1>u, <1>c, <2>1, <3>1, <3>2 DEF ColumnExposureKnow, Walks, Unclear
    <3>4. ASSUME NEW e \in Truth.exposed, ColumnExposurePending(e) PROVE ColumnExposurePending(e)' \/ Done(e)
      <4>1. CASE e.on = Current
        <5>1. fault # "none" BY <2>2, <2>5, <4>1, ColumnExposurePoints
        <5> QED BY <5>1, ColumnExposurePoints DEF Done
      <4>2. CASE e.on # Current BY <2>1, <3>1, <3>2, <3>4, <4>2 DEF ColumnExposurePending, Walks
      <4> QED BY <4>1, <4>2
    <3> QED BY <1>s, <1>q, <2>1, <2>2, <2>5, <3>1, <3>3, <3>4 DEF Moved
  <2> QED BY <2>1, <2>4, <2>5
<1>7. CASE CE!RollBack("handoff")
  <2>1. /\ me.at = "finally" /\ Common' /\ Plays /\ me'.at = (IF me.thrown THEN "close" ELSE "handoff")
        /\ me'.thrown = me.thrown /\ me'.result = me.result
        /\ me'.loc = me.loc /\ me'.said = me.said /\ me'.todo = me.todo /\ (Counts' <=> Counts)
        /\ pg' \in {pg, RolledBack(pg)} /\ (pg.st \notin {"open", "aborted"} => pg' = pg)
    BY <1>b, <1>t, <1>7, RollsBack
  <2>2. (\A e : Done(e)' <=> Done(e)) /\ (Unclear' <=> Unclear) BY <1>u, <1>t, <1>c, <2>1, Quiet
  <2>3. ColumnExposureKnow' BY <1>u, <1>c, <2>1, <2>2 DEF ColumnExposureKnow
  <2>4. \A e \in Truth.exposed : ColumnExposurePending(e) /\ Counts => ColumnExposurePending(e)'
    BY <1>u, <2>1 DEF ColumnExposurePending
  <2> QED BY <1>t, <2>1, <2>2, <2>3, <2>4 DEF ColumnExposureInv
<1>8. CASE CE!Finish
  <2>1. me.at = "handoff" /\ pg' = pg /\ (me' = CE!To("close") \/ me' = CE!HandOff(CE!To("close")))
    BY <1>8, Zenon DEF CE!Finish, CE!Do
  <2>2. \A e : ~ColumnExposurePending(e) BY <2>1 DEF ColumnExposurePending
  <2>3. CASE me' = CE!To("close")
    <3>1. Walks("close", me.todo, me.said) /\ me'.loc = me.loc BY <1>e, <2>3
    <3>2. ColumnExposureKnow' BY <1>c, <3>1 DEF ColumnExposureKnow, Walks, Unclear
    <3> QED BY <1>s, <1>c, <2>1, <2>2, <3>1, <3>2 DEF Moved, Shape
  <2> QED BY <1>h, <2>1, <2>2, <2>3
<1>9. CASE CE!Connect
  <2>1. /\ me.at = "start" /\ Common' /\ Plays /\ me'.loc = me.loc /\ me'.said = {} /\ me'.todo = me.todo
        /\ \/ me'.at = "plan" /\ pg' = [pg EXCEPT !.st = "idle"] /\ pg'.st = "idle" /\ Whole(me'.todo)
           \/ me'.at = "done" /\ ~Counts' /\ pg' = pg
    BY <1>b, <1>t, <1>9, Connects
  <2>2. ColumnExposureKnow' BY <1>u, <1>c, <2>1 DEF ColumnExposureKnow, Unclear
  <2>3. Counts' => \A e : ColumnExposurePending(e)' BY <2>1 DEF ColumnExposurePending
  <2> QED BY <2>1, <2>2, <2>3 DEF ColumnExposureInv
<1>10. CASE CE!Disconnect
  <2>1. /\ me.at = "close" /\ Common' /\ Plays /\ me'.at = "done"
        /\ me'.loc = me.loc /\ me'.said = me.said /\ me'.todo = me.todo /\ (Counts' => Counts)
    BY <1>b, <1>t, <1>10, Disconnects
  <2>2. (\A e : Done(e)' <=> Done(e)) /\ (Unclear' <=> Unclear) BY <1>u, <1>t, <1>c, <2>1, Quiet
  <2>3. ColumnExposureKnow' BY <1>u, <1>c, <2>1, <2>2 DEF ColumnExposureKnow
  <2>4. \A e : ~ColumnExposurePending(e) BY <2>1 DEF ColumnExposurePending
  <2> QED BY <1>t, <2>1, <2>2, <2>3, <2>4 DEF ColumnExposureInv
<1> QED BY <1>1, <1>2, <1>3, <1>4, <1>5, <1>6, <1>7, <1>8, <1>9, <1>10 DEF CE!Next, CE!Check, CE!Run

\* So does a fault, whenever it strikes.
LEMMA ColumnExposureStruck ==
  ASSUME Common, ColumnExposureInv, world.guard = "column-exposure", Drop \/ Cancel
  PROVE  Common' /\ ColumnExposureInv'
<1>1. world' = world /\ fault = "none" BY DEF Drop, Cancel
<1>2. Truth'.exposed = Truth.exposed /\ Truth.blind \subseteq Truth'.blind /\ Truth.spurious \subseteq Truth'.spurious
  <2>1. Truth = CE!Truth /\ Truth' = CE!Truth' BY <1>1 DEF Truth
  <2>2. CE!Exposed' = CE!Exposed BY <1>1 DEF CE!Exposed, CE!Planable
  <2>3. CE!Blind \subseteq CE!Blind' BY <1>1, <2>2 DEF CE!Blind
  <2>4. CE!Spurious \subseteq CE!Spurious' BY <1>1 DEF CE!Spurious
  <2> QED BY <2>1, <2>2, <2>3, <2>4 DEF CE!Truth
<1>3. /\ me' = me /\ fault' # "none" /\ Common'
      /\ \/ fault' = "lost" /\ pg'.st = "lost" /\ pg'.who = "nobody" /\ pg'.saves = <<>>
         \/ fault' = "cancelled" /\ pg.st = "open" /\ pg'.st = "aborted" /\ pg' = Failed
      /\ \A e : Done(e) => Done(e)'
      /\ \A k, x : Untold(k, x)' <=> Untold(k, x)
      /\ Unclear' <=> Unclear
  BY <1>2, Striking
<1>4. ColumnExposureKnow' BY <1>1, <1>3 DEF ColumnExposureInv, ColumnExposureKnow, Todo
<1>5. \A e : ColumnExposurePending(e) => ColumnExposurePending(e)' BY <1>1, <1>3 DEF ColumnExposurePending, Todo
<1> QED BY <1>2, <1>3, <1>4, <1>5 DEF ColumnExposureInv, Counts

\* Column-exposure begins so.
LEMMA ColumnExposureBegins == ASSUME CE!Init PROVE Common /\ ColumnExposureInv /\ world.guard = "column-exposure"
<1>1. Begins("column-exposure") /\ me.loc = [plan |-> <<>>]
  BY WorldAssumption DEF Names, Begins, Whole, Count, Closed, CE!Init, CE!Enter, CE!Entered, CE!Closed
<1>2. Common BY <1>1, Beginning DEF Names
<1>3. ColumnExposureKnow BY <1>1 DEF ColumnExposureKnow, Begins, Unclear
<1> QED BY <1>1, <1>2, <1>3 DEF ColumnExposureInv, ColumnExposurePending, Begins

\* A step of nobody keeps it.
LEMMA ColumnExposureStays ==
  ASSUME Common, ColumnExposureInv, world.guard = "column-exposure", UNCHANGED vars
  PROVE  Common' /\ ColumnExposureInv'
<1>1. world' = world /\ fault' = fault /\ pg' = pg /\ me' = me BY DEF vars
<1>2. Truth' = Truth BY <1>1, ColumnExposureSame
<1>3. Common' /\ (\A e : Done(e)' <=> Done(e)) /\ (Counts' <=> Counts) BY <1>1, <1>2, Resting
<1>4. ColumnExposureKnow' /\ (\A e : ColumnExposurePending(e)' <=> ColumnExposurePending(e))
  BY <1>1, <1>2 DEF ColumnExposureInv, ColumnExposureKnow, ColumnExposurePending, Unclear, Todo, CE!Planable, Live,
      Elems, Lists, Count, Whole,
           Queue
<1> QED BY <1>2, <1>3, <1>4 DEF ColumnExposureInv

\* At the end nothing is pending, and a question is a target and an arm.
LEMMA ColumnExposureEnds ==
  ASSUME Common, world.guard = "column-exposure", ColumnExposureInv, me.at = "done", Counts
  PROVE  /\ \A e \in Truth.exposed : e = Key(e) /\ Done(e)
         /\ Truth.provable \subseteq Truth.exposed
<1>1. \A e : ~ColumnExposurePending(e) BY DEF ColumnExposurePending
<1> QED BY <1>1, ColumnExposurePoints DEF ColumnExposureInv, Key

-----------------------------------------------------------------------------
(* schema-tenancy.                                                         *)
\* Of a set of schemas: all can be reached by the tables that are tried; all are
\* usable ones of some group; these and those on the list are all that can be reached.
Reachable(S)   == \A k \in S : k \in 1..Count /\ ST!Reach(k, ST!ProbesPerSchema)
Ahead(S)       == \A k \in S : world.targets[k].usable /\ k \in UNION ST!Groups
Behind(S, T)   == \A k \in UNION ST!Groups : ST!Reach(k, ST!ProbesPerSchema) => k \in S \cup T

\* How often a schema is tried, and that its first n tries are in vain.
Tries(k)     == IF Len(world.targets[k].tries) < 3 THEN Len(world.targets[k].tries) ELSE 3
Missed(k, n) == \A i \in 1..n : world.targets[k].tries[i].read # "ok"

\* The schemas that can be reached are reached or on the list, and the tries on the
\* one at hand were in vain so far.
SchemaTenancyKnow ==
  /\ DOMAIN me.loc = {"tried", "refused", "reached"}
  /\ Unclear
  /\ me.loc.tried \in Nat
  /\ me.at \in {"start", "plan", "begin", "role"} => me.loc.tried = 0
  /\ Reachable(me.loc.reached)
  /\ me.at \in {"begin", "role", "next", "probe"} => Ahead(Todo)
  /\ me.at \in {"next", "probe"} /\ me.todo # <<>> => me.loc.tried <= Tries(Current)
  /\ me.at = "probe" => me.todo # <<>> /\ me.loc.tried >= 1 /\ (fault = "none" => Live)
  /\ me.at = "next" /\ me.todo # <<>> /\ fault = "none" => Missed(Current, me.loc.tried)
  /\ me.at = "probe" /\ fault = "none" => Missed(Current, me.loc.tried - 1)
  /\ me.at \in {"begin", "role", "next", "probe"} /\ fault = "none" => Behind(me.loc.reached, Todo)
  /\ me.at = "reset" /\ fault = "none" => Behind(me.loc.reached, {})
  /\ me.at \in {"finally", "judge"} /\ fault # "cancelled" /\ Counts => Behind(me.loc.reached, {})

\* The groups are judged at the end.
SchemaTenancyPending(e) == me.at \notin {"close", "done"}

\* Everything exposed is pending or done.
SchemaTenancyInv == SchemaTenancyKnow /\ (Counts => \A e \in Truth.exposed : SchemaTenancyPending(e) \/ Done(e))

\* Counting is the same in the module of the guard.
LEMMA TenancyCount == \A S : ST!Cardinality(S) = Cardinality(S)
  BY DEF ST!Cardinality, Cardinality

\* The groups and what can be reached depend on the database alone.
LEMMA TenancySame ==
  ASSUME world' = world
  PROVE  /\ ST!Groups' = ST!Groups
         /\ \A h, n : ST!Reached(h, n)' <=> ST!Reached(h, n)
         /\ \A S : Reachable(S)' <=> Reachable(S)
         /\ \A S : Ahead(S)' <=> Ahead(S)
         /\ \A S, T : Behind(S, T)' <=> Behind(S, T)
         /\ \A k : Tries(k)' = Tries(k)
         /\ \A k, n : Missed(k, n)' <=> Missed(k, n)
<1>1. ST!Groups' = ST!Groups BY DEF ST!Groups, ST!Alike, ST!Schemas
<1>2. \A k, n : ST!Reach(k, n)' <=> ST!Reach(k, n) BY DEF ST!Reach
<1>3. \A h, n : {k \in h : ST!Reach(k, n)'} = {k \in h : ST!Reach(k, n)} BY <1>2
<1>4. \A h, n : ST!Reached(h, n)' <=> ST!Reached(h, n) BY <1>3 DEF ST!Reached
<1> QED BY <1>1, <1>2, <1>4 DEF Reachable, Ahead, Behind, Tries, Missed, Count

\* Two of a set are two of a larger one.
LEMMA TwoOfMore ==
  ASSUME Count \in Nat, NEW S, NEW T, S \subseteq T, T \subseteq 1..Count, Cardinality(S) >= 2
  PROVE  Cardinality(T) >= 2
<1>0. IsFiniteSet(1..Count) BY FS_Interval
<1>1. IsFiniteSet(T) BY <1>0, FS_Subset
<1>2. Cardinality(S) <= Cardinality(T) /\ IsFiniteSet(S) BY <1>1, FS_Subset
<1>3. Cardinality(S) \in Nat /\ Cardinality(T) \in Nat BY <1>1, <1>2, FS_CardinalityType
<1> QED BY <1>2, <1>3

\* A group is the set of the schemas like its first one.
LEMMA TenancyGroups ==
  ASSUME Count \in Nat
  PROVE  \A g \in ST!Groups : /\ g \subseteq 1..Count /\ ST!First(g) \in g
                              /\ \A a \in g : g = {b \in ST!Schemas : ST!Alike(a, b)}
<1> SUFFICES ASSUME NEW g \in ST!Groups
             PROVE  /\ g \subseteq 1..Count /\ ST!First(g) \in g
                    /\ \A a \in g : g = {b \in ST!Schemas : ST!Alike(a, b)}
  OBVIOUS
<1>1. /\ g \subseteq 1..Count /\ Cardinality(g) >= 2
      /\ \A a \in g : g = {b \in ST!Schemas : ST!Alike(a, b)}
  BY TenancyCount DEF ST!Groups, ST!Schemas, Count
<1>2. g # {} BY <1>1, FS_EmptySet
<1>3. g \subseteq Nat BY <1>1
<1>4. \E k \in g : \A j \in g : k <= j BY <1>2, <1>3, Least
<1> QED BY <1>1, <1>4 DEF ST!First

\* What is exposed to schema-tenancy, and what of it is missed, misjudged or provable.
LEMMA SchemaTenancyPoints ==
  ASSUME world.guard = "schema-tenancy", Count \in Nat
  PROVE  /\ \A e \in Truth.exposed : e = [on |-> e.on, arm |-> "reach"]
         /\ \A g \in ST!Groups : Cardinality({k \in g : ST!Reach(k, 4)}) >= 2 => [on |-> ST!First(g), arm |-> "reach"] \in Truth.exposed
         /\ \A e \in Truth.exposed \ Truth.blind :
              /\ fault # "cancelled"
              /\ \E g \in ST!Groups : e.on = ST!First(g) /\ Cardinality({k \in g : ST!Reach(k, ST!ProbesPerSchema)}) >= 2
         /\ Truth.provable = Truth.exposed \ Truth.blind
<1>1. Truth.exposed = ST!Exposed /\ Truth.blind = ST!Blind /\ Truth.provable = ST!Provable
  BY DEF Truth, ST!Truth
<1>2. /\ \A e \in Truth.exposed : e = [on |-> e.on, arm |-> "reach"] /\ \E g \in ST!Groups : e.on = ST!First(g)
      /\ \A g \in ST!Groups : Cardinality({k \in g : ST!Reach(k, 4)}) >= 2 => [on |-> ST!First(g), arm |-> "reach"] \in Truth.exposed
  <2>1. \A h, n : ST!Reached(h, n) <=> Cardinality({k \in h : ST!Reach(k, n)}) >= 2 BY TenancyCount DEF ST!Reached
  <2>2. ST!Exposed = {[on |-> ST!First(h), arm |-> "reach"] : h \in {x \in ST!Groups : ST!Reached(x, 4)}}
    BY DEF ST!Exposed
  <2>3. ASSUME NEW e \in Truth.exposed PROVE e = [on |-> e.on, arm |-> "reach"] /\ \E g \in ST!Groups : e.on = ST!First(g)
    BY <1>1, <2>2, <2>3
  <2>4. ASSUME NEW g \in ST!Groups, Cardinality({k \in g : ST!Reach(k, 4)}) >= 2
        PROVE  [on |-> ST!First(g), arm |-> "reach"] \in Truth.exposed
    BY <1>1, <2>1, <2>2, <2>4
  <2> QED BY <2>3, <2>4
<1>3. ASSUME NEW e \in Truth.exposed \ Truth.blind
      PROVE  /\ fault # "cancelled"
             /\ \E g \in ST!Groups : e.on = ST!First(g) /\ Cardinality({k \in g : ST!Reach(k, ST!ProbesPerSchema)}) >= 2
  <2>1. /\ fault # "cancelled"
        /\ \E g \in ST!Groups : e.on \in g /\ Cardinality({k \in g : ST!Reach(k, ST!ProbesPerSchema)}) >= 2
    BY <1>1, <1>3, TenancyCount DEF ST!Blind, ST!Reached
  <2>2. PICK g \in ST!Groups : e.on \in g /\ Cardinality({k \in g : ST!Reach(k, ST!ProbesPerSchema)}) >= 2 BY <2>1
  <2>3. PICK h \in ST!Groups : e.on = ST!First(h) BY <1>2
  <2>4. e.on \in h BY <2>3, TenancyGroups
  <2>5. g = {b \in ST!Schemas : ST!Alike(e.on, b)} BY <2>2, TenancyGroups
  <2>6. h = {b \in ST!Schemas : ST!Alike(e.on, b)} BY <2>4, TenancyGroups
  <2> QED BY <2>1, <2>2, <2>3, <2>5, <2>6
<1> QED BY <1>1, <1>2, <1>3 DEF ST!Provable

\* What is exposed to schema-tenancy depends on the database and the fault alone.
LEMMA SchemaTenancySame ==
  ASSUME world.guard = "schema-tenancy", world' = world, fault' = fault
  PROVE  Truth' = Truth
<1>1. Truth = ST!Truth BY DEF Truth
<1>2. Truth' = ST!Truth' BY DEF Truth
<1>3. ST!Exposed' = ST!Exposed BY DEF ST!Alike, ST!Exposed, ST!First, ST!Groups, ST!Reach, ST!Reached, ST!Schemas
<1>4. ST!Blind' = ST!Blind BY <1>3 DEF ST!Alike, ST!Blind, ST!Groups, ST!ProbesPerSchema, ST!Reach, ST!Reached,
    ST!Schemas
<1>5. ST!Provable' = ST!Provable BY <1>3, <1>4 DEF ST!Provable
<1>6. ST!Spurious' = ST!Spurious BY DEF ST!Spurious
<1>7. ST!Fragile' = ST!Fragile BY DEF ST!Fragile
<1> QED BY <1>1, <1>2, <1>3, <1>4, <1>5, <1>6, <1>7 DEF ST!Truth

\* A step of schema-tenancy changes neither the database nor the fault.
LEMMA SchemaTenancyRest == ASSUME ST!Next PROVE world' = world /\ fault' = fault
BY DEF ST!Await, ST!Begin, ST!Check, ST!ClassifyGroups, ST!Connect, ST!Disconnect, ST!Do, ST!Guarded, ST!Next,
     ST!NextAttempt, ST!PlanSchemas, ST!ProbeTable, ST!ResetRole, ST!RollBack, ST!Run, ST!SwitchRole

\* A step of schema-tenancy keeps what it knows, and is one its runner expects.
LEMMA SchemaTenancyAnswers ==
  ASSUME Common, SchemaTenancyInv, world.guard = "schema-tenancy", ST!Next
  PROVE  Common' /\ SchemaTenancyInv' /\ Plays
<1>u. world' = world /\ fault' = fault BY SchemaTenancyRest
<1>t. Truth' = Truth BY <1>u, SchemaTenancySame
<1>b. /\ ST!Connect <=> Connect
      /\ ST!Disconnect <=> Disconnect
      /\ ST!RollBack("judge") <=> RollBack("judge")
      /\ ST!SwitchRole("next") <=> SwitchRole("next")
  BY DEF ST!AsRole, AsRole, ST!Await, Await, ST!Closed, Closed, ST!Connect, Connect, ST!Disconnect, Disconnect,
         ST!Do, Do, ST!Failed, Failed, ST!LeaksIn, LeaksIn, ST!Live, Live, ST!RollBack, RollBack, ST!RolledBack,
         RolledBack, ST!SwitchRole, SwitchRole, ST!Thrown, Thrown, ST!To, To, ST!Verdict, Verdict
<1>o. /\ ST!Live <=> Live
      /\ ST!Failed = Failed
      /\ ST!Began(pg) = Began(pg)
      /\ ST!Saved(pg) = Saved(pg)
      /\ ST!Released(pg) = Released(pg)
      /\ ST!Undone(pg) = Undone(pg)
      /\ ST!Undone(ST!Failed) = Undone(Failed)
      /\ ST!RolledBack(pg) = RolledBack(pg)
      /\ \A x : ST!AsRole(pg, x) = AsRole(pg, x)
      /\ \A S : ST!Kept(S) = Kept(S)
      /\ ST!Target = Target
      /\ ST!Current = Current
  BY DEF ST!Live, Live, ST!Failed, Failed, ST!Began, Began, ST!Saved, Saved, ST!Released, Released, ST!Undone,
         Undone, ST!RolledBack, RolledBack, ST!AsRole, AsRole, ST!Kept, Kept, ST!Target, Target, ST!Current,
         Current, ST!Closed, Closed
<1>c. Session /\ Shape /\ Meant /\ SchemaTenancyKnow BY DEF Common, SchemaTenancyInv
<1>k. DOMAIN me.loc = {"tried", "refused", "reached"} BY <1>c DEF SchemaTenancyKnow
<1>q. me.todo # <<>> =>
        /\ Current \in Todo /\ Current \in 1..Count /\ Queue(Tail(me.todo))
        /\ Elems(Tail(me.todo)) = Todo \ {Current}
  BY <1>c, Popping DEF Shape, Todo, Current
<1>x. Todo \subseteq 1..Count BY <1>c DEF Shape, Queue, Todo, Elems
<1>w. /\ ST!Groups' = ST!Groups
      /\ \A S : Reachable(S)' <=> Reachable(S)
      /\ \A S : Ahead(S)' <=> Ahead(S)
      /\ \A S, T : Behind(S, T)' <=> Behind(S, T)
      /\ \A k : Tries(k)' = Tries(k)
      /\ \A k, n : Missed(k, n)' <=> Missed(k, n)
  BY <1>u, TenancySame
<1>z. (\A k : Missed(k, 0)) /\ (me.todo # <<>> => Tries(Current) \in 0..3 /\ (Tries(Current) < 3 => Tries(Current) = Len(world.targets[Current].tries)))
  <2>1. \A k \in 1..Count : Len(world.targets[k].tries) \in Nat BY <1>c, TenancyAssumption DEF Shape, Count
  <2>2. ASSUME NEW k \in 1..Count PROVE Tries(k) \in 0..3 /\ (Tries(k) < 3 => Tries(k) = Len(world.targets[k].tries))
    <3>1. PICK n \in Nat : n = Len(world.targets[k].tries) BY <2>1
    <3>2. CASE n < 3
      <4>1. Tries(k) = n BY <3>1, <3>2 DEF Tries
      <4>2. n \in 0..3 BY <3>2
      <4> QED BY <3>1, <4>1, <4>2
    <3>3. CASE ~(n < 3)
      <4>1. Tries(k) = 3 BY <3>1, <3>3 DEF Tries
      <4> QED BY <4>1
    <3> QED BY <3>2, <3>3
  <2>3. \A k : Missed(k, 0) BY DEF Missed
  <2> QED BY <1>q, <2>2, <2>3
\* Leaving.
<1>l. ASSUME Leaves, me.at \notin {"start", "done"}, pg' \in {pg, Failed} PROVE Common' /\ SchemaTenancyInv' /\ Plays
  <2>1. Shape' /\ Meant' /\ ~Counts' /\ Plays BY <1>u, <1>t, <1>l, Leaving
  <2>2. Session' BY <1>u, <1>c, <1>l, Moving DEF Moved, Leaves
  <2>4. (Unclear' <=> Unclear) /\ (\A k, x : Untold(k, x)' <=> Untold(k, x)) BY <1>u, <1>t, <1>c, <1>l, Quiet
      DEF Leaves
  <2>5. pg'.st \in {pg.st, IF pg.st = "open" THEN "aborted" ELSE pg.st} BY <1>c, <1>l DEF Failed, Session, Proper,
      Sound
  <2>3. SchemaTenancyKnow'
    <3>1. me'.at \in {"finally", "close"} /\ me'.todo = me.todo /\ me'.said = me.said /\ me'.loc = me.loc /\ DOMAIN me' = DOMAIN me
      BY <1>l DEF Leaves
    <3> QED BY <1>u, <1>c, <1>l, <2>1, <2>4, <2>5, <3>1, <1>w DEF SchemaTenancyKnow
  <2> QED BY <2>1, <2>2, <2>3 DEF Common, SchemaTenancyInv
\* Going on without an answer.
<1>s. ASSUME NEW at, NEW todo, Walks(at, todo, me.said), Queue(todo), Moved, me.at \notin {"start", "done"},
             at \notin {"start", "plan", "done"}, SchemaTenancyKnow',
             \A e \in Truth.exposed : Counts /\ SchemaTenancyPending(e) => SchemaTenancyPending(e)' \/ Done(e)
      PROVE  Common' /\ SchemaTenancyInv' /\ Plays
  <2>1. Shape' BY <1>u, <1>c, <1>s, Going
  <2>2. Meant' /\ \A e : Done(e)' <=> Done(e) BY <1>u, <1>t, <1>c, <1>s, Quiet DEF Walks
  <2>3. Session' BY <1>u, <1>c, <1>s, Moving DEF Walks
  <2>4. (Counts' => Counts) /\ Plays BY <1>s DEF Walks, Counts, Plays
  <2> QED BY <1>t, <1>s, <2>1, <2>2, <2>3, <2>4 DEF Common, SchemaTenancyInv
<1>e. /\ me' = ST!Thrown => Leaves
      /\ me' = ST!Ending(me, "skip") => Leaves
      /\ \A l : me' = ST!To(l) => Walks(l, me.todo, me.said) /\ me'.loc = me.loc
  BY <1>c DEF Shape, ST!Thrown, ST!Ending, ST!To, Leaves, Walks
<1>r. ST!Attempts = Tries(Current) /\ ST!Target = world.targets[Current] /\ ST!Schemas = 1..Count /\ ST!ProbesPerSchema = 3
  BY <1>o DEF ST!Attempts, Tries, ST!ProbesPerSchema, Target, Current, ST!Schemas, Count
\* A statement that goes on.
<1>f. ASSUME NEW at \in {"role", "next", "probe", "reset", "finally"},
             Walks(at, me.todo, me.said), DOMAIN me'.loc = DOMAIN me.loc, Moved, me.at \notin {"start", "done"},
             SchemaTenancyKnow'
      PROVE  Common' /\ SchemaTenancyInv' /\ Plays
  <2>1. \A e : SchemaTenancyPending(e)' BY <1>f DEF SchemaTenancyPending, Walks
  <2>2. Queue(me.todo) BY <1>c DEF Shape
  <2> QED BY <1>s, <1>f, <2>1, <2>2
\* Going on with several answers.
<1>m. ASSUME NEW at, NEW todo, NEW S, Walks(at, todo, me.said \cup S), Queue(todo), Moved, me.at \notin {"start", "done"},
             at \notin {"start", "plan", "done"}, SchemaTenancyKnow',
             \A a \in S : Meaning(a) /\ a.says # "clear",
             \A a \in S, b \in me.said : a.says = "leak" /\ b.on = a.on /\ b.arm = a.arm => b.says # "clear",
             \A e \in Truth.exposed : Counts /\ SchemaTenancyPending(e) =>
                \/ SchemaTenancyPending(e)' \/ Done(e)
                \/ e \in Truth.blind
                \/ \E a \in S : a.on = e.on /\ (fault = "none" /\ e \in Truth.provable => a.arm = e.arm /\ a.says = "leak")
      PROVE  Common' /\ SchemaTenancyInv' /\ Plays
  <2>1. Shape' BY <1>u, <1>c, <1>m, Going
  <2>2. /\ Meant'
        /\ \A e : Done(e) => Done(e)'
        /\ \A e : (\E a \in S : a.on = e.on) => Heard(e)'
        /\ \A e : (\E a \in S : a.on = e.on /\ a.arm = e.arm /\ a.says = "leak") => Done(e)'
    BY <1>u, <1>t, <1>c, <1>m, TellingAll DEF Walks
  <2>3. Session' BY <1>u, <1>c, <1>m, Moving DEF Walks
  <2>4. (Counts' => Counts) /\ Plays BY <1>m DEF Walks, Counts, Plays
  <2>5. \A e \in Truth.exposed : e \in Truth.blind => Done(e)' BY <1>u, <1>t, <1>c, SchemaTenancyPoints DEF Done,
      Shape
  <2>6. ASSUME NEW e \in Truth.exposed, Counts, SchemaTenancyPending(e) PROVE SchemaTenancyPending(e)' \/ Done(e)'
    <3>1. CASE \E a \in S : a.on = e.on /\ (fault = "none" /\ e \in Truth.provable => a.arm = e.arm /\ a.says = "leak")
      <4>1. Heard(e)' BY <2>2, <3>1
      <4>2. fault = "none" /\ e \in Truth.provable => Done(e)' BY <2>2, <3>1
      <4>3. ~(fault = "none" /\ e \in Truth.provable) => Done(e)' BY <1>u, <1>t, <4>1 DEF Done
      <4> QED BY <4>2, <4>3
    <3> QED BY <1>m, <2>2, <2>5, <2>6, <3>1
  <2> QED BY <1>t, <1>m, <2>1, <2>2, <2>3, <2>4, <2>6 DEF Common, SchemaTenancyInv
\* Notes, and nothing else about it.
<1>n. ASSUME NEW S, \A a \in S : a = [on |-> a.on, arm |-> a.arm, says |-> "note"], NEW at \in {"begin", "next"}, NEW todo,
             Queue(todo), Walks(at, todo, me.said \cup S), Moved, me.at \notin {"start", "done"},
             SchemaTenancyKnow'
      PROVE  Common' /\ SchemaTenancyInv' /\ Plays
  <2>1. \A e : SchemaTenancyPending(e)' BY <1>n DEF SchemaTenancyPending, Walks
  <2>2. \A a \in S : a.says = "note" BY <1>n
  <2>3. \A a \in S : Meaning(a) /\ a.says # "clear" BY <1>n, <2>2 DEF Meaning
  <2> QED BY <1>m, <1>n, <2>1, <2>2, <2>3
<1>v. \A S : (\A a \in S : a = [on |-> a.on, arm |-> a.arm, says |-> "note"]) /\ me'.said = me.said \cup S => Unclear'
  BY <1>c DEF SchemaTenancyKnow, Unclear
<1>1. CASE ST!PlanSchemas
  <2> DEFINE notes == [on : {p[1] : p \in ST!NearMissPairs}, arm : {"near"}, says : {"note"}]
             usable == {k \in UNION ST!Groups : world.targets[k].usable}
             several == IF ST!Cardinality(ST!Groups) > 1 THEN [on : {0}, arm : {"groups"}, says : {"note"}] ELSE {}
             m == [me EXCEPT !.said = notes \cup several, !.todo = Kept(usable), !.at = "begin"]
             n == ST!Ending([me EXCEPT !.said = notes], "skip")
  <2>1. /\ me.at = "plan"
        /\ \/ pg' = pg /\ me' = n
           \/ pg' = pg /\ me' = m
           \/ pg' = Failed /\ me' = ST!Thrown
    BY <1>1, <1>o, Zenon DEF ST!PlanSchemas, ST!Await, ST!Do
  <2>2. /\ DOMAIN m = DOMAIN me /\ m.at = "begin" /\ m.todo = Kept(usable) /\ m.said = notes \cup several
        /\ m.thrown = me.thrown /\ m.result = me.result /\ m.loc = me.loc
    BY <1>c DEF Shape
  <2>3. /\ DOMAIN n = DOMAIN me /\ n.at = "close" /\ n.todo = me.todo /\ n.said = notes
        /\ n.thrown = me.thrown /\ n.result = "skip" /\ n.loc = me.loc
    BY <1>c DEF ST!Ending, Shape
  <2>4. me.said = {} /\ Whole(me.todo) BY <1>c, <2>1 DEF Shape
  <2>5. \A a \in notes \cup several : a = [on |-> a.on, arm |-> a.arm, says |-> "note"] OBVIOUS
  <2>6. Queue(Kept(usable)) /\ Elems(Kept(usable)) = (1..Count) \cap usable BY <1>c, <2>4, Keeping DEF Shape
  <2>7. Elems(Kept(usable)) = usable
    <3>1. UNION ST!Groups \subseteq 1..Count BY <1>r DEF ST!Groups
    <3> QED BY <2>6, <3>1
  <2> HIDE DEF m, n, notes, several
  <2>8. CASE pg' = pg /\ me' = n
    <3>1. PICK S : S = notes OBVIOUS
    <3>2. me'.said = me.said \cup S BY <2>3, <2>4, <2>8, <3>1
    <3>3. \A a \in S : a = [on |-> a.on, arm |-> a.arm, says |-> "note"] BY <2>5, <3>1
    <3>4. \A a \in S : Meaning(a) /\ a.says = "note" BY <3>3 DEF Meaning
    <3>5. Moved BY <2>8 DEF Moved
    <3>6. /\ DOMAIN me' = DOMAIN me /\ me'.at = "close" /\ me'.todo = me.todo /\ me'.thrown = me.thrown /\ me'.result = "skip"
          /\ me'.loc = me.loc
      BY <2>3, <2>8
    <3>7. Common' /\ ~Counts' /\ Plays /\ (Unclear => Unclear')
      BY <1>u, <1>t, <1>c, <2>1, <2>4, <3>2, <3>4, <3>5, <3>6, Dropping DEF Common
    <3>8. SchemaTenancyKnow' BY <1>u, <1>w, <1>c, <3>6, <3>7 DEF SchemaTenancyKnow
    <3> QED BY <3>7, <3>8 DEF SchemaTenancyInv
  <2>9. CASE pg' = pg /\ me' = m
    <3>1. PICK S, todo : S = notes \cup several /\ todo = Kept(usable) OBVIOUS
    <3>2. me'.said = me.said \cup S BY <2>2, <2>4, <2>9, <3>1
    <3>3. \A a \in S : a = [on |-> a.on, arm |-> a.arm, says |-> "note"] BY <2>5, <3>1
    <3>4. Walks("begin", todo, me.said \cup S) /\ Queue(todo) /\ Elems(todo) = usable BY <2>2, <2>6, <2>7, <2>9, <3>1,
        <3>2 DEF Walks
    <3>5. Todo' = usable BY <3>4 DEF Todo, Walks
    <3>6. Ahead(usable) /\ \A R : Behind(R, usable) BY DEF Ahead, Behind, ST!Reach
    <3> HIDE DEF usable
    <3>7. Unclear' BY <1>v, <3>2, <3>3
    <3>8. SchemaTenancyKnow' BY <1>u, <1>w, <1>c, <2>1, <2>2, <2>9, <3>5, <3>6, <3>7 DEF SchemaTenancyKnow
    <3>9. Moved BY <2>9 DEF Moved
    <3> QED BY <1>n, <2>1, <3>3, <3>4, <3>8, <3>9
  <2> QED BY <1>e, <1>l, <2>1, <2>8, <2>9
<1>2. CASE ST!Begin
  <2>1. /\ me.at = "begin"
        /\ \/ Live /\ pg' = Began(pg) /\ me' = ST!To("role")
           \/ pg' = Failed /\ me' = ST!Thrown
    BY <1>2, <1>b, <1>o, Zenon DEF ST!Begin, ST!Await, ST!Do
  <2>2. CASE Live /\ pg' = Began(pg) /\ me' = ST!To("role")
    <3>1. Walks("role", me.todo, me.said) /\ me'.loc = me.loc BY <1>e, <2>2
    <3>2. Moved /\ fault \in {"none", "cancelled"} BY <1>c, <2>1, <2>2 DEF Moved, Roles, Live, Session
    <3>3. Todo' = Todo BY <3>1 DEF Todo, Walks
    <3>4. SchemaTenancyKnow' BY <1>u, <1>w, <1>c, <2>1, <3>1, <3>2, <3>3 DEF SchemaTenancyKnow, Walks, Unclear
    <3> QED BY <1>f, <2>1, <3>1, <3>2, <3>4
  <2> QED BY <1>e, <1>l, <2>1, <2>2
<1>5. CASE ST!ResetRole
  <2>1. /\ me.at = "reset"
        /\ \/ Live /\ pg' = AsRole(pg, "conn") /\ me' = ST!To("finally")
           \/ pg' = Failed /\ me' = ST!Thrown
    BY <1>5, <1>b, <1>o, Zenon DEF ST!ResetRole, ST!Await, ST!Do
  <2>2. CASE Live /\ pg' = AsRole(pg, "conn") /\ me' = ST!To("finally")
    <3>1. Walks("finally", me.todo, me.said) /\ me'.loc = me.loc BY <1>e, <2>2
    <3>2. Moved /\ fault \in {"none", "cancelled"} BY <1>c, <2>1, <2>2 DEF Moved, Roles, Live, Session
    <3>3. Todo' = Todo BY <3>1 DEF Todo, Walks
    <3>4. SchemaTenancyKnow' BY <1>u, <1>w, <1>c, <2>1, <3>1, <3>2, <3>3 DEF SchemaTenancyKnow, Walks, Unclear
    <3> QED BY <1>f, <2>1, <3>1, <3>2, <3>4
  <2> QED BY <1>e, <1>l, <2>1, <2>2
<1>3. CASE ST!NextAttempt
  <2> DEFINE m1 == ST!NextSchema(me)
             m2 == ST!NextSchema(ST!Said(me, Current, "disagrees", "note"))
             m3 == [ST!To("probe") EXCEPT !.loc.tried = @ + 1]
             a == [on |-> Current, arm |-> "disagrees", says |-> "note"]
  <2>1. /\ me.at = "next"
        /\ \/ pg' = pg /\ me.todo = <<>> /\ me' = ST!To("reset")
           \/ pg' = pg /\ me.todo # <<>> /\ me.loc.tried = Tries(Current) /\ me' \in {m1, m2}
           \/ Live /\ pg' = Saved(pg) /\ me.todo # <<>> /\ me.loc.tried < Tries(Current) /\ me' = m3
           \/ pg' = Failed /\ me' = ST!Thrown
    BY <1>3, <1>b, <1>o, <1>r DEF ST!NextAttempt, ST!Await, ST!Do
  <2>2. /\ DOMAIN m1 = DOMAIN me /\ m1.at = "next" /\ m1.todo = Tail(me.todo) /\ m1.said = me.said
        /\ m1.thrown = me.thrown /\ m1.result = me.result
        /\ DOMAIN m1.loc = DOMAIN me.loc /\ m1.loc.tried = 0 /\ m1.loc.reached = me.loc.reached
    BY <1>c, <1>k DEF ST!NextSchema, ST!Onward, Shape
  <2>3. /\ DOMAIN m2 = DOMAIN me /\ m2.at = "next" /\ m2.todo = Tail(me.todo) /\ m2.said = me.said \cup {a}
        /\ m2.thrown = me.thrown /\ m2.result = me.result
        /\ DOMAIN m2.loc = DOMAIN me.loc /\ m2.loc.tried = 0 /\ m2.loc.reached = me.loc.reached
    BY <1>c, <1>k DEF ST!NextSchema, ST!Onward, ST!Said, Shape
  <2>4. /\ DOMAIN m3 = DOMAIN me /\ m3.at = "probe" /\ m3.todo = me.todo /\ m3.said = me.said
        /\ m3.thrown = me.thrown /\ m3.result = me.result
        /\ DOMAIN m3.loc = DOMAIN me.loc /\ m3.loc.tried = me.loc.tried + 1 /\ m3.loc.reached = me.loc.reached
    BY <1>c, <1>k DEF ST!To, Shape
  <2>5. a = [on |-> a.on, arm |-> a.arm, says |-> "note"] OBVIOUS
  <2> HIDE DEF m1, m2, m3, a
  <2>6. CASE pg' = pg /\ me.todo = <<>> /\ me' = ST!To("reset")
    <3>1. Walks("reset", me.todo, me.said) /\ me'.loc = me.loc BY <1>e, <2>6
    <3>2. Todo = {} BY <2>6 DEF Todo, Elems
    <3>3. SchemaTenancyKnow' BY <1>u, <1>w, <1>c, <2>1, <3>1, <3>2 DEF SchemaTenancyKnow, Walks, Unclear
    <3>4. Moved BY <2>6 DEF Moved
    <3> QED BY <1>f, <2>1, <3>1, <3>3, <3>4
  <2>7. CASE pg' = pg /\ me.todo # <<>> /\ me.loc.tried = Tries(Current) /\ me' \in {m1, m2}
    <3>1. PICK S : (S = {} \/ S = {a}) /\ me'.said = me.said \cup S
      <4>1. CASE me' = m1
        <5>1. me'.said = me.said \cup {} BY <2>2, <4>1
        <5> QED BY <5>1
      <4>2. CASE me' = m2 BY <2>3, <4>2
      <4> QED BY <2>7, <4>1, <4>2
    <3>2. /\ DOMAIN me' = DOMAIN me /\ me'.at = "next" /\ me'.todo = Tail(me.todo) /\ me'.thrown = me.thrown
          /\ me'.result = me.result /\ DOMAIN me'.loc = DOMAIN me.loc /\ me'.loc.tried = 0
          /\ me'.loc.reached = me.loc.reached
      BY <2>2, <2>3, <2>7
    <3>3. \A x \in S : x = [on |-> x.on, arm |-> x.arm, says |-> "note"] BY <2>5, <3>1
    <3>4. Todo' = Todo \ {Current} BY <1>q, <2>7, <3>2 DEF Todo
    <3>5. fault = "none" => ~ST!Reach(Current, 3)
      <4>1. fault = "none" => Missed(Current, Tries(Current)) BY <1>c, <2>1, <2>7 DEF SchemaTenancyKnow
      <4>2. \A i \in 1..3 : i <= Len(world.targets[Current].tries) => i \in 1..Tries(Current)
        <5>1. Len(world.targets[Current].tries) \in Nat BY <1>c, <1>q, <2>7, TenancyAssumption DEF Shape, Count
        <5> QED BY <5>1 DEF Tries
      <4> QED BY <4>1, <4>2 DEF Missed, ST!Reach
    <3>6. Ahead(Todo') /\ (fault = "none" => Behind(me.loc.reached, Todo'))
      BY <1>c, <1>r, <2>1, <3>4, <3>5 DEF SchemaTenancyKnow, Ahead, Behind
    <3>7. Unclear' BY <1>v, <3>1, <3>3
    <3>8. me'.todo # <<>> => 0 <= Tries(Current')
      <4>1. ASSUME me'.todo # <<>> PROVE Current' \in 1..Count
        BY <1>c, <1>q, <2>7, <3>2, <4>1, Popping DEF Current, Shape
      <4>2. \A k \in 1..Count : Len(world.targets[k].tries) \in Nat BY <1>c, TenancyAssumption DEF Shape, Count
      <4> QED BY <4>1, <4>2 DEF Tries
    <3>9. SchemaTenancyKnow' BY <1>u, <1>w, <1>z, <1>c, <2>1, <3>2, <3>6, <3>7, <3>8 DEF SchemaTenancyKnow
    <3>10. Walks("next", Tail(me.todo), me.said \cup S) /\ Moved /\ Queue(Tail(me.todo))
      BY <1>q, <2>7, <3>1, <3>2 DEF Walks, Moved
    <3> QED BY <1>n, <2>1, <3>3, <3>9, <3>10
  <2>8. CASE Live /\ pg' = Saved(pg) /\ me.todo # <<>> /\ me.loc.tried < Tries(Current) /\ me' = m3
    <3>1. Walks("probe", me.todo, me.said) BY <2>4, <2>8 DEF Walks
    <3>2. Live' BY <1>c, <2>8 DEF Live, Saved, Session, Proper, Sound
    <3>3. me.loc.tried \in Nat /\ me.loc.tried + 1 <= Tries(Current) /\ me.loc.tried + 1 - 1 = me.loc.tried
      BY <1>c, <1>z, <2>8 DEF SchemaTenancyKnow
    <3>4. Todo' = Todo /\ Current' = Current BY <3>1 DEF Todo, Current, Walks
    <3>5. SchemaTenancyKnow' BY <1>u, <1>w, <1>c, <2>1, <2>4, <2>8, <3>1, <3>2, <3>3, <3>4 DEF SchemaTenancyKnow,
        Walks, Unclear
    <3>6. Moved BY <2>8 DEF Moved
    <3> QED BY <1>f, <2>1, <2>4, <2>8, <3>1, <3>5, <3>6
  <2> QED BY <1>e, <1>l, <2>1, <2>6, <2>7, <2>8
<1>4. CASE ST!ProbeTable
  <2> DEFINE try == world.targets[Current].tries[me.loc.tried]
             m1 == ST!NextSchema([me EXCEPT !.loc.reached = @ \cup {Current}])
             m2 == [ST!To("next") EXCEPT !.loc.refused = @ \/ try.grant]
             m3 == ST!Said(ST!To("next"), Current, "probe", "note")
             a == [on |-> Current, arm |-> "probe", says |-> "note"]
  <2>1. /\ me.at = "probe"
        /\ \/ Live /\ try.read = "ok" /\ pg' = Released(pg) /\ me' = m1
           \/ (~Live \/ try.read # "ok") /\ pg' = Undone(Failed) /\ me' \in {m2, m3}
    BY <1>4, <1>b, <1>o, <1>r DEF ST!ProbeTable, ST!Guarded, ST!Do
  <2>2. /\ DOMAIN m1 = DOMAIN me /\ m1.at = "next" /\ m1.todo = Tail(me.todo) /\ m1.said = me.said
        /\ m1.thrown = me.thrown /\ m1.result = me.result
        /\ DOMAIN m1.loc = DOMAIN me.loc /\ m1.loc.tried = 0 /\ m1.loc.reached = me.loc.reached \cup {Current}
    BY <1>c, <1>k DEF ST!NextSchema, ST!Onward, Shape
  <2>3. /\ DOMAIN m2 = DOMAIN me /\ m2.at = "next" /\ m2.todo = me.todo /\ m2.said = me.said
        /\ m2.thrown = me.thrown /\ m2.result = me.result
        /\ DOMAIN m2.loc = DOMAIN me.loc /\ m2.loc.tried = me.loc.tried /\ m2.loc.reached = me.loc.reached
    <3> DEFINE b == me.loc.refused \/ try.grant
    <3>1. m2 = [ST!To("next") EXCEPT !.loc = [me.loc EXCEPT !.refused = b]] BY <1>c, <1>k, Zenon DEF ST!To, Shape
    <3> HIDE DEF m2, b
    <3> QED BY <1>c, <1>k, <3>1 DEF ST!To, Shape
  <2>4. /\ DOMAIN m3 = DOMAIN me /\ m3.at = "next" /\ m3.todo = me.todo /\ m3.said = me.said \cup {a}
        /\ m3.thrown = me.thrown /\ m3.result = me.result
        /\ DOMAIN m3.loc = DOMAIN me.loc /\ m3.loc.tried = me.loc.tried /\ m3.loc.reached = me.loc.reached
    BY <1>c, <1>k DEF ST!To, ST!Said, Shape
  <2>5. a = [on |-> a.on, arm |-> a.arm, says |-> "note"] OBVIOUS
  <2>6. me.todo # <<>> /\ me.loc.tried \in Nat /\ me.loc.tried >= 1 /\ me.loc.tried <= Tries(Current) /\ (fault = "none" => Live)
    BY <1>c, <2>1 DEF SchemaTenancyKnow
  <2> HIDE DEF m1, m2, m3, a
  <2>7. CASE Live /\ try.read = "ok" /\ pg' = Released(pg) /\ me' = m1
    <3>1. PICK S : S = {} OBVIOUS
    <3>2. Walks("next", Tail(me.todo), me.said \cup S) /\ Moved /\ Queue(Tail(me.todo))
      BY <1>q, <2>2, <2>6, <2>7, <3>1 DEF Walks, Moved
    <3>3. ST!Reach(Current, 3)
      <4>1. me.loc.tried \in 1..3 /\ me.loc.tried <= Len(world.targets[Current].tries)
        <5>1. Len(world.targets[Current].tries) \in Nat BY <1>c, <1>q, <2>6, TenancyAssumption DEF Shape, Count
        <5> QED BY <2>6, <5>1 DEF Tries
      <4>2. world.targets[Current].usable BY <1>c, <1>q, <2>1, <2>6 DEF SchemaTenancyKnow, Ahead
      <4> QED BY <2>7, <4>1, <4>2 DEF ST!Reach
    <3>4. Reachable(me.loc.reached \cup {Current}) BY <1>c, <1>q, <1>r, <2>6, <3>3 DEF SchemaTenancyKnow, Reachable
    <3>5. Todo' = Todo \ {Current} BY <1>q, <2>6, <3>2 DEF Todo, Walks
    <3>6. Ahead(Todo') /\ (fault = "none" => Behind(me.loc.reached \cup {Current}, Todo'))
      BY <1>c, <2>1, <3>5 DEF SchemaTenancyKnow, Ahead, Behind
    <3>7. Unclear' BY <1>v, <3>1, <3>2 DEF Walks
    <3>8. me'.todo # <<>> => 0 <= Tries(Current')
      <4>1. ASSUME me'.todo # <<>> PROVE Current' \in 1..Count
        BY <1>c, <1>q, <2>6, <3>2, <4>1, Popping DEF Current, Shape, Walks
      <4>2. \A k \in 1..Count : Len(world.targets[k].tries) \in Nat BY <1>c, TenancyAssumption DEF Shape, Count
      <4> QED BY <4>1, <4>2 DEF Tries
    <3>9. /\ DOMAIN me' = DOMAIN me /\ me'.at = "next" /\ DOMAIN me'.loc = DOMAIN me.loc /\ me'.loc.tried = 0
          /\ me'.loc.reached = me.loc.reached \cup {Current}
      BY <2>2, <2>7
    <3> HIDE DEF try
    <3>10. SchemaTenancyKnow' BY <1>u, <1>w, <1>z, <1>c, <3>4, <3>6, <3>7, <3>8, <3>9 DEF SchemaTenancyKnow
    <3> QED BY <1>n, <2>1, <3>1, <3>2, <3>10
  <2>8. CASE (~Live \/ try.read # "ok") /\ pg' = Undone(Failed) /\ me' \in {m2, m3}
    <3>1. PICK S : (S = {} \/ S = {a}) /\ me'.said = me.said \cup S
      <4>1. CASE me' = m2
        <5>1. me'.said = me.said \cup {} BY <2>3, <4>1
        <5> QED BY <5>1
      <4>2. CASE me' = m3 BY <2>4, <4>2
      <4> QED BY <2>8, <4>1, <4>2
    <3>2. /\ DOMAIN me' = DOMAIN me /\ me'.at = "next" /\ me'.todo = me.todo /\ me'.thrown = me.thrown
          /\ me'.result = me.result /\ DOMAIN me'.loc = DOMAIN me.loc /\ me'.loc.tried = me.loc.tried
          /\ me'.loc.reached = me.loc.reached
      BY <2>3, <2>4, <2>8
    <3>3. \A x \in S : x = [on |-> x.on, arm |-> x.arm, says |-> "note"] BY <2>5, <3>1
    <3>4. Todo' = Todo /\ Current' = Current BY <3>2 DEF Todo, Current
    <3>5. fault = "none" => Missed(Current, me.loc.tried)
      <4>1. fault = "none" => Missed(Current, me.loc.tried - 1) /\ try.read # "ok" BY <1>c, <2>1, <2>6, <2>8
          DEF SchemaTenancyKnow
      <4>2. \A i \in 1..me.loc.tried : i = me.loc.tried \/ i \in 1..(me.loc.tried - 1) BY <2>6
      <4> QED BY <4>1, <4>2 DEF Missed
    <3>6. Unclear' BY <1>v, <3>1, <3>3
    <3>7. SchemaTenancyKnow' BY <1>u, <1>w, <1>c, <2>1, <2>6, <3>2, <3>4, <3>5, <3>6 DEF SchemaTenancyKnow
    <3>8. Walks("next", me.todo, me.said \cup S) /\ Moved /\ Queue(me.todo) BY <1>c, <2>8, <3>1, <3>2 DEF Walks,
        Moved, Shape
    <3> QED BY <1>n, <2>1, <3>3, <3>7, <3>8
  <2> HIDE DEF try
  <2> QED BY <2>1, <2>7, <2>8
<1>6. CASE ST!SwitchRole("next")
  <2>1. /\ me.at = "role" /\ Common' /\ Plays /\ me'.loc = me.loc /\ me'.said = me.said
        /\ (Leaves /\ ~Counts' /\ pg' = Failed) \/ (Walks("next", me.todo, me.said) /\ Live /\ world.member /\ pg' = AsRole(pg, "app"))
    BY <1>b, <1>t, <1>6, SwitchesRole
  <2>2. (\A e : Done(e)' <=> Done(e)) /\ (Unclear' <=> Unclear) BY <1>u, <1>t, <1>c, <2>1, Quiet
  <2>3. SchemaTenancyKnow' BY <1>u, <1>c, <2>1, <2>2, <1>w, <1>z DEF SchemaTenancyKnow, Walks, Leaves, Todo, Current
  <2>4. \A e : SchemaTenancyPending(e) /\ Counts' => SchemaTenancyPending(e)' BY <1>u, <2>1 DEF SchemaTenancyPending,
      Walks
  <2> QED BY <1>t, <2>1, <2>2, <2>3, <2>4 DEF SchemaTenancyInv, Counts, Walks
<1>7. CASE ST!RollBack("judge")
  <2>1. /\ me.at = "finally" /\ Common' /\ Plays /\ me'.at = (IF me.thrown THEN "close" ELSE "judge")
        /\ me'.thrown = me.thrown /\ me'.result = me.result
        /\ me'.loc = me.loc /\ me'.said = me.said /\ me'.todo = me.todo /\ (Counts' <=> Counts)
        /\ pg' \in {pg, RolledBack(pg)} /\ (pg.st \notin {"open", "aborted"} => pg' = pg)
    BY <1>b, <1>t, <1>7, RollsBack
  <2>2. (\A e : Done(e)' <=> Done(e)) /\ (Unclear' <=> Unclear) BY <1>u, <1>t, <1>c, <2>1, Quiet
  <2>3. SchemaTenancyKnow' BY <1>u, <1>c, <2>1, <2>2, <1>w DEF SchemaTenancyKnow
  <2>4. \A e \in Truth.exposed : SchemaTenancyPending(e) /\ Counts => SchemaTenancyPending(e)' BY <1>u, <2>1
      DEF SchemaTenancyPending, Counts
  <2> QED BY <1>t, <2>1, <2>2, <2>3, <2>4 DEF SchemaTenancyInv
<1>8. CASE ST!ClassifyGroups
  <2> DEFINE hit == {h \in ST!Groups : ST!ClassifySchemaReach(h, me.loc.reached)}
             leaks == [on : {ST!First(h) : h \in hit}, arm : {"reach"}, says : {"leak"}]
             none == [on : {0}, arm : {"reach"}, says : {"note"}]
             N == IF me.loc.reached = {} THEN leaks \cup none ELSE leaks
             m == [ST!To("close") EXCEPT !.said = IF me.loc.reached = {} THEN (me.said \cup leaks) \cup none ELSE me.said \cup leaks]
  <2>1. me.at = "judge" /\ pg' = pg /\ me' = m BY <1>8, Zenon DEF ST!ClassifyGroups, ST!Do
  <2>2. /\ m.said = me.said \cup N /\ DOMAIN m = DOMAIN me /\ m.at = "close" /\ m.todo = me.todo
        /\ m.thrown = me.thrown /\ m.result = me.result /\ m.loc = me.loc
    <3> HIDE DEF leaks, none
    <3> QED BY <1>c DEF ST!To, Shape
  <2> HIDE DEF m
  <2>3. ASSUME NEW a \in N
        PROVE  /\ a = [on |-> a.on, arm |-> "reach", says |-> a.says] /\ a.says \in {"leak", "note"}
               /\ a.says = "leak" => \E h \in hit : a.on = ST!First(h)
    OBVIOUS
  <2>4. ASSUME NEW h \in hit PROVE [on |-> ST!First(h), arm |-> "reach", says |-> "leak"] \in N OBVIOUS
  <2>5. ASSUME NEW h \in hit PROVE [on |-> ST!First(h), arm |-> "reach"] \in Truth.exposed
    <3>1. h \in ST!Groups /\ Cardinality(h \cap me.loc.reached) >= 2 BY TenancyCount DEF ST!ClassifySchemaReach
    <3> HIDE DEF hit
    <3>2. h \subseteq 1..Count BY <1>c, <3>1, TenancyGroups DEF Shape
    <3>3. h \cap me.loc.reached \subseteq {k \in h : ST!Reach(k, 4)}
      BY <1>c, <1>r DEF SchemaTenancyKnow, Reachable, ST!Reach
    <3>4. Cardinality({k \in h : ST!Reach(k, 4)}) >= 2
      <4>1. PICK T : T = {k \in h : ST!Reach(k, 4)} OBVIOUS
      <4>2. PICK S : S = h \cap me.loc.reached OBVIOUS
      <4>3. S \subseteq T /\ T \subseteq 1..Count /\ Cardinality(S) >= 2 BY <3>1, <3>2, <3>3, <4>1, <4>2
      <4>4. Cardinality(T) >= 2 BY <1>c, <4>3, TwoOfMore DEF Shape
      <4> QED BY <4>1, <4>4
    <3> QED BY <1>c, <3>1, <3>4, SchemaTenancyPoints DEF Shape
  <2>6. ASSUME NEW e \in Truth.exposed, Counts, e \notin Truth.blind
        PROVE  \E a \in N : a.on = e.on /\ a.arm = e.arm /\ a.says = "leak"
    <3>1. /\ fault # "cancelled" /\ e.arm = "reach"
          /\ \E h \in ST!Groups : e.on = ST!First(h) /\ Cardinality({k \in h : ST!Reach(k, ST!ProbesPerSchema)}) >= 2
      BY <1>c, <2>6, SchemaTenancyPoints DEF Shape
    <3>2. PICK h \in ST!Groups : e.on = ST!First(h) /\ Cardinality({k \in h : ST!Reach(k, ST!ProbesPerSchema)}) >= 2
      BY <3>1
    <3>3. h \subseteq 1..Count BY <1>c, TenancyGroups DEF Shape
    <3>4. {k \in h : ST!Reach(k, ST!ProbesPerSchema)} \subseteq h \cap me.loc.reached
      BY <1>c, <2>1, <2>6, <3>1 DEF SchemaTenancyKnow, Behind
    <3>5. Cardinality(h \cap me.loc.reached) >= 2
      <4>1. PICK S : S = {k \in h : ST!Reach(k, ST!ProbesPerSchema)} OBVIOUS
      <4>2. PICK T : T = h \cap me.loc.reached OBVIOUS
      <4>3. S \subseteq T /\ T \subseteq 1..Count /\ Cardinality(S) >= 2 BY <3>2, <3>3, <3>4, <4>1, <4>2
      <4>4. Cardinality(T) >= 2 BY <1>c, <4>3, TwoOfMore DEF Shape
      <4> QED BY <4>2, <4>4
    <3>6. h \in hit BY <3>5, TenancyCount DEF ST!ClassifySchemaReach
    <3>7. [on |-> ST!First(h), arm |-> "reach", says |-> "leak"] \in N BY <2>4, <3>6
    <3> HIDE DEF N
    <3> QED BY <3>1, <3>2, <3>7
  <2>7. PICK S : S = N OBVIOUS
  <2>8. \A a \in S : Meaning(a) /\ a.says # "clear" BY <2>3, <2>5, <2>7 DEF Meaning, Key
  <2> HIDE DEF N, hit
  <2>9. Unclear' BY <1>c, <2>1, <2>2, <2>7, <2>8 DEF SchemaTenancyKnow, Unclear
  <2>10. SchemaTenancyKnow' BY <1>u, <1>w, <1>c, <2>1, <2>2, <2>9 DEF SchemaTenancyKnow
  <2>11. \A a \in S, b \in me.said : a.says = "leak" /\ b.on = a.on /\ b.arm = a.arm => b.says # "clear"
    BY <1>c DEF SchemaTenancyKnow, Unclear
  <2>12. \A e \in Truth.exposed : Counts =>
                \/ e \in Truth.blind
                \/ \E a \in S : a.on = e.on /\ (fault = "none" /\ e \in Truth.provable => a.arm = e.arm /\ a.says = "leak")
    BY <2>6, <2>7
  <2>13. Walks("close", me.todo, me.said \cup S) /\ Queue(me.todo) /\ Moved BY <1>c, <2>1, <2>2, <2>7 DEF Shape,
      Moved, Walks
  <2> QED BY <1>m, <2>1, <2>8, <2>10, <2>11, <2>12, <2>13
<1>9. CASE ST!Connect
  <2>1. /\ me.at = "start" /\ Common' /\ Plays /\ me'.loc = me.loc /\ me'.said = {} /\ me'.todo = me.todo
        /\ \/ me'.at = "plan" /\ pg' = [pg EXCEPT !.st = "idle"] /\ pg'.st = "idle" /\ Whole(me'.todo)
           \/ me'.at = "done" /\ ~Counts' /\ pg' = pg
    BY <1>b, <1>t, <1>9, Connects
  <2>2. SchemaTenancyKnow' BY <1>u, <1>c, <2>1, <1>w DEF SchemaTenancyKnow, Unclear
  <2>3. Counts' => \A e : SchemaTenancyPending(e)' BY <2>1 DEF SchemaTenancyPending
  <2> QED BY <2>1, <2>2, <2>3 DEF SchemaTenancyInv
<1>10. CASE ST!Disconnect
  <2>1. /\ me.at = "close" /\ Common' /\ Plays /\ me'.at = "done"
        /\ me'.loc = me.loc /\ me'.said = me.said /\ me'.todo = me.todo /\ (Counts' => Counts)
    BY <1>b, <1>t, <1>10, Disconnects
  <2>2. (\A e : Done(e)' <=> Done(e)) /\ (Unclear' <=> Unclear) BY <1>u, <1>t, <1>c, <2>1, Quiet
  <2>3. SchemaTenancyKnow' BY <1>u, <1>c, <2>1, <2>2, <1>w DEF SchemaTenancyKnow
  <2>4. \A e : ~SchemaTenancyPending(e) BY <2>1 DEF SchemaTenancyPending
  <2> QED BY <1>t, <2>1, <2>2, <2>3, <2>4 DEF SchemaTenancyInv
<1> QED BY <1>1, <1>2, <1>5, <1>3, <1>4, <1>6, <1>7, <1>8, <1>9, <1>10 DEF ST!Next, ST!Check, ST!Run

\* So does a fault, whenever it strikes.
LEMMA SchemaTenancyStruck ==
  ASSUME Common, SchemaTenancyInv, world.guard = "schema-tenancy", Drop \/ Cancel
  PROVE  Common' /\ SchemaTenancyInv'
<1>1. world' = world /\ fault = "none" BY DEF Drop, Cancel
<1>2. Truth'.exposed = Truth.exposed /\ Truth.blind \subseteq Truth'.blind /\ Truth.spurious \subseteq Truth'.spurious
  <2>1. Truth = ST!Truth /\ Truth' = ST!Truth' BY <1>1 DEF Truth
  <2>2. ST!Exposed' = ST!Exposed BY <1>1 DEF ST!Alike, ST!Exposed, ST!First, ST!Groups, ST!Reach, ST!Reached,
      ST!Schemas
  <2>3. ST!Blind \subseteq ST!Blind' BY <1>1, <2>2, TenancySame DEF ST!Blind
  <2>4. ST!Spurious \subseteq ST!Spurious' BY <1>1 DEF ST!Spurious
  <2> QED BY <2>1, <2>2, <2>3, <2>4 DEF ST!Truth
<1>3. /\ me' = me /\ fault' # "none" /\ Common'
      /\ \/ fault' = "lost" /\ pg'.st = "lost" /\ pg'.who = "nobody" /\ pg'.saves = <<>>
         \/ fault' = "cancelled" /\ pg.st = "open" /\ pg'.st = "aborted" /\ pg' = Failed
      /\ \A e : Done(e) => Done(e)'
      /\ \A k, x : Untold(k, x)' <=> Untold(k, x)
      /\ Unclear' <=> Unclear
  BY <1>2, Striking
<1>4. SchemaTenancyKnow' BY <1>1, <1>3, TenancySame DEF SchemaTenancyInv, SchemaTenancyKnow, Todo, Current, Counts
<1>5. \A e : SchemaTenancyPending(e) => SchemaTenancyPending(e)' BY <1>1, <1>3 DEF SchemaTenancyPending
<1> QED BY <1>2, <1>3, <1>4, <1>5 DEF SchemaTenancyInv, Counts

\* Schema-tenancy begins so.
LEMMA SchemaTenancyBegins == ASSUME ST!Init PROVE Common /\ SchemaTenancyInv /\ world.guard = "schema-tenancy"
<1>1. Begins("schema-tenancy") /\ me.loc = [tried |-> 0, refused |-> FALSE, reached |-> {}]
  BY WorldAssumption DEF Names, Begins, Whole, Count, Closed, ST!Init, ST!Enter, ST!Entered, ST!Closed
<1>2. Common BY <1>1, Beginning DEF Names
<1>3. SchemaTenancyKnow BY <1>1 DEF SchemaTenancyKnow, Begins, Unclear, Reachable
<1> QED BY <1>1, <1>2, <1>3 DEF SchemaTenancyInv, SchemaTenancyPending, Begins

\* A step of nobody keeps it.
LEMMA SchemaTenancyStays ==
  ASSUME Common, SchemaTenancyInv, world.guard = "schema-tenancy", UNCHANGED vars
  PROVE  Common' /\ SchemaTenancyInv'
<1>1. world' = world /\ fault' = fault /\ pg' = pg /\ me' = me BY DEF vars
<1>2. Truth' = Truth BY <1>1, SchemaTenancySame
<1>3. Common' /\ (\A e : Done(e)' <=> Done(e)) /\ (Counts' <=> Counts) BY <1>1, <1>2, Resting
<1>4. Todo' = Todo /\ Current' = Current /\ (Live' <=> Live) /\ (Unclear' <=> Unclear)
  BY <1>1 DEF Todo, Elems, Current, Live, Unclear
<1>5. SchemaTenancyKnow' BY <1>1, <1>3, <1>4, TenancySame DEF SchemaTenancyInv, SchemaTenancyKnow
<1>6. \A e : SchemaTenancyPending(e)' <=> SchemaTenancyPending(e) BY <1>1 DEF SchemaTenancyPending
<1> QED BY <1>2, <1>3, <1>5, <1>6 DEF SchemaTenancyInv

\* At the end nothing is pending, and a question is a target and an arm.
LEMMA SchemaTenancyEnds ==
  ASSUME Common, world.guard = "schema-tenancy", SchemaTenancyInv, me.at = "done", Counts
  PROVE  /\ \A e \in Truth.exposed : e = Key(e) /\ Done(e)
         /\ Truth.provable \subseteq Truth.exposed
<1>1. \A e : ~SchemaTenancyPending(e) BY DEF SchemaTenancyPending
<1> QED BY <1>1, SchemaTenancyPoints DEF SchemaTenancyInv, Key, Common, Shape

=============================================================================
