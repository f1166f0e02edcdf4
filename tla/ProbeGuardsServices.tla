--------------------------- MODULE ProbeGuardsServices ---------------------------
(***************************************************************************)
(* The same for the guards of what Postgres runs for others: the buckets   *)
(* of storage, the topics of realtime, the functions that can be called.   *)
(***************************************************************************)
EXTENDS ProbeGuardsReads

-----------------------------------------------------------------------------
(* storage-isolation.                                                      *)

\* The buckets on the list have no answer yet but for the listing of the one at hand,
\* and what the probes have recorded is what the database does, unless they failed.
StorageIsolationKnow ==
  /\ DOMAIN me.loc = {"canary", "cross", "own", "hop", "ownHop", "failed"}
  /\ me.at # "done" /\ world.hook = "other" => Nobody(pg)
  /\ me.at \in {"begin", "canary"} => Whole(me.todo)
  /\ me.at \in {"start", "plan", "begin", "canary"} => Nobody(pg)
  /\ me.at \in {"plan", "begin"} => pg.st \in {"idle", "lost"}
  /\ me.at \in {"begin", "canary", "next", "listing", "settle", "check", "reads", "uploads", "reset"} =>
       \A k \in Todo : /\ Untold(k, "tenant")
                       /\ Untold(k, "listing") \/ (k = Current /\ me.at \in {"settle", "check", "reads", "uploads", "reset"})
  /\ me.at \in {"next", "listing", "settle", "check", "reads", "uploads", "reset"} => (1 \in Todo => Current = 1)
  /\ me.at \in {"next", "listing"} /\ 1 \in Todo => Nobody(pg)
  /\ me.at \in {"listing", "settle", "check", "reads", "uploads", "reset"} => me.todo # <<>>
  /\ me.at = "listing" => world.anonRole /\ ~Target.public
  /\ me.at = "listing" /\ fault = "none" => Live
  /\ me.at \in {"check", "reads", "uploads", "reset"} => ~Target.public /\ Target.folders = "two"
  /\ me.at \in {"canary", "next", "listing", "settle", "check", "reads", "uploads", "reset"} => pg.st \in {"open", "aborted", "lost"}
  /\ me.at \in {"start", "plan", "begin", "canary", "next", "listing", "settle", "check", "reads", "uploads"} => me.loc.failed = "no"
  /\ me.at = "reset" /\ me.loc.failed # "no" => ~Live
  /\ me.at \in {"uploads", "reset"} /\ me.loc.failed = "no" => (me.loc.cross <=> SI!Open(Target.reads))
  /\ me.at = "uploads" => pg.who # "A"
  /\ me.at = "uploads" /\ pg.st = "aborted" => fault = "cancelled"
  /\ me.at = "reset" /\ Live =>
       /\ me.loc.hop => world.uploads /\ SI!Open(Target.writes)
       /\ world.uploads /\ SI!Open(Target.writes) => me.loc.hop \/ fault = "cancelled"

\* The bucket is on the list, and at the one at hand the listing is behind us.
StorageIsolationPending(e) ==
  \/ me.at \in {"start", "plan"}
  \/ e.on # 0 /\ e.on \in Todo /\ me.at \in {"begin", "canary", "next", "listing"}
  \/ /\ e.on # 0 /\ e.on \in Todo /\ me.at \in {"settle", "check", "reads", "uploads", "reset"}
     /\ e.arm = "tenant" \/ e.on # Current \/ fault # "none"

\* Everything exposed is pending or done.
StorageIsolationInv == StorageIsolationKnow /\ (Counts => \A e \in Truth.exposed : StorageIsolationPending(e) \/ Done(e))

\* What is exposed to storage-isolation, and what of it is missed, misjudged or provable.
LEMMA StorageIsolationPoints ==
  ASSUME world.guard = "storage-isolation"
  PROVE  /\ \A e : e \in Truth.exposed <=>
              \/ e = [on |-> 0, arm |-> "rls"] /\ ~world.rls
              \/ /\ e = [on |-> e.on, arm |-> "listing"] /\ e.on \in 1..Count
                 /\ world.anonRole /\ ~world.targets[e.on].public /\ SI!Open(world.targets[e.on].anon)
              \/ /\ e = [on |-> e.on, arm |-> "tenant"] /\ e.on \in 1..Count
                 /\ world.targets[e.on].folders = "two"
                 /\ \/ world.targets[e.on].public
                    \/ SI!Open(world.targets[e.on].reads)
                    \/ world.uploads /\ SI!Open(world.targets[e.on].writes)
         /\ \A e : e \in Truth.blind <=>
              /\ e \in Truth.exposed /\ fault = "cancelled"
              /\ \/ e.arm = "listing"
                 \/ e.arm = "tenant" /\ ~world.targets[e.on].public /\ ~SI!Open(world.targets[e.on].reads)
         /\ Truth.provable = Truth.exposed
         /\ \A e : e \in Truth.spurious <=> e = [on |-> e.on, arm |-> "listing"] /\ e.on \in 2..Count
<1>1. /\ Truth.exposed = SI!Exposed /\ Truth.blind = SI!Blind /\ Truth.provable = SI!Exposed
      /\ Truth.spurious = [on : 2..Count, arm : {"listing"}]
  BY DEF Truth, SI!Truth, SI!Provable, SI!Spurious, Count
<1>2. \A e : e \in Truth.exposed <=>
              \/ e = [on |-> 0, arm |-> "rls"] /\ ~world.rls
              \/ /\ e = [on |-> e.on, arm |-> "listing"] /\ e.on \in 1..Count
                 /\ world.anonRole /\ ~world.targets[e.on].public /\ SI!Open(world.targets[e.on].anon)
              \/ /\ e = [on |-> e.on, arm |-> "tenant"] /\ e.on \in 1..Count
                 /\ world.targets[e.on].folders = "two"
                 /\ \/ world.targets[e.on].public
                    \/ SI!Open(world.targets[e.on].reads)
                    \/ world.uploads /\ SI!Open(world.targets[e.on].writes)
  BY <1>1 DEF SI!Exposed, Count
<1>3. \A e : e \in Truth.spurious <=> e = [on |-> e.on, arm |-> "listing"] /\ e.on \in 2..Count BY <1>1
<1>4. \A e : e \in Truth.blind <=>
              /\ e \in Truth.exposed /\ fault = "cancelled"
              /\ \/ e.arm = "listing"
                 \/ e.arm = "tenant" /\ ~world.targets[e.on].public /\ ~SI!Open(world.targets[e.on].reads)
  BY <1>1 DEF SI!Blind
<1> QED BY <1>1, <1>2, <1>3, <1>4

\* What a role reaches that is open, and what only its own folder makes it reach.
LEMMA StorageIsolationReach ==
  ASSUME NEW access, NEW who, NEW f
  PROVE  /\ SI!Open(access) => SI!Reaches(access, who, f)
         /\ SI!Reaches(access, who, f) /\ who # f => SI!Open(access)
BY DEF SI!Open, SI!Reaches

\* What is exposed to storage-isolation depends on the database and the fault alone.
LEMMA StorageIsolationSame ==
  ASSUME world.guard = "storage-isolation", world' = world, fault' = fault
  PROVE  Truth' = Truth
<1>1. Truth = SI!Truth BY DEF Truth
<1>2. Truth' = SI!Truth' BY DEF Truth
<1>3. SI!Exposed' = SI!Exposed BY DEF SI!Exposed, SI!Open
<1>4. SI!Blind' = SI!Blind BY <1>3 DEF SI!Blind, SI!Open
<1>5. SI!Provable' = SI!Provable BY <1>3 DEF SI!Provable
<1>6. SI!Spurious' = SI!Spurious BY DEF SI!Spurious
<1>7. SI!Fragile' = SI!Fragile BY DEF SI!Fragile
<1> QED BY <1>1, <1>2, <1>3, <1>4, <1>5, <1>6, <1>7 DEF SI!Truth

\* A step of storage-isolation changes neither the database nor the fault.
LEMMA StorageIsolationRest == ASSUME SI!Next PROVE world' = world /\ fault' = fault
BY DEF SI!Attempt, SI!Await, SI!Begin, SI!BucketListing, SI!Check, SI!CheckCanary, SI!ClassifyOrphans, SI!Connect,
     SI!CreateCanary, SI!Disconnect, SI!Do, SI!Guarded, SI!Next, SI!NextBucket, SI!Plan, SI!ProbeReads,
     SI!ProbeUpload, SI!ResetRole, SI!RollBack, SI!Run, SI!SelfCheck, SI!SettleBucket

\* A step of storage-isolation keeps what it knows, and is one its runner expects.
LEMMA StorageIsolationAnswers ==
  ASSUME Common, StorageIsolationInv, world.guard = "storage-isolation", SI!Next
  PROVE  Common' /\ StorageIsolationInv' /\ Plays
<1>u. world' = world /\ fault' = fault BY StorageIsolationRest
<1>t. Truth' = Truth BY <1>u, StorageIsolationSame
<1>b. /\ SI!Connect <=> Connect
      /\ SI!Disconnect <=> Disconnect
      /\ SI!RollBack("after") <=> RollBack("after")
      /\ SI!CreateCanary("next") <=> CreateCanary("next")
      /\ SI!CheckCanary("reads") <=> CheckCanary("reads")
  BY DEF SI!Attempt, Attempt, SI!CanaryRead, CanaryRead, SI!CheckCanary, CheckCanary, SI!Closed, Closed, SI!Connect,
         Connect, SI!CreateCanary, CreateCanary, SI!Disconnect, Disconnect, SI!Do, Do, SI!Ending, Ending, SI!Failed,
         Failed, SI!LeaksIn, LeaksIn, SI!Live, Live, SI!Made, Made, SI!RollBack, RollBack, SI!RolledBack,
         RolledBack, SI!Said, Said, SI!To, To, SI!Verdict, Verdict
<1>o. /\ SI!Live <=> Live
      /\ SI!Failed = Failed
      /\ SI!Began(pg) = Began(pg)
      /\ SI!Saved(pg) = Saved(pg)
      /\ SI!Released(pg) = Released(pg)
      /\ SI!Undone(pg) = Undone(pg)
      /\ SI!Undone(SI!Failed) = Undone(Failed)
      /\ SI!RolledBack(pg) = RolledBack(pg)
      /\ \A x : SI!AsRole(pg, x) = AsRole(pg, x)
      /\ \A x : SI!Acting(pg, x) = Acting(pg, x)
      /\ \A x : SI!Made(pg, x) = Made(pg, x)
      /\ SI!Target = Target
      /\ SI!Current = Current
  BY DEF SI!Live, Live, SI!Failed, Failed, SI!Began, Began, SI!Saved, Saved, SI!Released, Released, SI!Undone,
         Undone, SI!RolledBack, RolledBack, SI!AsRole, AsRole, SI!Acting, Acting, SI!Made, Made, SI!Target, Target,
         SI!Current, Current, SI!Closed, Closed
<1>c. Session /\ Shape /\ Meant /\ StorageIsolationKnow BY DEF Common, StorageIsolationInv
<1>k. DOMAIN me.loc = {"canary", "cross", "own", "hop", "ownHop", "failed"} BY <1>c DEF StorageIsolationKnow
<1>q. me.todo # <<>> =>
        /\ Current \in Todo /\ Current \in 1..Count /\ Queue(Tail(me.todo))
        /\ Elems(Tail(me.todo)) = Todo \ {Current}
  BY <1>c, Popping DEF Shape, Todo, Current
<1>x. Todo \subseteq 1..Count BY <1>c DEF Shape, Queue, Todo, Elems
\* Nobody is impersonated where the guard's own hook is another.
<1>h. Nobody(pg) =>
        /\ pg' \in {pg, Failed, Saved(pg), Released(pg), Undone(pg), Undone(Failed), RolledBack(pg), Began(pg)} => Nobody(pg')
        /\ pg' \in {[pg EXCEPT !.st = "idle"], [pg EXCEPT !.st = "open"], Acting(pg, "nobody")} => Nobody(pg')
        /\ (\E r : pg' = AsRole(pg, r)) \/ (\E x : pg' = Made(pg, x)) => Nobody(pg')
  BY <1>c, Unnamed DEF Session, Proper
<1>n0. pg' \in {pg, Failed} /\ Nobody(pg) => Nobody(pg') BY <1>h
\* Leaving.
<1>l. ASSUME Leaves, me.at \notin {"start", "done"}, pg' \in {pg, Failed} PROVE Common' /\ StorageIsolationInv' /\ Plays
  <2>1. Shape' /\ Meant' /\ ~Counts' /\ Plays BY <1>u, <1>t, <1>l, Leaving
  <2>2. Session' BY <1>u, <1>c, <1>l, Moving DEF Moved, Leaves
  <2>4. (Unclear' <=> Unclear) /\ (\A k, x : Untold(k, x)' <=> Untold(k, x)) BY <1>u, <1>t, <1>c, <1>l, Quiet
      DEF Leaves
  <2>5. pg'.st \in {pg.st, IF pg.st = "open" THEN "aborted" ELSE pg.st} BY <1>c, <1>l DEF Failed, Session, Proper,
      Sound
  <2>3. StorageIsolationKnow'
    <3>1. me'.at \in {"finally", "close"} /\ me'.todo = me.todo /\ me'.said = me.said /\ me'.loc = me.loc /\ DOMAIN me' = DOMAIN me
      BY <1>l DEF Leaves
    <3> QED BY <1>u, <1>c, <1>l, <2>1, <2>4, <2>5, <3>1, <1>n0 DEF StorageIsolationKnow
  <2> QED BY <2>1, <2>2, <2>3 DEF Common, StorageIsolationInv
\* Going on without an answer.
<1>s. ASSUME NEW at, NEW todo, Walks(at, todo, me.said), Queue(todo), Moved, me.at \notin {"start", "done"},
             at \notin {"start", "plan", "done"}, StorageIsolationKnow',
             \A e \in Truth.exposed : Counts /\ StorageIsolationPending(e) => StorageIsolationPending(e)' \/ Done(e)
      PROVE  Common' /\ StorageIsolationInv' /\ Plays
  <2>1. Shape' BY <1>u, <1>c, <1>s, Going
  <2>2. Meant' /\ \A e : Done(e)' <=> Done(e) BY <1>u, <1>t, <1>c, <1>s, Quiet DEF Walks
  <2>3. Session' BY <1>u, <1>c, <1>s, Moving DEF Walks
  <2>4. (Counts' => Counts) /\ Plays BY <1>s DEF Walks, Counts, Plays
  <2> QED BY <1>t, <1>s, <2>1, <2>2, <2>3, <2>4 DEF Common, StorageIsolationInv
<1>e. /\ me' = SI!Thrown => Leaves
      /\ me' = SI!Ending(me, "skip") => Leaves
      /\ \A l : me' = SI!To(l) => Walks(l, me.todo, me.said) /\ me'.loc = me.loc
  BY <1>c DEF Shape, SI!Thrown, SI!Ending, SI!To, Leaves, Walks
\* Going on with several answers.
<1>m. ASSUME NEW at, NEW todo, NEW S, Walks(at, todo, me.said \cup S), Queue(todo), Moved, me.at \notin {"start", "done"},
             at \notin {"start", "plan", "done"}, StorageIsolationKnow',
             \A a \in S : Meaning(a) /\ a.says # "clear",
             \A a \in S, b \in me.said : a.says = "leak" /\ b.on = a.on /\ b.arm = a.arm => b.says # "clear",
             \A e \in Truth.exposed : Counts /\ StorageIsolationPending(e) =>
                \/ StorageIsolationPending(e)' \/ Done(e)
                \/ e \in Truth.blind
                \/ \E a \in S : a.on = e.on /\ (fault = "none" /\ e \in Truth.provable => a.arm = e.arm /\ a.says = "leak")
      PROVE  Common' /\ StorageIsolationInv' /\ Plays
  <2>1. Shape' BY <1>u, <1>c, <1>m, Going
  <2>2. /\ Meant'
        /\ \A e : Done(e) => Done(e)'
        /\ \A e : (\E a \in S : a.on = e.on) => Heard(e)'
        /\ \A e : (\E a \in S : a.on = e.on /\ a.arm = e.arm /\ a.says = "leak") => Done(e)'
    BY <1>u, <1>t, <1>c, <1>m, TellingAll DEF Walks
  <2>3. Session' BY <1>u, <1>c, <1>m, Moving DEF Walks
  <2>4. (Counts' => Counts) /\ Plays BY <1>m DEF Walks, Counts, Plays
  <2>5. \A e \in Truth.exposed : e \in Truth.blind => Done(e)' BY <1>u, <1>t, StorageIsolationPoints DEF Done
  <2>6. ASSUME NEW e \in Truth.exposed, Counts, StorageIsolationPending(e) PROVE StorageIsolationPending(e)' \/ Done(e)'
    <3>1. CASE \E a \in S : a.on = e.on /\ (fault = "none" /\ e \in Truth.provable => a.arm = e.arm /\ a.says = "leak")
      <4>1. Heard(e)' BY <2>2, <3>1
      <4>2. fault = "none" /\ e \in Truth.provable => Done(e)' BY <2>2, <3>1
      <4>3. ~(fault = "none" /\ e \in Truth.provable) => Done(e)' BY <1>u, <1>t, <4>1 DEF Done
      <4> QED BY <4>2, <4>3
    <3> QED BY <1>m, <2>2, <2>5, <2>6, <3>1
  <2> QED BY <1>t, <1>m, <2>1, <2>2, <2>3, <2>4, <2>6 DEF Common, StorageIsolationInv
<1>r. me.todo # <<>> => Target = world.targets[Current] /\ Current \in 1..Count BY <1>q DEF Target, Current
<1>i. me.at # "done" /\ world.hook = "other" => Nobody(pg) BY <1>c DEF StorageIsolationKnow
<1>j. me'.todo = me.todo => Todo' = Todo /\ Current' = Current /\ Target' = Target BY <1>u DEF Todo, Current, Target
<1>0. me.todo # <<>> => Current # 0 BY <1>q
\* The session keeps its transaction.
<1>w. pg.st \in {"open", "aborted", "lost"} =>
        /\ pg' \in {pg, Failed, Saved(pg), Undone(pg), Undone(Failed)} => pg'.st \in {"open", "aborted", "lost"}
        /\ (\E r : pg' = AsRole(pg, r)) \/ (\E x : pg' = Made(pg, x) \/ pg' = Acting(pg, x)) => pg'.st = pg.st
        /\ pg' = Failed => ~Live'
  <2>1. Sound(pg) BY <1>c DEF Session, Proper
  <2>2. SUFFICES ASSUME pg.st \in {"open", "aborted", "lost"}
                 PROVE  /\ pg' \in {pg, Failed, Saved(pg), Undone(pg), Undone(Failed)} => pg'.st \in {"open", "aborted", "lost"}
                        /\ (\E r : pg' = AsRole(pg, r)) \/ (\E x : pg' = Made(pg, x) \/ pg' = Acting(pg, x)) => pg'.st = pg.st
                        /\ pg' = Failed => ~Live'
    OBVIOUS
  <2>3. Failed.st \in {"aborted", "lost"} /\ Saved(pg).st = pg.st /\ Sound(Failed) BY <2>1, <2>2, Failing, Saving
  <2>4. \A s : Sound(s) /\ s.st \in {"open", "aborted", "lost"} => Undone(s).st \in {s.st, "open"}
    <3>1. TAKE s
    <3>2. CASE s.st \in {"open", "aborted"} /\ s.saves # <<>>
      <4> DEFINE sp == s.saves[Len(s.saves)]
      <4>1. Undone(s) = [Released(s) EXCEPT !.st = "open", !.role = sp.role, !.who = sp.who, !.made = sp.made]
        BY <3>2 DEF Undone
      <4> HIDE DEF sp
      <4>2. DOMAIN Released(s) = DOMAIN s BY DEF Released
      <4> QED BY <4>1, <4>2 DEF Sound
    <3>3. CASE ~(s.st \in {"open", "aborted"} /\ s.saves # <<>>) BY <3>3 DEF Undone
    <3> QED BY <3>2, <3>3
  <2>5. pg' \in {Undone(pg), Undone(Failed)} => pg'.st \in {"open", "aborted", "lost"} BY <2>1, <2>2, <2>3, <2>4
  <2> QED BY <2>1, <2>2, <2>3, <2>5, Plainly DEF Live
\* A bucket is finished.
<1>n. ASSUME Walks("next", Tail(me.todo), me'.said), DOMAIN me'.loc = DOMAIN me.loc, me'.loc.failed = "no", me.at \in {"settle", "reset"},
             pg' = pg \/ pg' = AsRole(pg, "conn"), \A k, x : k # Current /\ Untold(k, x) => Untold(k, x)'
      PROVE  /\ StorageIsolationKnow' /\ Todo' = Todo \ {Current} /\ Moved
             /\ \A e : StorageIsolationPending(e) /\ e.on # Current => StorageIsolationPending(e)'
  <2>1. me.todo # <<>> /\ Todo' = Todo \ {Current}
    <3>1. me.todo # <<>> BY <1>c, <1>n DEF StorageIsolationKnow
    <3> QED BY <1>q, <1>n, <3>1 DEF Walks, Todo
  <2>2. \A k \in Todo' : Untold(k, "tenant")' /\ Untold(k, "listing")' BY <1>c, <1>n, <2>1 DEF StorageIsolationKnow
  <2>3. 1 \notin Todo' BY <1>c, <1>n, <2>1 DEF StorageIsolationKnow
  <2>4. pg'.st \in {"open", "aborted", "lost"} /\ (Nobody(pg) => Nobody(pg')) BY <1>c, <1>w, <1>h, <1>n
      DEF StorageIsolationKnow
  <2>5. StorageIsolationKnow' BY <1>u, <1>c, <1>i, <1>n, <2>2, <2>3, <2>4 DEF StorageIsolationKnow, Walks
  <2>6. Moved BY <1>n DEF Moved, Roles
  <2> QED BY <1>n, <2>1, <2>5, <2>6 DEF StorageIsolationPending, Walks
<1>1. CASE SI!Plan
  <2>0. PICK S : S = IF world.rls THEN {} ELSE {[on |-> 0, arm |-> "rls", says |-> "leak"]} OBVIOUS
  <2> DEFINE flagged == IF world.rls THEN me ELSE SI!Said(me, 0, "rls", "leak")
  <2>1. /\ me.at = "plan"
        /\ \/ pg' = Failed /\ me' = SI!Thrown
           \/ pg' = pg /\ me' = SI!Ending(me, "skip")
           \/ pg' = pg /\ me' = SI!Ending(flagged, "skip")
           \/ pg' = pg /\ me' = [flagged EXCEPT !.at = "begin"]
    BY <1>1, <1>o, Zenon DEF SI!Plan, SI!Await, SI!Do
  <2>2. /\ DOMAIN flagged = DOMAIN me /\ flagged.said = me.said \cup S /\ flagged.todo = me.todo /\ flagged.loc = me.loc
        /\ flagged.thrown = me.thrown /\ flagged.result = me.result
    BY <1>c, <2>0 DEF SI!Said, Shape
  <2> HIDE DEF flagged
  <2>3. me.said = {} /\ Whole(me.todo) /\ Queue(me.todo) BY <1>c, <2>1 DEF Shape
  <2>4. \A a \in S : a = [on |-> 0, arm |-> "rls", says |-> "leak"] /\ ~world.rls BY <2>0
  <2>5. ASSUME NEW a \in S PROVE Meaning(a) /\ a.says = "leak"
    <3>1. a = [on |-> a.on, arm |-> a.arm, says |-> a.says] /\ a.says = "leak" /\ Key(a) = [on |-> 0, arm |-> "rls"]
      BY <2>4 DEF Key
    <3>2. Key(a) \in Truth.exposed BY <2>4, <3>1, StorageIsolationPoints
    <3> QED BY <3>1, <3>2 DEF Meaning
  <2>6. \A a \in S : Meaning(a) /\ a.says # "clear" BY <2>5
  <2>7. CASE pg' = pg /\ me' = SI!Ending(flagged, "skip")
    <3>1. /\ DOMAIN me' = DOMAIN me /\ me'.at = "close" /\ me'.todo = me.todo /\ me'.said = me.said \cup S
          /\ me'.thrown = me.thrown /\ me'.result = "skip" /\ me'.loc = me.loc
      BY <1>c, <2>2, <2>7 DEF SI!Ending, Shape
    <3>2. Moved BY <2>7 DEF Moved
    <3>3. Common' /\ ~Counts' /\ Plays BY <1>u, <1>t, <1>c, <2>1, <2>3, <2>6, <3>1, <3>2, Dropping
    <3>4. StorageIsolationKnow' BY <1>u, <1>c, <1>i, <1>h, <2>1, <2>7, <3>1 DEF StorageIsolationKnow
    <3> QED BY <3>3, <3>4 DEF StorageIsolationInv
  <2>8. CASE pg' = pg /\ me' = [flagged EXCEPT !.at = "begin"]
    <3>1. Walks("begin", me.todo, me.said \cup S) /\ me'.loc = me.loc BY <1>c, <2>2, <2>8 DEF Walks, Shape
    <3>2. \A k \in Nat : \A x : k # 0 => Untold(k, x)' BY <2>3, <2>4, <3>1 DEF Untold, Walks
    <3>3. Todo' = Todo /\ \A k \in Todo : k \in Nat /\ k # 0 BY <1>c, <1>x, <3>1 DEF Todo, Walks, Shape
    <3>4. Nobody(pg) BY <1>c, <2>1 DEF StorageIsolationKnow
    <3>5. Whole(me.todo)' BY <1>u, <2>3, <3>1 DEF Walks, Whole, Count
    <3>6. StorageIsolationKnow' BY <1>u, <1>c, <1>i, <2>1, <2>8, <3>1, <3>2, <3>3, <3>4, <3>5
        DEF StorageIsolationKnow, Walks
    <3>7. ASSUME NEW e \in Truth.exposed
          PROVE  StorageIsolationPending(e)' \/ \E a \in S : a.on = e.on /\ a.arm = e.arm /\ a.says = "leak"
      <4>1. CASE e = [on |-> 0, arm |-> "rls"] /\ ~world.rls BY <2>0, <4>1
      <4>2. CASE e.on \in 1..Count
        <5>1. Todo = 1..Count BY <1>c, <2>3, Listing DEF Todo, Shape
        <5> QED BY <1>c, <3>1, <3>3, <4>2, <5>1 DEF StorageIsolationPending, Walks, Shape
      <4> QED BY <4>1, <4>2, StorageIsolationPoints
    <3>8. Moved BY <2>8 DEF Moved
    <3> QED BY <1>m, <2>1, <2>3, <2>6, <3>1, <3>6, <3>7, <3>8
  <2> QED BY <1>e, <1>l, <2>1, <2>7, <2>8
<1>2. CASE SI!Begin
  <2>1. /\ me.at = "begin"
        /\ (me' = SI!Thrown /\ pg' = Failed) \/ (me' = SI!To("canary") /\ pg' = Began(pg) /\ Live)
    BY <1>2, <1>o, Zenon DEF SI!Begin, SI!Await, SI!Do
  <2>2. CASE me' = SI!To("canary") /\ pg' = Began(pg) /\ Live
    <3>1. Walks("canary", me.todo, me.said) /\ me'.loc = me.loc BY <1>e, <2>2
    <3>2. Todo' = Todo /\ (\A k, x : Untold(k, x)' <=> Untold(k, x)) /\ (Whole(me.todo) => Whole(me.todo)')
      BY <1>u, <1>j, <3>1 DEF Untold, Walks, Whole, Count
    <3>3. pg'.st = "open" /\ Nobody(pg) /\ Nobody(pg') BY <1>c, <1>h, <2>1, <2>2, Plainly DEF StorageIsolationKnow,
        Session, Proper
    <3>4. StorageIsolationKnow' BY <1>u, <1>c, <2>1, <3>1, <3>2, <3>3 DEF StorageIsolationKnow, Walks
    <3>5. \A e : StorageIsolationPending(e) => StorageIsolationPending(e)' BY <2>1, <3>1, <3>2
        DEF StorageIsolationPending, Walks
    <3> QED BY <1>s, <1>c, <2>1, <2>2, <3>1, <3>4, <3>5 DEF Shape, Moved
  <2> QED BY <1>e, <1>l, <2>1, <2>2
<1>3. CASE SI!CreateCanary("next")
  <2>1. /\ me.at = "canary" /\ Common' /\ Plays /\ Keeps /\ Walks("next", me.todo, me'.said)
        /\ me'.loc = me.loc \/ me'.loc = [me.loc EXCEPT !.canary = TRUE]
        /\ pg' = Failed \/ (Live /\ pg' = Made(pg, "canary"))
    BY <1>b, <1>t, <1>3, CreatesCanary
  <2>2. DOMAIN me'.loc = DOMAIN me.loc /\ me'.loc.failed = me.loc.failed BY <1>k, <2>1
  <2>3. Nobody(pg) /\ Whole(me.todo) /\ Count \in Nat /\ pg.st \in {"open", "aborted", "lost"} BY <1>c, <2>1
      DEF StorageIsolationKnow, Shape
  <2>4. Nobody(pg') /\ pg'.st \in {"open", "aborted", "lost"} BY <1>h, <1>w, <2>1, <2>3
  <2>5. Todo' = Todo /\ Current' = Current BY <1>j, <2>1 DEF Walks
  <2>6. 1 \in Todo => Current = 1
    <3>1. Todo = 1..Count BY <2>3, Listing DEF Todo
    <3>2. Count >= 1 => Head(me.todo) = 1 BY <2>3 DEF Whole
    <3> QED BY <2>3, <3>1, <3>2 DEF Current
  <2>7. StorageIsolationKnow' BY <1>u, <1>c, <2>1, <2>2, <2>4, <2>5, <2>6 DEF StorageIsolationKnow, Walks, Keeps
  <2>8. \A e \in Truth.exposed : StorageIsolationPending(e) => StorageIsolationPending(e)' BY <1>u, <2>1, <2>5
      DEF StorageIsolationPending, Walks
  <2> QED BY <1>t, <2>1, <2>7, <2>8 DEF StorageIsolationInv, Keeps, Counts, Walks
<1>4. CASE SI!CheckCanary("reads")
  <2>1. /\ me.at = "check" /\ Common' /\ Plays /\ me'.loc = me.loc /\ me'.said = me.said
        /\ (Leaves /\ ~Counts' /\ pg' = RolledBack(pg)) \/ (Walks("reads", me.todo, me.said) /\ (pg' = pg \/ (~Live /\ pg' = Failed)))
    BY <1>b, <1>t, <1>4, ChecksCanary
  <2>2. (\A e : Done(e)' <=> Done(e)) /\ (\A k, x : Untold(k, x)' <=> Untold(k, x)) BY <1>u, <1>t, <1>c, <2>1, Quiet
  <2>3. me'.todo = me.todo BY <2>1 DEF Leaves, Walks
  <2>4. (Nobody(pg) => Nobody(pg')) /\ (Walks("reads", me.todo, me.said) => pg'.st \in {"open", "aborted", "lost"})
    <3>1. pg.st \in {"open", "aborted", "lost"} BY <1>c, <2>1 DEF StorageIsolationKnow
    <3>2. me'.at = "reads" => pg' \in {pg, Failed} BY <2>1 DEF Leaves, Walks
    <3> QED BY <1>h, <1>w, <2>1, <3>1, <3>2 DEF Walks
  <2>5. StorageIsolationKnow' BY <1>u, <1>c, <1>j, <1>i, <2>1, <2>2, <2>3, <2>4 DEF StorageIsolationKnow, Walks,
      Leaves
  <2>6. \A e : StorageIsolationPending(e) /\ Counts' => StorageIsolationPending(e)' BY <1>u, <1>j, <2>1, <2>3
      DEF StorageIsolationPending, Walks
  <2> QED BY <1>t, <2>1, <2>2, <2>5, <2>6 DEF StorageIsolationInv, Counts, Walks
<1>5. CASE SI!NextBucket
  <2>1. /\ me.at = "next"
        /\ \/ me.todo = <<>> /\ pg' = pg /\ me' = SI!To("finally")
           \/ me.todo # <<>> /\ (~world.anonRole \/ Target.public) /\ pg' = pg /\ me' = SI!To("settle")
           \/ me.todo # <<>> /\ world.anonRole /\ ~Target.public /\ Live /\ pg' = Saved(pg) /\ me' = SI!To("listing")
           \/ pg' = Failed /\ me' = SI!Thrown
    BY <1>5, <1>o, Zenon DEF SI!NextBucket, SI!Await, SI!Do
  <2>2. CASE me.todo = <<>> /\ pg' = pg /\ me' = SI!To("finally")
    <3>1. Walks("finally", me.todo, me.said) /\ me'.loc = me.loc BY <1>e, <2>2
    <3>2. StorageIsolationKnow' BY <1>u, <1>c, <2>1, <2>2, <3>1 DEF StorageIsolationKnow, Walks
    <3>3. \A e : ~StorageIsolationPending(e)
      <4>1. Todo = {} BY <2>2 DEF Todo, Elems
      <4> QED BY <2>1, <4>1 DEF StorageIsolationPending
    <3> QED BY <1>s, <1>c, <2>1, <2>2, <3>1, <3>2, <3>3 DEF Moved, Shape
  <2>3. CASE me.todo # <<>> /\ (~world.anonRole \/ Target.public) /\ pg' = pg /\ me' = SI!To("settle")
    <3>1. Walks("settle", me.todo, me.said) /\ me'.loc = me.loc BY <1>e, <2>3
    <3>2. Todo' = Todo /\ Current' = Current /\ (\A k, x : Untold(k, x)' <=> Untold(k, x)) BY <1>u, <1>j, <3>1
        DEF Untold, Walks
    <3>3. StorageIsolationKnow' BY <1>u, <1>c, <2>1, <2>3, <3>1, <3>2 DEF StorageIsolationKnow, Walks
    <3>4. ASSUME NEW e \in Truth.exposed, StorageIsolationPending(e) PROVE StorageIsolationPending(e)'
      <4>1. e.on # 0 /\ e.on \in Todo BY <2>1, <3>4 DEF StorageIsolationPending
      <4>2. e.on = Current => e.arm = "tenant" BY <1>r, <2>3, <4>1, StorageIsolationPoints
      <4> QED BY <3>1, <3>2, <4>1, <4>2 DEF StorageIsolationPending, Walks
    <3> QED BY <1>s, <1>c, <2>1, <2>3, <3>1, <3>3, <3>4 DEF Moved, Shape
  <2>4. CASE me.todo # <<>> /\ world.anonRole /\ ~Target.public /\ Live /\ pg' = Saved(pg) /\ me' = SI!To("listing")
    <3>1. Walks("listing", me.todo, me.said) /\ me'.loc = me.loc BY <1>e, <2>4
    <3>2. Todo' = Todo /\ Current' = Current /\ Target' = Target /\ (\A k, x : Untold(k, x)' <=> Untold(k, x))
      BY <1>u, <1>j, <3>1 DEF Untold, Walks
    <3>3. Live' /\ (Nobody(pg) => Nobody(pg')) /\ pg'.st \in {"open", "aborted", "lost"}
      BY <1>c, <1>h, <1>w, <2>1, <2>4, Saving DEF StorageIsolationKnow, Live, Session, Proper
    <3>4. StorageIsolationKnow' BY <1>u, <1>c, <2>1, <2>4, <3>1, <3>2, <3>3 DEF StorageIsolationKnow, Walks
    <3>5. \A e : StorageIsolationPending(e) => StorageIsolationPending(e)' BY <2>1, <3>1, <3>2
        DEF StorageIsolationPending, Walks
    <3> QED BY <1>s, <1>c, <2>1, <2>4, <3>1, <3>4, <3>5 DEF Moved, Shape
  <2> QED BY <1>e, <1>l, <2>1, <2>2, <2>3, <2>4
<1>6. CASE SI!BucketListing
  <2>0. PICK S0 : S0 = {[on |-> Current, arm |-> "listing", says |-> "leak"]} OBVIOUS
  <2>1. /\ me.at = "listing" /\ pg' \in {Undone(pg), Undone(Failed)}
        /\ \/ SI!Listed(Target) /\ me' = SI!Said(SI!To("settle"), Current, "listing", "leak")
           \/ (~SI!Listed(Target) \/ ~Live \/ Target.anon = "denied") /\ me' = SI!To("settle")
    BY <1>6, <1>o, Zenon DEF SI!BucketListing, SI!Guarded, SI!Do
  <2>2. /\ me.todo # <<>> /\ world.anonRole /\ ~Target.public /\ (fault = "none" => Live) /\ (1 \in Todo => Nobody(pg))
        /\ pg.st \in {"open", "aborted", "lost"} /\ Current \in Todo /\ Untold(Current, "listing")
    BY <1>c, <1>q, <2>1 DEF StorageIsolationKnow
  <2>3. Target = world.targets[Current] /\ Current \in 1..Count /\ Count \in Nat BY <1>c, <1>r, <2>2 DEF Shape
  <2>4. Moved /\ (Nobody(pg) => Nobody(pg')) /\ pg'.st \in {"open", "aborted", "lost"} BY <1>h, <1>w, <2>1, <2>2
      DEF Moved
  <2>5. PICK S : /\ S \in {S0, {}} /\ Walks("settle", me.todo, me.said \cup S) /\ me'.loc = me.loc
                 /\ S = S0 => SI!Listed(Target)
                 /\ S = {} => ~SI!Listed(Target) \/ ~Live \/ Target.anon = "denied"
    <3>1. CASE SI!Listed(Target) /\ me' = SI!Said(SI!To("settle"), Current, "listing", "leak")
      <4>1. Walks("settle", me.todo, me.said \cup S0) /\ me'.loc = me.loc BY <1>c, <2>0, <3>1 DEF SI!Said, SI!To,
          Walks, Shape
      <4>2. S0 # {} BY <2>0
      <4> QED BY <3>1, <4>1, <4>2
    <3>2. CASE (~SI!Listed(Target) \/ ~Live \/ Target.anon = "denied") /\ me' = SI!To("settle")
      <4>1. Walks("settle", me.todo, me.said) /\ me'.loc = me.loc BY <1>e, <3>2
      <4>2. S0 # {} /\ me.said = me.said \cup {} BY <2>0
      <4> QED BY <3>2, <4>1, <4>2
    <3> QED BY <2>1, <3>1, <3>2
  <2>6. SI!Open(Target.anon) => SI!Listed(Target) /\ Target.anon # "denied"
    <3>1. \E f \in SI!Folders(Target) : TRUE BY DEF SI!Folders
    <3> QED BY <3>1, StorageIsolationReach DEF SI!Listed, SI!Open
  <2>7. SI!Listed(Target) /\ Nobody(pg) => SI!Open(Target.anon)
    <3>1. \A f \in SI!Folders(Target) : f \in {"-", "A", "B"} BY DEF SI!Folders
    <3> QED BY <3>1, StorageIsolationReach DEF SI!Listed, Nobody
  <2>8. \A a \in S : a = [on |-> Current, arm |-> "listing", says |-> "leak"] /\ SI!Listed(Target) BY <2>0, <2>5
  <2>9. ASSUME NEW a \in S PROVE Meaning(a) /\ a.says # "clear"
    <3>1. a = [on |-> a.on, arm |-> a.arm, says |-> a.says] /\ a.says = "leak" /\ Key(a) = [on |-> Current, arm |-> "listing"]
      BY <2>8 DEF Key
    <3>2. CASE Current = 1
      <4>1. SI!Open(Target.anon) BY <2>2, <2>7, <2>8, <3>2
      <4>2. Key(a) \in Truth.exposed BY <2>2, <2>3, <3>1, <4>1, StorageIsolationPoints
      <4> QED BY <3>1, <4>2 DEF Meaning
    <3>3. CASE Current # 1
      <4>1. Current \in 2..Count BY <2>3, <3>3
      <4>2. Key(a) \in Truth.spurious BY <3>1, <4>1, StorageIsolationPoints
      <4> QED BY <3>1, <4>2 DEF Meaning
    <3> QED BY <3>2, <3>3
  <2>10. \A a \in S, b \in me.said : a.says = "leak" /\ b.on = a.on /\ b.arm = a.arm => b.says # "clear"
    BY <2>2, <2>8 DEF Untold
  <2>11. \A k, x : (k # Current \/ x # "listing") /\ Untold(k, x) => Untold(k, x)' BY <2>5, <2>8 DEF Untold, Walks
  <2>12. Todo' = Todo /\ Current' = Current BY <1>j, <2>5 DEF Walks
  <2>13. StorageIsolationKnow' BY <1>u, <1>c, <1>i, <2>1, <2>2, <2>4, <2>5, <2>11, <2>12 DEF StorageIsolationKnow,
      Walks
  <2>14. ASSUME NEW e \in Truth.exposed, StorageIsolationPending(e)
         PROVE  StorageIsolationPending(e)' \/ \E a \in S : a.on = e.on /\ a.arm = e.arm /\ a.says = "leak"
    <3>1. e.on # 0 /\ e.on \in Todo BY <2>1, <2>14 DEF StorageIsolationPending
    <3>2. CASE e.on = Current /\ e.arm = "listing" /\ fault = "none"
      <4>1. SI!Open(Target.anon) BY <2>3, <3>2, StorageIsolationPoints
      <4>2. S = S0 BY <2>2, <2>5, <2>6, <3>2, <4>1
      <4> QED BY <2>0, <3>2, <4>2
    <3>3. CASE ~(e.on = Current /\ e.arm = "listing" /\ fault = "none")
      <4>1. e.on = Current => e.arm \in {"tenant", "listing"} BY <3>1, StorageIsolationPoints
      <4>2. me'.at = "settle" /\ fault' = fault BY <1>u, <2>5 DEF Walks
      <4> QED BY <2>12, <3>1, <3>3, <4>1, <4>2 DEF StorageIsolationPending
    <3> QED BY <3>2, <3>3
  <2>15. Queue(me.todo) BY <1>c DEF Shape
  <2> QED BY <1>m, <2>1, <2>4, <2>5, <2>9, <2>10, <2>13, <2>14, <2>15
<1>7. CASE SI!SettleBucket
  <2> DEFINE says == IF Target.public /\ Target.folders = "two" THEN "leak" ELSE "note"
  <2>1. /\ me.at = "settle"
        /\ \/ SI!Settled /\ pg' = pg /\ me' = SI!Onward(SI!Said(me, Current, "tenant", says))
           \/ ~SI!Settled /\ Live /\ pg' = AsRole(pg, "app") /\ me' = SI!To("check")
           \/ pg' = Failed /\ me' = SI!Thrown
    <3>1. \/ me.at = "settle" /\ SI!Settled /\ SI!Do(pg, SI!Onward(SI!Said(me, Current, "tenant", says)))
          \/ me.at = "settle" /\ ~SI!Settled /\ SI!Await("settle", ~world.member, SI!AsRole(pg, "app"), SI!To("check"))
      BY <1>7, <1>o, Zenon DEF SI!SettleBucket
    <3> HIDE DEF says
    <3>2. CASE me.at = "settle" /\ SI!Settled /\ SI!Do(pg, SI!Onward(SI!Said(me, Current, "tenant", says)))
      BY <3>2, Zenon DEF SI!Do
    <3>3. CASE me.at = "settle" /\ ~SI!Settled /\ SI!Await("settle", ~world.member, SI!AsRole(pg, "app"), SI!To("check"))
      BY <1>o, <3>3, Zenon DEF SI!Await, SI!Do
    <3> QED BY <3>1, <3>2, <3>3
  <2>2. me.todo # <<>> /\ Current \in Todo /\ Untold(Current, "tenant") /\ me.loc.failed = "no"
    BY <1>c, <1>q, <2>1 DEF StorageIsolationKnow
  <2>3. Target = world.targets[Current] /\ Current \in 1..Count BY <1>r, <2>2
  <2>4. SI!Settled <=> Target.public \/ Target.folders # "two" BY <1>o DEF SI!Settled
  <2>5. CASE SI!Settled /\ pg' = pg /\ me' = SI!Onward(SI!Said(me, Current, "tenant", says))
    <3>1. says \in {"leak", "note"} /\ (says = "leak" <=> Target.public /\ Target.folders = "two") OBVIOUS
    <3> HIDE DEF says
    <3>2. PICK S : S = {[on |-> Current, arm |-> "tenant", says |-> says]} OBVIOUS
    <3>3. Walks("next", Tail(me.todo), me.said \cup S) /\ me'.loc = me.loc
      BY <1>c, <2>5, <3>2 DEF Shape, SI!Onward, SI!Said, Walks
    <3>4. Walks("next", Tail(me.todo), me'.said) BY <3>3 DEF Walks
    <3>5. [on |-> Current, arm |-> "tenant"] \in Truth.exposed <=> says = "leak" BY <2>3, <2>4, <2>5, <3>1,
        StorageIsolationPoints
    <3>6. ASSUME NEW a \in S PROVE Meaning(a) /\ a.says # "clear"
      <4>1. a = [on |-> a.on, arm |-> a.arm, says |-> a.says] /\ a.says = says /\ Key(a) = [on |-> Current, arm |-> "tenant"]
        BY <3>2 DEF Key
      <4> QED BY <3>1, <3>5, <4>1 DEF Meaning
    <3>7. \A a \in S, b \in me.said : a.says = "leak" /\ b.on = a.on /\ b.arm = a.arm => b.says # "clear"
      BY <2>2, <3>2 DEF Untold
    <3>8. \A k, x : k # Current /\ Untold(k, x) => Untold(k, x)' BY <3>2, <3>3 DEF Untold, Walks
    <3>9. StorageIsolationKnow' /\ Moved /\ \A e : StorageIsolationPending(e) /\ e.on # Current => StorageIsolationPending(e)'
      BY <1>n, <2>1, <2>2, <2>5, <3>3, <3>4, <3>8
    <3>10. ASSUME NEW e \in Truth.exposed, StorageIsolationPending(e), e.on = Current
           PROVE  \E a \in S : a.on = e.on /\ (fault = "none" /\ e \in Truth.provable => a.arm = e.arm /\ a.says = "leak")
      <4>1. e.arm = "tenant" \/ fault # "none" BY <2>1, <3>10 DEF StorageIsolationPending
      <4>2. e.arm = "tenant" => says = "leak" BY <3>5, <3>10, StorageIsolationPoints
      <4> QED BY <3>2, <3>10, <4>1, <4>2
    <3> QED BY <1>m, <1>q, <2>1, <2>2, <3>3, <3>6, <3>7, <3>9, <3>10
  <2>6. CASE ~SI!Settled /\ Live /\ pg' = AsRole(pg, "app") /\ me' = SI!To("check")
    <3>1. Walks("check", me.todo, me.said) /\ me'.loc = me.loc BY <1>e, <2>6
    <3>2. Todo' = Todo /\ Current' = Current /\ Target' = Target /\ (\A k, x : Untold(k, x)' <=> Untold(k, x))
      BY <1>u, <1>j, <3>1 DEF Untold, Walks
    <3>3. (Nobody(pg) => Nobody(pg')) /\ pg'.st \in {"open", "aborted", "lost"} BY <1>c, <1>h, <1>w, <2>1, <2>6
        DEF StorageIsolationKnow
    <3>4. StorageIsolationKnow' BY <1>u, <1>c, <1>i, <2>1, <2>4, <2>6, <3>1, <3>2, <3>3 DEF StorageIsolationKnow,
        Walks
    <3>5. \A e : StorageIsolationPending(e) => StorageIsolationPending(e)' BY <1>u, <2>1, <3>1, <3>2
        DEF StorageIsolationPending, Walks
    <3> QED BY <1>s, <1>c, <2>1, <2>6, <3>1, <3>4, <3>5 DEF Moved, Shape, Roles
  <2> QED BY <1>e, <1>l, <2>1, <2>5, <2>6
\* On to the next probe of the bucket at hand.
<1>f. ASSUME NEW at \in {"uploads", "reset"}, Walks(at, me.todo, me.said), Moved, me.at \in {"reads", "uploads"}, StorageIsolationKnow'
      PROVE  Common' /\ StorageIsolationInv' /\ Plays
  <2>1. Todo' = Todo /\ Current' = Current BY <1>j, <1>f DEF Walks
  <2>2. \A e : StorageIsolationPending(e) => StorageIsolationPending(e)' BY <1>u, <1>f, <2>1
      DEF StorageIsolationPending, Walks
  <2> QED BY <1>s, <1>c, <1>f, <2>2 DEF Shape
<1>8. CASE SI!ProbeReads
  <2> DEFINE who == SI!Becomes("B")
             cross == SI!Reaches(SI!Target.reads, SI!Becomes("A"), "B") \/ SI!Reaches(SI!Target.reads, SI!Becomes("B"), "A")
             own == SI!Reaches(SI!Target.reads, SI!Becomes("A"), "A")
             failed == IF pg.st = "open" /\ world.hook # "fails" THEN "denied" ELSE "error"
  <2>1. /\ me.at = "reads"
        /\ \/ Live /\ pg' = Acting(pg, who) /\ me' = [SI!To("uploads") EXCEPT !.loc.cross = cross, !.loc.own = own]
           \/ pg' = Failed /\ me' = [SI!To("reset") EXCEPT !.loc.failed = failed]
    BY <1>8, <1>o, Zenon DEF SI!ProbeReads, SI!Attempt, SI!Do
  <2>2. /\ me.todo # <<>> /\ pg.st \in {"open", "aborted", "lost"} /\ me.loc.failed = "no"
        /\ world.hook = "other" => pg.who = "nobody"
    BY <1>c, <1>i, <2>1 DEF StorageIsolationKnow, Nobody
  <2>3. \A x : SI!Becomes(x) = (IF world.hook = "other" THEN pg.who ELSE x) BY DEF SI!Becomes
  <2>4. cross <=> SI!Open(Target.reads)
    <3>1. SI!Becomes("A") # "B" /\ SI!Becomes("B") # "A" BY <2>2, <2>3
    <3> QED BY <1>o, <3>1, StorageIsolationReach
  <2>5. failed # "no" OBVIOUS
  <2>6. who = (IF world.hook = "other" THEN pg.who ELSE "B") BY <2>3
  <2> HIDE DEF cross, own, failed, who
  <2>7. CASE Live /\ pg' = Acting(pg, who) /\ me' = [SI!To("uploads") EXCEPT !.loc.cross = cross, !.loc.own = own]
    <3>1. Walks("uploads", me.todo, me.said) /\ DOMAIN me'.loc = DOMAIN me.loc /\ me'.loc.cross = cross /\ me'.loc.failed = me.loc.failed
      <4>1. Walks("uploads", me.todo, me.said) /\ me'.loc = [me.loc EXCEPT !.cross = cross, !.own = own]
        BY <1>c, <2>7 DEF SI!To, Walks, Shape
      <4> QED BY <1>k, <4>1
    <3>2. pg'.who = who /\ pg'.st \in {"open", "aborted", "lost"} /\ pg'.st = pg.st BY <1>c, <1>w, <2>2, <2>7
        DEF Acting, Session, Proper, Sound
    <3>3. world.hook = "other" => Nobody(pg') BY <1>h, <1>i, <2>1, <2>2, <2>6, <2>7
    <3>4. pg'.who # "A" BY <2>2, <2>6, <3>2
    <3>5. Todo' = Todo /\ Current' = Current /\ Target' = Target /\ (\A k, x : Untold(k, x)' <=> Untold(k, x))
      BY <1>u, <1>j, <3>1 DEF Untold, Walks
    <3>6. SI!Open(Target.reads)' <=> SI!Open(Target.reads) BY <1>u, <3>5 DEF SI!Open
    <3>9. pg'.st # "aborted" BY <2>7, <3>2 DEF Live
    <3>7. StorageIsolationKnow' BY <1>u, <1>c, <2>1, <2>2, <2>4, <3>1, <3>2, <3>3, <3>4, <3>5, <3>6, <3>9
        DEF StorageIsolationKnow, Walks
    <3>8. Moved BY <2>7 DEF Moved
    <3> QED BY <1>f, <2>1, <3>1, <3>7, <3>8
  <2>8. CASE pg' = Failed /\ me' = [SI!To("reset") EXCEPT !.loc.failed = failed]
    <3>1. Walks("reset", me.todo, me.said) /\ DOMAIN me'.loc = DOMAIN me.loc /\ me'.loc.failed = failed
      <4>1. Walks("reset", me.todo, me.said) /\ me'.loc = [me.loc EXCEPT !.failed = failed] BY <1>c, <2>8 DEF SI!To,
          Walks, Shape
      <4> QED BY <1>k, <4>1
    <3>2. (Nobody(pg) => Nobody(pg')) /\ ~Live' /\ pg'.st \in {"open", "aborted", "lost"} BY <1>h, <1>w, <2>2, <2>8
    <3>3. Todo' = Todo /\ Current' = Current /\ Target' = Target /\ (\A k, x : Untold(k, x)' <=> Untold(k, x))
      BY <1>u, <1>j, <3>1 DEF Untold, Walks
    <3>4. StorageIsolationKnow' BY <1>u, <1>c, <1>i, <2>1, <2>2, <2>5, <3>1, <3>2, <3>3 DEF StorageIsolationKnow,
        Walks
    <3>5. Moved BY <2>8 DEF Moved
    <3> QED BY <1>f, <2>1, <3>1, <3>4, <3>5
  <2> QED BY <2>1, <2>7, <2>8
<1>9. CASE SI!ProbeUpload
  <2> DEFINE own == SI!Reaches(SI!Target.writes, pg.who, "B")
             hop == own /\ SI!Reaches(SI!Target.writes, pg.who, "A")
             oh == world.uploads /\ own
             hp == world.uploads /\ hop
  <2>1. /\ me.at = "uploads"
        /\ \/ Live /\ pg' = pg /\ me' = [SI!To("reset") EXCEPT !.loc.ownHop = oh, !.loc.hop = hp]
           \/ ~Live /\ pg' = Failed /\ me' = [SI!To("reset") EXCEPT !.loc.failed = IF world.uploads THEN "error" ELSE @]
           \/ world.uploads /\ pg.st = "aborted" /\ pg' = [pg EXCEPT !.st = "open"]
              /\ me' = [SI!To("reset") EXCEPT !.loc.ownHop = FALSE, !.loc.hop = FALSE]
    BY <1>9, <1>o, Zenon DEF SI!ProbeUpload, SI!Attempt, SI!Do
  <2>2. /\ me.todo # <<>> /\ pg.st \in {"open", "aborted", "lost"} /\ me.loc.failed = "no" /\ pg.who # "A"
        /\ me.loc.cross <=> SI!Open(Target.reads)
    BY <1>c, <2>1 DEF StorageIsolationKnow
  <2>3. hop <=> SI!Open(Target.writes) BY <1>o, <2>2, StorageIsolationReach
  <2>4. hp <=> world.uploads /\ SI!Open(Target.writes) BY <2>3
  <2>5. fault # "lost" => pg.st # "lost" BY <1>c, <2>1 DEF Session
  <2>6. pg.st = "aborted" => fault = "cancelled" BY <1>c, <2>1 DEF StorageIsolationKnow
  <2> HIDE DEF hop, hp, oh
  <2>7. CASE Live /\ pg' = pg /\ me' = [SI!To("reset") EXCEPT !.loc.ownHop = oh, !.loc.hop = hp]
    <3>1. Walks("reset", me.todo, me.said) /\ DOMAIN me'.loc = DOMAIN me.loc /\ me'.loc.failed = me.loc.failed /\ me'.loc.cross = me.loc.cross /\ me'.loc.hop = hp
      <4>1. Walks("reset", me.todo, me.said) /\ me'.loc = [me.loc EXCEPT !.ownHop = oh, !.hop = hp]
        BY <1>c, <2>7 DEF SI!To, Walks, Shape
      <4> QED BY <1>k, <4>1
    <3>2. Todo' = Todo /\ Current' = Current /\ Target' = Target /\ (\A k, x : Untold(k, x)' <=> Untold(k, x))
      BY <1>u, <1>j, <3>1 DEF Untold, Walks
    <3>3. \A x : SI!Open(x)' <=> SI!Open(x) BY <1>u DEF SI!Open
    <3>4. StorageIsolationKnow' BY <1>u, <1>c, <2>1, <2>2, <2>4, <2>7, <3>1, <3>2, <3>3 DEF StorageIsolationKnow,
        Walks
    <3>5. Moved BY <2>7 DEF Moved
    <3> QED BY <1>f, <2>1, <3>1, <3>4, <3>5
  <2>8. CASE ~Live /\ pg' = Failed /\ me' = [SI!To("reset") EXCEPT !.loc.failed = IF world.uploads THEN "error" ELSE @]
    <3>1. PICK failed : failed = IF world.uploads THEN "error" ELSE me.loc.failed OBVIOUS
    <3>2. Walks("reset", me.todo, me.said) /\ DOMAIN me'.loc = DOMAIN me.loc /\ me'.loc.cross = me.loc.cross
      <4>1. Walks("reset", me.todo, me.said) /\ me'.loc = [me.loc EXCEPT !.failed = failed] BY <1>c, <1>k, <2>8, <3>1
          DEF SI!To, Walks, Shape
      <4> QED BY <1>k, <4>1
    <3>3. (Nobody(pg) => Nobody(pg')) /\ ~Live' /\ pg'.st \in {"open", "aborted", "lost"} BY <1>h, <1>w, <2>2, <2>8
    <3>4. Todo' = Todo /\ Current' = Current /\ Target' = Target /\ (\A k, x : Untold(k, x)' <=> Untold(k, x))
      BY <1>u, <1>j, <3>2 DEF Untold, Walks
    <3>5. \A x : SI!Open(x)' <=> SI!Open(x) BY <1>u DEF SI!Open
    <3>6. StorageIsolationKnow' BY <1>u, <1>c, <1>i, <2>1, <2>2, <3>2, <3>3, <3>4, <3>5 DEF StorageIsolationKnow,
        Walks
    <3>7. Moved BY <2>8 DEF Moved
    <3> QED BY <1>f, <2>1, <3>2, <3>6, <3>7
  <2>9. CASE /\ world.uploads /\ pg.st = "aborted" /\ pg' = [pg EXCEPT !.st = "open"]
             /\ me' = [SI!To("reset") EXCEPT !.loc.ownHop = FALSE, !.loc.hop = FALSE]
    <3>1. Walks("reset", me.todo, me.said) /\ DOMAIN me'.loc = DOMAIN me.loc /\ me'.loc.failed = me.loc.failed /\ me'.loc.cross = me.loc.cross /\ me'.loc.hop = FALSE
      <4>1. Walks("reset", me.todo, me.said) /\ me'.loc = [me.loc EXCEPT !.ownHop = FALSE, !.hop = FALSE]
        BY <1>c, <2>9 DEF SI!To, Walks, Shape
      <4> QED BY <1>k, <4>1
    <3>2. Todo' = Todo /\ Current' = Current /\ Target' = Target /\ (\A k, x : Untold(k, x)' <=> Untold(k, x))
      BY <1>u, <1>j, <3>1 DEF Untold, Walks
    <3>3. \A x : SI!Open(x)' <=> SI!Open(x) BY <1>u DEF SI!Open
    <3>4. (Nobody(pg) => Nobody(pg')) /\ pg'.st = "open" BY <1>c, <1>h, <2>9, Connecting DEF Session, Proper
    <3>5. StorageIsolationKnow' BY <1>u, <1>c, <1>i, <2>1, <2>2, <2>6, <2>9, <3>1, <3>2, <3>3, <3>4
        DEF StorageIsolationKnow, Walks
    <3>6. Moved BY <2>9 DEF Moved
    <3> QED BY <1>f, <2>1, <3>1, <3>5, <3>6
  <2> QED BY <2>1, <2>7, <2>8, <2>9
<1>10. CASE SI!ResetRole
  <2> DEFINE says == SI!ClassifyBucket(me.loc)
             m == SI!Said(me, Current, "tenant", says)
  <2>1. /\ me.at = "reset"
        /\ \/ Live /\ pg' = AsRole(pg, "conn") /\ me' = SI!Onward([m EXCEPT !.loc.failed = "no"])
           \/ pg' = Failed /\ me' = SI!Thrown
    BY <1>10, <1>o, Zenon DEF SI!ResetRole, SI!Await, SI!Do
  <2>2. CASE Live /\ pg' = AsRole(pg, "conn") /\ me' = SI!Onward([m EXCEPT !.loc.failed = "no"])
    <3>1. /\ me.todo # <<>> /\ me.loc.failed = "no" /\ (me.loc.cross <=> SI!Open(Target.reads)) /\ ~Target.public /\ Target.folders = "two"
          /\ me.loc.hop => world.uploads /\ SI!Open(Target.writes)
          /\ world.uploads /\ SI!Open(Target.writes) => me.loc.hop \/ fault = "cancelled"
          /\ Current \in Todo /\ Untold(Current, "tenant")
      BY <1>c, <1>q, <2>1, <2>2 DEF StorageIsolationKnow
    <3>2. says \in {"leak", "note", "clear"} /\ (says = "leak" <=> me.loc.cross \/ me.loc.hop) BY <3>1
        DEF SI!ClassifyBucket
    <3> HIDE DEF says
    <3>3. PICK s : s = says OBVIOUS
    <3>4. /\ DOMAIN m = DOMAIN me /\ m.said = me.said \cup {[on |-> Current, arm |-> "tenant", says |-> s]} /\ m.todo = me.todo
          /\ m.loc = me.loc /\ m.thrown = me.thrown /\ m.result = me.result
      BY <1>c, <3>3 DEF SI!Said, Shape
    <3> HIDE DEF m
    <3>5. /\ Walks("next", Tail(me.todo), me.said \cup {[on |-> Current, arm |-> "tenant", says |-> s]})
          /\ me'.loc = [me.loc EXCEPT !.failed = "no"]
      BY <1>c, <2>2, <3>4 DEF SI!Onward, Walks, Shape
    <3>6. DOMAIN me'.loc = DOMAIN me.loc /\ me'.loc.failed = "no" BY <1>k, <3>5
    <3>7. Target = world.targets[Current] /\ Current \in 1..Count BY <1>r, <3>1
    <3>8. s = "leak" => [on |-> Current, arm |-> "tenant"] \in Truth.exposed BY <3>1, <3>2, <3>3, <3>7,
        StorageIsolationPoints
    <3>9. [on |-> Current, arm |-> "tenant"] \in Truth.exposed => s = "leak" \/ [on |-> Current, arm |-> "tenant"] \in Truth.blind
      <4>1. SUFFICES ASSUME [on |-> Current, arm |-> "tenant"] \in Truth.exposed, s # "leak" PROVE [on |-> Current, arm |-> "tenant"] \in Truth.blind OBVIOUS
      <4>2. SI!Open(Target.reads) \/ (world.uploads /\ SI!Open(Target.writes)) BY <3>1, <3>7, <4>1,
          StorageIsolationPoints
      <4>3. fault = "cancelled" /\ ~SI!Open(Target.reads) BY <3>1, <3>2, <3>3, <4>1, <4>2
      <4> QED BY <3>1, <3>7, <4>1, <4>3, StorageIsolationPoints
    <3>10. s \in {"leak", "note", "clear"} BY <3>2, <3>3
    <3>11. /\ Meant'
           /\ \A e : Done(e) => Done(e)'
           /\ \A e : e.on = Current /\ e.arm = "tenant" /\ s = "leak" => Done(e)'
           /\ \A e : e.on = Current /\ s # "clear" /\ (fault # "none" \/ e \notin Truth.provable) => Done(e)'
           /\ \A k, x : (k # Current \/ x # "tenant" \/ s = "note") /\ Untold(k, x) => Untold(k, x)'
      BY <1>u, <1>t, <1>c, <3>1, <3>5, <3>8, <3>9, <3>10, Telling DEF Walks
    <3>12. Walks("next", Tail(me.todo), me'.said) BY <3>5 DEF Walks
    <3>13. StorageIsolationKnow' /\ Moved /\ \A e : StorageIsolationPending(e) /\ e.on # Current => StorageIsolationPending(e)'
      BY <1>n, <2>1, <2>2, <3>6, <3>11, <3>12
    <3>14. \A e \in Truth.blind : Done(e)'
      BY <1>u, <1>t, StorageIsolationPoints DEF Done
    <3>15. ASSUME NEW e \in Truth.exposed, StorageIsolationPending(e), e.on = Current PROVE Done(e)'
      <4>1. CASE e.arm = "tenant"
        <5>1. e = [on |-> Current, arm |-> "tenant"] BY <3>15, <4>1, StorageIsolationPoints
        <5> QED BY <3>9, <3>11, <3>14, <3>15, <4>1, <5>1
      <4>2. CASE e.arm # "tenant"
        <5>1. fault # "none" BY <2>1, <3>15, <4>2 DEF StorageIsolationPending
        <5>2. fault = "cancelled" BY <1>c, <2>1, <2>2, <5>1 DEF Session, Live
        <5>3. e.arm = "listing" BY <1>0, <3>1, <3>15, <4>2, StorageIsolationPoints
        <5>4. e \in Truth.blind BY <3>15, <5>2, <5>3, StorageIsolationPoints
        <5> QED BY <3>14, <5>4
      <4> QED BY <4>1, <4>2
    <3>16. Shape'
      <4>1. Queue(Tail(me.todo)) BY <1>q, <3>1
      <4> QED BY <1>u, <1>c, <2>1, <3>5, <4>1, Going
    <3>17. Session' BY <1>u, <1>c, <2>1, <3>13, <3>5, Moving DEF Walks
    <3>18. (Counts' => Counts) /\ Plays BY <2>1, <3>5 DEF Walks, Counts, Plays
    <3> QED BY <1>t, <3>11, <3>13, <3>15, <3>16, <3>17, <3>18 DEF Common, StorageIsolationInv
  <2> QED BY <1>e, <1>l, <2>1, <2>2
<1>11. CASE SI!RollBack("after")
  <2>1. /\ me.at = "finally" /\ Common' /\ Plays /\ me'.at = (IF me.thrown THEN "close" ELSE "after")
        /\ me'.thrown = me.thrown /\ me'.result = me.result
        /\ me'.loc = me.loc /\ me'.said = me.said /\ me'.todo = me.todo /\ (Counts' <=> Counts)
        /\ pg' \in {pg, RolledBack(pg)} /\ (pg.st \notin {"open", "aborted"} => pg' = pg)
    BY <1>b, <1>t, <1>11, RollsBack
  <2>2. (\A e : Done(e)' <=> Done(e)) /\ (Unclear' <=> Unclear) BY <1>u, <1>t, <1>c, <2>1, Quiet
  <2>3. StorageIsolationKnow' BY <1>u, <1>c, <2>1, <2>2, <1>h, <1>i DEF StorageIsolationKnow
  <2>4. \A e \in Truth.exposed : StorageIsolationPending(e) /\ Counts => StorageIsolationPending(e)'
    BY <1>u, <2>1 DEF StorageIsolationPending
  <2> QED BY <1>t, <2>1, <2>2, <2>3, <2>4 DEF StorageIsolationInv
<1>12. CASE SI!ClassifyOrphans
  <2>0. PICK S0 : S0 = {[on |-> 0, arm |-> "orphans", says |-> "note"]} OBVIOUS
  <2>1. /\ me.at = "after" /\ pg' \in {pg, Failed}
        /\ me' = SI!Said(SI!To("close"), 0, "orphans", "note") \/ me' = SI!To("close")
    BY <1>12, <1>o, Zenon DEF SI!ClassifyOrphans, SI!Attempt, SI!Do
  <2>2. PICK S : S \in {S0, {}} /\ Walks("close", me.todo, me.said \cup S) /\ me'.loc = me.loc
    <3>1. CASE me' = SI!Said(SI!To("close"), 0, "orphans", "note")
      <4>1. Walks("close", me.todo, me.said \cup S0) /\ me'.loc = me.loc BY <1>c, <2>0, <3>1 DEF SI!Said, SI!To,
          Walks, Shape
      <4> QED BY <4>1
    <3>2. CASE me' = SI!To("close")
      <4>1. Walks("close", me.todo, me.said) /\ me'.loc = me.loc BY <1>e, <3>2
      <4>2. me.said = me.said \cup {} OBVIOUS
      <4> QED BY <4>1, <4>2
    <3> QED BY <2>1, <3>1, <3>2
  <2>3. \A a \in S : a = [on |-> a.on, arm |-> a.arm, says |-> a.says] /\ a.says = "note" BY <2>0, <2>2
  <2>4. \A a \in S : Meaning(a) /\ a.says # "clear" BY <2>3 DEF Meaning
  <2>5. \A a \in S, b \in me.said : a.says = "leak" /\ b.on = a.on /\ b.arm = a.arm => b.says # "clear" BY <2>3
  <2>6. Moved /\ (Nobody(pg) => Nobody(pg')) BY <1>h, <2>1 DEF Moved
  <2>7. StorageIsolationKnow' BY <1>u, <1>c, <1>i, <2>1, <2>2, <2>6 DEF StorageIsolationKnow, Walks
  <2>8. \A e : ~StorageIsolationPending(e) BY <2>1 DEF StorageIsolationPending
  <2>9. Queue(me.todo) BY <1>c DEF Shape
  <2> QED BY <1>m, <2>1, <2>2, <2>4, <2>5, <2>6, <2>7, <2>8, <2>9
<1>13. CASE SI!Connect
  <2>1. /\ me.at = "start" /\ Common' /\ Plays /\ me'.loc = me.loc /\ me'.said = {} /\ me'.todo = me.todo
        /\ \/ me'.at = "plan" /\ pg' = [pg EXCEPT !.st = "idle"] /\ pg'.st = "idle" /\ Whole(me'.todo)
           \/ me'.at = "done" /\ ~Counts' /\ pg' = pg
    BY <1>b, <1>t, <1>13, Connects
  <2>2. StorageIsolationKnow' BY <1>u, <1>c, <2>1, <1>h, <1>i DEF StorageIsolationKnow, Unclear
  <2>3. Counts' => \A e : StorageIsolationPending(e)' BY <2>1 DEF StorageIsolationPending
  <2> QED BY <2>1, <2>2, <2>3 DEF StorageIsolationInv
<1>14. CASE SI!Disconnect
  <2>1. /\ me.at = "close" /\ Common' /\ Plays /\ me'.at = "done"
        /\ me'.loc = me.loc /\ me'.said = me.said /\ me'.todo = me.todo /\ (Counts' => Counts)
    BY <1>b, <1>t, <1>14, Disconnects
  <2>2. (\A e : Done(e)' <=> Done(e)) /\ (Unclear' <=> Unclear) BY <1>u, <1>t, <1>c, <2>1, Quiet
  <2>3. StorageIsolationKnow' BY <1>u, <1>c, <2>1, <2>2 DEF StorageIsolationKnow
  <2>4. \A e : ~StorageIsolationPending(e) BY <2>1 DEF StorageIsolationPending
  <2> QED BY <1>t, <2>1, <2>2, <2>3, <2>4 DEF StorageIsolationInv
<1> QED BY <1>1, <1>2, <1>3, <1>4, <1>5, <1>6, <1>7, <1>8, <1>9, <1>10, <1>11, <1>12, <1>13, <1>14 DEF SI!Next,
    SI!Check, SI!Run, SI!SelfCheck

\* So does a fault, whenever it strikes.
LEMMA StorageIsolationStruck ==
  ASSUME Common, StorageIsolationInv, world.guard = "storage-isolation", Drop \/ Cancel
  PROVE  Common' /\ StorageIsolationInv'
<1>1. world' = world /\ fault = "none" BY DEF Drop, Cancel
<1>2. Truth'.exposed = Truth.exposed /\ Truth.blind \subseteq Truth'.blind /\ Truth.spurious \subseteq Truth'.spurious
  <2>1. Truth = SI!Truth /\ Truth' = SI!Truth' BY <1>1 DEF Truth
  <2>2. SI!Exposed' = SI!Exposed BY <1>1 DEF SI!Exposed, SI!Open
  <2>3. SI!Blind \subseteq SI!Blind' BY <1>1, <2>2 DEF SI!Blind, SI!Open
  <2>4. SI!Spurious \subseteq SI!Spurious' BY <1>1 DEF SI!Spurious
  <2> QED BY <2>1, <2>2, <2>3, <2>4 DEF SI!Truth
<1>3. /\ me' = me /\ fault' # "none" /\ Common'
      /\ \/ fault' = "lost" /\ pg'.st = "lost" /\ pg'.who = "nobody" /\ pg'.saves = <<>>
         \/ fault' = "cancelled" /\ pg.st = "open" /\ pg'.st = "aborted" /\ pg' = Failed
      /\ \A e : Done(e) => Done(e)'
      /\ \A k, x : Untold(k, x)' <=> Untold(k, x)
      /\ Unclear' <=> Unclear
  BY <1>2, Striking
<1>6. Nobody(pg) => Nobody(pg')
  <2>1. pg' = Failed /\ Nobody(pg) => Nobody(pg') BY Unnamed DEF Common, Session, Proper
  <2>2. pg'.who = "nobody" /\ pg'.saves = <<>> => Nobody(pg') BY DEF Nobody
  <2> QED BY <1>3, <2>1, <2>2
<1>4. StorageIsolationKnow'
  <2>1. StorageIsolationKnow BY DEF StorageIsolationInv
  <2>2. Todo' = Todo /\ Current' = Current /\ Target' = Target /\ (Whole(me.todo) => Whole(me.todo)')
    BY <1>1, <1>3 DEF Todo, Current, Target, Whole, Count
  <2>3. \A x : SI!Open(x)' <=> SI!Open(x) BY <1>1 DEF SI!Open
  <2>4. ~Live' /\ pg'.st \in {"aborted", "lost"} /\ (pg'.st = "aborted" => fault' = "cancelled") BY <1>3 DEF Live
  <2>5. pg.who # "A" => pg'.who # "A"
    <3>1. Sound(pg) BY DEF Common, Session, Proper
    <3> QED BY <1>3, <3>1 DEF Failed, Sound
  <2>6. me.at \notin {"plan", "begin"} \/ pg'.st = "lost"
    <3>1. me.at \in {"plan", "begin"} => pg.st # "open" BY <2>1 DEF StorageIsolationKnow
    <3> QED BY <1>3, <3>1
  <2>7. /\ DOMAIN me'.loc = {"canary", "cross", "own", "hop", "ownHop", "failed"}
        /\ me'.at # "done" /\ world'.hook = "other" => Nobody(pg')
        /\ me'.at \in {"begin", "canary"} => Whole(me.todo)'
        /\ me'.at \in {"start", "plan", "begin", "canary"} => Nobody(pg')
        /\ me'.at \in {"plan", "begin"} => pg'.st \in {"idle", "lost"}
    BY <1>1, <1>3, <1>6, <2>1, <2>2, <2>6 DEF StorageIsolationKnow
  <2>8. me'.at \in {"begin", "canary", "next", "listing", "settle", "check", "reads", "uploads", "reset"} =>
          \A k \in Todo' : /\ Untold(k, "tenant")'
                           /\ Untold(k, "listing")' \/ (k = Current' /\ me'.at \in {"settle", "check", "reads", "uploads", "reset"})
    BY <1>3, <2>1, <2>2 DEF StorageIsolationKnow
  <2>9. me'.at \in {"uploads", "reset"} /\ me'.loc.failed = "no" => (me'.loc.cross <=> SI!Open(Target.reads)')
    BY <1>3, <2>1, <2>2, <2>3 DEF StorageIsolationKnow, SI!Open
  <2> QED BY <1>1, <1>3, <1>6, <2>1, <2>2, <2>4, <2>5, <2>7, <2>8, <2>9 DEF StorageIsolationKnow
<1>5. \A e : StorageIsolationPending(e) => StorageIsolationPending(e)' BY <1>1, <1>3 DEF StorageIsolationPending,
    Todo, Current
<1> QED BY <1>2, <1>3, <1>4, <1>5 DEF StorageIsolationInv, Counts

\* Storage-isolation begins so.
LEMMA StorageIsolationBegins == ASSUME SI!Init PROVE Common /\ StorageIsolationInv /\ world.guard = "storage-isolation"
<1>1. Begins("storage-isolation") /\ me.loc = [canary |-> FALSE, cross |-> FALSE, own |-> FALSE, hop |-> FALSE, ownHop |-> FALSE, failed |-> "no"]
  BY WorldAssumption DEF Names, Begins, Whole, Count, Closed, SI!Init, SI!Enter, SI!Entered, SI!Closed
<1>2. Common BY <1>1, Beginning DEF Names
<1>3. StorageIsolationKnow BY <1>1 DEF StorageIsolationKnow, Begins, Unclear, Nobody, Closed
<1> QED BY <1>1, <1>2, <1>3 DEF StorageIsolationInv, StorageIsolationPending, Begins

\* A step of nobody keeps it.
LEMMA StorageIsolationStays ==
  ASSUME Common, StorageIsolationInv, world.guard = "storage-isolation", UNCHANGED vars
  PROVE  Common' /\ StorageIsolationInv'
<1>1. world' = world /\ fault' = fault /\ pg' = pg /\ me' = me BY DEF vars
<1>2. Truth' = Truth BY <1>1, StorageIsolationSame
<1>3. Common' /\ (\A e : Done(e)' <=> Done(e)) /\ (Counts' <=> Counts) BY <1>1, <1>2, Resting
<1>4. StorageIsolationKnow' /\ (\A e : StorageIsolationPending(e)' <=> StorageIsolationPending(e))
  BY <1>1, <1>2 DEF StorageIsolationInv, StorageIsolationKnow, StorageIsolationPending, Nobody, Whole, Todo, Untold,
      Current, Target, Live, SI!Open,
           Shape, Walks, Queue, Count, Meant, Unclear, Done, Meaning, Key, Agreed, Heard, Found, Common, Leaves,
           Counts, Plays, Elems, Lists, Results, Session, Moved, Roles, Proper
<1> QED BY <1>2, <1>3, <1>4 DEF StorageIsolationInv

\* At the end nothing is pending, and a question is a target and an arm.
LEMMA StorageIsolationEnds ==
  ASSUME Common, world.guard = "storage-isolation", StorageIsolationInv, me.at = "done", Counts
  PROVE  /\ \A e \in Truth.exposed : e = Key(e) /\ Done(e)
         /\ Truth.provable \subseteq Truth.exposed
<1>1. \A e : ~StorageIsolationPending(e) BY DEF StorageIsolationPending
<1> QED BY <1>1, StorageIsolationPoints DEF StorageIsolationInv, Key

-----------------------------------------------------------------------------
(* realtime-isolation.                                                     *)
RealtimeIsolationProbes == {"forward", "reverse", "own", "publish", "other", "intrude", "reset"}

\* The messages have no answer yet, and what the probes have recorded is what the
\* database does, unless they failed.
RealtimeIsolationKnow ==
  /\ DOMAIN me.loc = {"canary", "cross", "own", "other", "failed"}
  /\ me.at # "done" /\ world.hook = "other" => Nobody(pg)
  /\ me.at \in {"publication", "rls", "begin", "tenants", "canary", "role", "check"} \cup RealtimeIsolationProbes =>
       world.present /\ Untold(1, "tenant") /\ Whole(me.todo)
  /\ me.at \in {"begin", "tenants", "canary", "role", "check"} \cup RealtimeIsolationProbes => world.rls /\ world.policies
  /\ me.at \in {"canary", "role", "check"} \cup RealtimeIsolationProbes => world.tenants > 1
  /\ me.at \in {"tenants", "canary", "role", "check"} \cup RealtimeIsolationProbes => pg.st \in {"open", "aborted", "lost"}
  /\ me.at \in {"start", "plan", "publication", "rls", "begin", "tenants", "canary", "role", "check"} => ~me.loc.failed /\ ~me.loc.other
  /\ me.at \in {"forward", "reverse", "own", "publish", "other", "intrude"} => ~me.loc.failed /\ ~me.loc.other
  /\ me.at \in {"own", "publish", "other", "intrude"} =>
       pg.who # "A" /\ world.uploads /\ (pg.st = "aborted" => fault = "cancelled")
  /\ me.at = "publish" /\ Live => pg.saves # <<>> /\ pg.saves[Len(pg.saves)].who # "A"
  /\ me.at \in {"reverse", "own", "publish", "other", "intrude", "reset"} /\ ~me.loc.failed =>
       (me.loc.cross <=> world.targets[1].reads = "all")
  /\ me.at = "reset" /\ me.loc.failed => ~Live
  /\ me.at = "reset" /\ Live =>
       /\ me.loc.other => world.uploads /\ world.targets[1].writes = "all"
       /\ world.uploads /\ world.targets[1].writes = "all" => me.loc.other \/ fault = "cancelled"

\* The topic is judged when the last probe is undone.
RealtimeIsolationPending(e) ==
  me.at \in {"start", "plan", "publication", "rls", "begin", "tenants", "canary", "role", "check"} \cup RealtimeIsolationProbes

\* Everything exposed is pending or done.
RealtimeIsolationInv == RealtimeIsolationKnow /\ (Counts => \A e \in Truth.exposed : RealtimeIsolationPending(e) \/ Done(e))

\* What is exposed to realtime-isolation, and what of it is missed, misjudged or provable.
LEMMA RealtimeIsolationPoints ==
  ASSUME world.guard = "realtime-isolation"
  PROVE  /\ \A e : e \in Truth.exposed <=>
              /\ e = [on |-> 1, arm |-> "tenant"] /\ world.present
              /\ \/ ~world.rls
                 \/ ~world.policies /\ world.bypass
                 \/ /\ world.policies /\ world.tenants > 1
                    /\ world.targets[1].reads = "all" \/ (world.uploads /\ world.targets[1].writes = "all")
         /\ \A e : e \in Truth.blind <=> e \in Truth.exposed /\ fault = "cancelled" /\ world.targets[1].reads # "all"
         /\ \A e : e \in Truth.provable <=> e \in Truth.exposed /\ (~world.rls \/ world.policies)
<1>1. Truth.exposed = RI!Exposed /\ Truth.blind = RI!Blind /\ Truth.provable = RI!Provable BY DEF Truth, RI!Truth
<1>2. \A e : e \in Truth.exposed <=>
              /\ e = [on |-> 1, arm |-> "tenant"] /\ world.present
              /\ \/ ~world.rls
                 \/ ~world.policies /\ world.bypass
                 \/ /\ world.policies /\ world.tenants > 1
                    /\ world.targets[1].reads = "all" \/ (world.uploads /\ world.targets[1].writes = "all")
  BY <1>1 DEF RI!Exposed
<1> QED BY <1>1, <1>2 DEF RI!Blind, RI!Provable

\* What is exposed to realtime-isolation depends on the database and the fault alone.
LEMMA RealtimeIsolationSame ==
  ASSUME world.guard = "realtime-isolation", world' = world, fault' = fault
  PROVE  Truth' = Truth
<1>1. Truth = RI!Truth BY DEF Truth
<1>2. Truth' = RI!Truth' BY DEF Truth
<1>3. RI!Exposed' = RI!Exposed BY DEF RI!Exposed
<1>4. RI!Blind' = RI!Blind BY <1>3 DEF RI!Blind
<1>5. RI!Provable' = RI!Provable BY <1>3 DEF RI!Provable
<1>6. RI!Spurious' = RI!Spurious BY DEF RI!Spurious
<1>7. RI!Fragile' = RI!Fragile BY DEF RI!Fragile
<1> QED BY <1>1, <1>2, <1>3, <1>4, <1>5, <1>6, <1>7 DEF RI!Truth

\* A step of realtime-isolation changes neither the database nor the fault.
LEMMA RealtimeIsolationRest == ASSUME RI!Next PROVE world' = world /\ fault' = fault
BY DEF RI!Attempt, RI!Await, RI!Begin, RI!Check, RI!CheckCanary, RI!Connect, RI!CreateCanary, RI!Disconnect,
     RI!DistinctTopicTenants, RI!Do, RI!Guarded, RI!Next, RI!OpenBroadcast, RI!PlanChannels, RI!ProbeBroadcast,
     RI!ProbeForward, RI!ProbeReverse, RI!Publication, RI!ReadRls, RI!ResetRole, RI!RollBack, RI!Run, RI!SelfCheck,
     RI!SwitchRole

\* A step of realtime-isolation keeps what it knows, and is one its runner expects.
LEMMA RealtimeIsolationAnswers ==
  ASSUME Common, RealtimeIsolationInv, world.guard = "realtime-isolation", RI!Next
  PROVE  Common' /\ RealtimeIsolationInv' /\ Plays
<1>u. world' = world /\ fault' = fault BY RealtimeIsolationRest
<1>t. Truth' = Truth BY <1>u, RealtimeIsolationSame
<1>b. /\ RI!Connect <=> Connect
      /\ RI!Disconnect <=> Disconnect
      /\ RI!RollBack("close") <=> RollBack("close")
      /\ RI!CreateCanary("role") <=> CreateCanary("role")
      /\ RI!SwitchRole("check") <=> SwitchRole("check")
      /\ RI!CheckCanary("forward") <=> CheckCanary("forward")
  BY DEF RI!AsRole, AsRole, RI!Attempt, Attempt, RI!Await, Await, RI!CanaryRead, CanaryRead, RI!CheckCanary,
         CheckCanary, RI!Closed, Closed, RI!Connect, Connect, RI!CreateCanary, CreateCanary, RI!Disconnect,
         Disconnect, RI!Do, Do, RI!Ending, Ending, RI!Failed, Failed, RI!LeaksIn, LeaksIn, RI!Live, Live, RI!Made,
         Made, RI!RollBack, RollBack, RI!RolledBack, RolledBack, RI!Said, Said, RI!SwitchRole, SwitchRole,
         RI!Thrown, Thrown, RI!To, To, RI!Verdict, Verdict
<1>o. /\ RI!Live <=> Live
      /\ RI!Failed = Failed
      /\ RI!Began(pg) = Began(pg)
      /\ RI!Saved(pg) = Saved(pg)
      /\ RI!Released(pg) = Released(pg)
      /\ RI!Undone(pg) = Undone(pg)
      /\ RI!Undone(RI!Failed) = Undone(Failed)
      /\ RI!RolledBack(pg) = RolledBack(pg)
      /\ \A x : RI!AsRole(pg, x) = AsRole(pg, x)
      /\ \A x : RI!Acting(pg, x) = Acting(pg, x)
      /\ \A x : RI!Made(pg, x) = Made(pg, x)
      /\ RI!Target = Target
  BY DEF RI!Live, Live, RI!Failed, Failed, RI!Began, Began, RI!Saved, Saved, RI!Released, Released, RI!Undone,
         Undone, RI!RolledBack, RolledBack, RI!AsRole, AsRole, RI!Acting, Acting, RI!Made, Made, RI!Target, Target,
         RI!Closed, Closed
<1>c. Session /\ Shape /\ Meant /\ RealtimeIsolationKnow BY DEF Common, RealtimeIsolationInv
<1>k. DOMAIN me.loc = {"canary", "cross", "own", "other", "failed"} BY <1>c DEF RealtimeIsolationKnow
\* Nobody is impersonated where the guard's own hook is another.
<1>h. Nobody(pg) =>
        /\ pg' \in {pg, Failed, Saved(pg), Released(pg), Undone(pg), Undone(Failed), RolledBack(pg), Began(pg)} => Nobody(pg')
        /\ pg' \in {[pg EXCEPT !.st = "idle"], Acting(pg, "nobody")} => Nobody(pg')
        /\ (\E r : pg' = AsRole(pg, r)) \/ (\E x : pg' = Made(pg, x)) => Nobody(pg')
  BY <1>c, Unnamed DEF Session, Proper
<1>n0. pg' \in {pg, Failed} /\ Nobody(pg) => Nobody(pg') BY <1>h
\* Leaving.
<1>l. ASSUME Leaves, me.at \notin {"start", "done"}, pg' \in {pg, Failed} PROVE Common' /\ RealtimeIsolationInv' /\ Plays
  <2>1. Shape' /\ Meant' /\ ~Counts' /\ Plays BY <1>u, <1>t, <1>l, Leaving
  <2>2. Session' BY <1>u, <1>c, <1>l, Moving DEF Moved, Leaves
  <2>4. (Unclear' <=> Unclear) /\ (\A k, x : Untold(k, x)' <=> Untold(k, x)) BY <1>u, <1>t, <1>c, <1>l, Quiet
      DEF Leaves
  <2>5. pg'.st \in {pg.st, IF pg.st = "open" THEN "aborted" ELSE pg.st} BY <1>c, <1>l DEF Failed, Session, Proper,
      Sound
  <2>3. RealtimeIsolationKnow'
    <3>1. me'.at \in {"finally", "close"} /\ me'.todo = me.todo /\ me'.said = me.said /\ me'.loc = me.loc /\ DOMAIN me' = DOMAIN me
      BY <1>l DEF Leaves
    <3> QED BY <1>u, <1>c, <1>l, <2>1, <2>4, <2>5, <3>1, <1>n0 DEF RealtimeIsolationKnow, RealtimeIsolationProbes
  <2> QED BY <2>1, <2>2, <2>3 DEF Common, RealtimeIsolationInv
\* Going on without an answer.
<1>s. ASSUME NEW at, NEW todo, Walks(at, todo, me.said), Queue(todo), Moved, me.at \notin {"start", "done"},
             at \notin {"start", "plan", "done"}, RealtimeIsolationKnow',
             \A e \in Truth.exposed : Counts /\ RealtimeIsolationPending(e) => RealtimeIsolationPending(e)' \/ Done(e)
      PROVE  Common' /\ RealtimeIsolationInv' /\ Plays
  <2>1. Shape' BY <1>u, <1>c, <1>s, Going
  <2>2. Meant' /\ \A e : Done(e)' <=> Done(e) BY <1>u, <1>t, <1>c, <1>s, Quiet DEF Walks
  <2>3. Session' BY <1>u, <1>c, <1>s, Moving DEF Walks
  <2>4. (Counts' => Counts) /\ Plays BY <1>s DEF Walks, Counts, Plays
  <2> QED BY <1>t, <1>s, <2>1, <2>2, <2>3, <2>4 DEF Common, RealtimeIsolationInv
<1>e. /\ me' = RI!Thrown => Leaves
      /\ me' = RI!Ending(me, "skip") => Leaves
      /\ \A l : me' = RI!To(l) => Walks(l, me.todo, me.said) /\ me'.loc = me.loc
  BY <1>c DEF Shape, RI!Thrown, RI!Ending, RI!To, Leaves, Walks
\* Going on with several answers.
<1>m. ASSUME NEW at, NEW todo, NEW S, Walks(at, todo, me.said \cup S), Queue(todo), Moved, me.at \notin {"start", "done"},
             at \notin {"start", "plan", "done"}, RealtimeIsolationKnow',
             \A a \in S : Meaning(a) /\ a.says # "clear",
             \A a \in S, b \in me.said : a.says = "leak" /\ b.on = a.on /\ b.arm = a.arm => b.says # "clear",
             \A e \in Truth.exposed : Counts /\ RealtimeIsolationPending(e) =>
                \/ RealtimeIsolationPending(e)' \/ Done(e)
                \/ e \in Truth.blind
                \/ \E a \in S : a.on = e.on /\ (fault = "none" /\ e \in Truth.provable => a.arm = e.arm /\ a.says = "leak")
      PROVE  Common' /\ RealtimeIsolationInv' /\ Plays
  <2>1. Shape' BY <1>u, <1>c, <1>m, Going
  <2>2. /\ Meant'
        /\ \A e : Done(e) => Done(e)'
        /\ \A e : (\E a \in S : a.on = e.on) => Heard(e)'
        /\ \A e : (\E a \in S : a.on = e.on /\ a.arm = e.arm /\ a.says = "leak") => Done(e)'
    BY <1>u, <1>t, <1>c, <1>m, TellingAll DEF Walks
  <2>3. Session' BY <1>u, <1>c, <1>m, Moving DEF Walks
  <2>4. (Counts' => Counts) /\ Plays BY <1>m DEF Walks, Counts, Plays
  <2>5. \A e \in Truth.exposed : e \in Truth.blind => Done(e)' BY <1>u, <1>t, RealtimeIsolationPoints DEF Done
  <2>6. ASSUME NEW e \in Truth.exposed, Counts, RealtimeIsolationPending(e) PROVE RealtimeIsolationPending(e)' \/ Done(e)'
    <3>1. CASE \E a \in S : a.on = e.on /\ (fault = "none" /\ e \in Truth.provable => a.arm = e.arm /\ a.says = "leak")
      <4>1. Heard(e)' BY <2>2, <3>1
      <4>2. fault = "none" /\ e \in Truth.provable => Done(e)' BY <2>2, <3>1
      <4>3. ~(fault = "none" /\ e \in Truth.provable) => Done(e)' BY <1>u, <1>t, <4>1 DEF Done
      <4> QED BY <4>2, <4>3
    <3> QED BY <1>m, <2>2, <2>5, <2>6, <3>1
  <2> QED BY <1>t, <1>m, <2>1, <2>2, <2>3, <2>4, <2>6 DEF Common, RealtimeIsolationInv
\* There is one target, and it stays on the list.
<1>r. Whole(me.todo) => Target = world.targets[1] /\ Queue(me.todo)
  <2>1. Count = 1 BY <1>c, RealtimeAssumption DEF Shape, Count
  <2>2. Whole(me.todo) => Head(me.todo) = 1 BY <2>1 DEF Whole
  <2> QED BY <1>c, <2>2 DEF Target, Shape
<1>j. me'.todo = me.todo => (Whole(me.todo) => Whole(me.todo)') BY <1>u DEF Whole, Count
<1>i. me.at # "done" /\ world.hook = "other" => Nobody(pg) BY <1>c DEF RealtimeIsolationKnow
\* The session keeps its transaction.
<1>w. pg.st \in {"open", "aborted", "lost"} =>
        /\ pg' \in {pg, Failed, Saved(pg), Undone(pg), Undone(Failed)} => pg'.st \in {"open", "aborted", "lost"}
        /\ (\E r : pg' = AsRole(pg, r)) \/ (\E x : pg' = Made(pg, x) \/ pg' = Acting(pg, x)) => pg'.st = pg.st
        /\ pg' = Failed => ~Live'
  <2>1. Sound(pg) BY <1>c DEF Session, Proper
  <2>2. SUFFICES ASSUME pg.st \in {"open", "aborted", "lost"}
                 PROVE  /\ pg' \in {pg, Failed, Saved(pg), Undone(pg), Undone(Failed)} => pg'.st \in {"open", "aborted", "lost"}
                        /\ (\E r : pg' = AsRole(pg, r)) \/ (\E x : pg' = Made(pg, x) \/ pg' = Acting(pg, x)) => pg'.st = pg.st
                        /\ pg' = Failed => ~Live'
    OBVIOUS
  <2>3. Failed.st \in {"aborted", "lost"} /\ Saved(pg).st = pg.st /\ Sound(Failed) BY <2>1, <2>2, Failing, Saving
  <2>4. \A s : Sound(s) /\ s.st \in {"open", "aborted", "lost"} => Undone(s).st \in {s.st, "open"}
    <3>1. TAKE s
    <3>2. CASE s.st \in {"open", "aborted"} /\ s.saves # <<>>
      <4> DEFINE sp == s.saves[Len(s.saves)]
      <4>1. Undone(s) = [Released(s) EXCEPT !.st = "open", !.role = sp.role, !.who = sp.who, !.made = sp.made]
        BY <3>2 DEF Undone
      <4> HIDE DEF sp
      <4>2. DOMAIN Released(s) = DOMAIN s BY DEF Released
      <4> QED BY <4>1, <4>2 DEF Sound
    <3>3. CASE ~(s.st \in {"open", "aborted"} /\ s.saves # <<>>) BY <3>3 DEF Undone
    <3> QED BY <3>2, <3>3
  <2>5. pg' \in {Undone(pg), Undone(Failed)} => pg'.st \in {"open", "aborted", "lost"} BY <2>1, <2>2, <2>3, <2>4
  <2> QED BY <2>1, <2>2, <2>3, <2>5, Plainly DEF Live
\* On to a place where the tenants are still to be judged.
<1>f. ASSUME NEW at, Walks(at, me.todo, me.said), Moved, RealtimeIsolationKnow', me.at \notin {"start", "done"},
             at \in {"publication", "rls", "begin", "tenants", "canary", "role", "check"} \cup RealtimeIsolationProbes
      PROVE  Common' /\ RealtimeIsolationInv' /\ Plays
  <2>1. \A e : RealtimeIsolationPending(e)' BY <1>f DEF RealtimeIsolationPending, Walks
  <2>2. at \notin {"start", "plan", "done"} BY <1>f DEF RealtimeIsolationProbes
  <2> QED BY <1>s, <1>c, <1>f, <2>1, <2>2 DEF Shape
\* The last word on the tenants.
<1>a. ASSUME NEW says, says \in {"leak", "note"}, pg' \in {pg, RolledBack(pg)}, me.at \in {"rls", "tenants"},
             Walks("close", me.todo, me.said \cup {[on |-> 1, arm |-> "tenant", says |-> says]}), me'.loc = me.loc,
             says = "leak" => [on |-> 1, arm |-> "tenant"] \in Truth.exposed,
             [on |-> 1, arm |-> "tenant"] \in Truth.exposed => says = "leak" \/ [on |-> 1, arm |-> "tenant"] \notin Truth.provable
      PROVE  Common' /\ RealtimeIsolationInv' /\ Plays
  <2>1. PICK S : S = {[on |-> 1, arm |-> "tenant", says |-> says]} OBVIOUS
  <2>2. Walks("close", me.todo, me.said \cup S) BY <1>a, <2>1
  <2>3. ASSUME NEW a \in S PROVE Meaning(a) /\ a.says # "clear"
    <3>1. a = [on |-> a.on, arm |-> a.arm, says |-> a.says] /\ a.says = says /\ Key(a) = [on |-> 1, arm |-> "tenant"]
      BY <2>1 DEF Key
    <3> QED BY <1>a, <3>1 DEF Meaning
  <2>4. \A a \in S, b \in me.said : a.says = "leak" /\ b.on = a.on /\ b.arm = a.arm => b.says # "clear"
    BY <1>c, <1>a, <2>1 DEF RealtimeIsolationKnow, Untold
  <2>5. Moved /\ (Nobody(pg) => Nobody(pg')) BY <1>a, <1>h DEF Moved
  <2>6. RealtimeIsolationKnow' BY <1>u, <1>c, <1>i, <1>a, <2>2, <2>5 DEF RealtimeIsolationKnow, Walks,
      RealtimeIsolationProbes
  <2>7. \A e \in Truth.exposed :
          \E a \in S : a.on = e.on /\ (fault = "none" /\ e \in Truth.provable => a.arm = e.arm /\ a.says = "leak")
    BY <1>a, <2>1, RealtimeIsolationPoints
  <2>8. Queue(me.todo) BY <1>c DEF Shape
  <2> QED BY <1>m, <1>a, <2>2, <2>3, <2>4, <2>5, <2>6, <2>7, <2>8
<1>1. CASE RI!PlanChannels
  <2>1. /\ me.at = "plan"
        /\ \/ world.present /\ pg' = pg /\ me' = RI!To("publication")
           \/ pg' = pg /\ me' = RI!Ending(me, "skip")
           \/ pg' = Failed /\ me' = RI!Thrown
    BY <1>1, <1>o, Zenon DEF RI!PlanChannels, RI!Await, RI!Do
  <2>2. me.said = {} /\ Whole(me.todo) BY <1>c, <2>1 DEF Shape
  <2>3. CASE world.present /\ pg' = pg /\ me' = RI!To("publication")
    <3>1. Walks("publication", me.todo, me.said) /\ me'.loc = me.loc BY <1>e, <2>3
    <3>2. (\A k, x : Untold(k, x)' <=> Untold(k, x)) /\ (Whole(me.todo) => Whole(me.todo)') BY <1>j, <3>1 DEF Untold,
        Walks
    <3>3. Moved /\ (Nobody(pg) => Nobody(pg')) BY <1>h, <2>3 DEF Moved
    <3>4. Untold(1, "tenant") BY <2>2 DEF Untold
    <3>9. RealtimeIsolationKnow' BY <1>u, <1>c, <1>i, <2>1, <2>3, <3>1, <3>2, <3>3, <2>2, <3>4
        DEF RealtimeIsolationKnow, Walks, RealtimeIsolationProbes
    <3> QED BY <1>f, <2>1, <3>1, <3>3, <3>9
  <2> QED BY <1>e, <1>l, <2>1, <2>3
<1>2. CASE RI!Publication
  <2>0. PICK S0 : S0 = {[on |-> 0, arm |-> "streams", says |-> "note"]} OBVIOUS
  <2>1. /\ me.at = "publication" /\ pg' \in {pg, Failed}
        /\ me' = RI!Said(RI!To("rls"), 0, "streams", "note") \/ me' = RI!To("rls")
    BY <1>2, <1>o, Zenon DEF RI!Publication, RI!Attempt, RI!Do
  <2>2. PICK S : S \in {S0, {}} /\ Walks("rls", me.todo, me.said \cup S) /\ me'.loc = me.loc
    <3>1. CASE me' = RI!Said(RI!To("rls"), 0, "streams", "note")
      <4>1. Walks("rls", me.todo, me.said \cup S0) /\ me'.loc = me.loc BY <1>c, <2>0, <3>1 DEF RI!Said, RI!To, Walks,
          Shape
      <4> QED BY <4>1
    <3>2. CASE me' = RI!To("rls")
      <4>1. Walks("rls", me.todo, me.said) /\ me'.loc = me.loc BY <1>e, <3>2
      <4>2. me.said = me.said \cup {} OBVIOUS
      <4> QED BY <4>1, <4>2
    <3> QED BY <2>1, <3>1, <3>2
  <2>3. \A a \in S : a = [on |-> a.on, arm |-> a.arm, says |-> a.says] /\ a.says = "note" BY <2>0, <2>2
  <2>4. \A a \in S : Meaning(a) /\ a.says # "clear" BY <2>3 DEF Meaning
  <2>5. \A a \in S, b \in me.said : a.says = "leak" /\ b.on = a.on /\ b.arm = a.arm => b.says # "clear" BY <2>3
  <2>6. Moved /\ (Nobody(pg) => Nobody(pg')) BY <1>h, <2>1 DEF Moved
  <2>7. (\A k, x : Untold(k, x) => Untold(k, x)') /\ (Whole(me.todo) => Whole(me.todo)') BY <1>j, <2>2, <2>3
      DEF Untold, Walks
  <2>8. RealtimeIsolationKnow' BY <1>u, <1>c, <1>i, <2>1, <2>2, <2>6, <2>7 DEF RealtimeIsolationKnow, Walks,
      RealtimeIsolationProbes
  <2>9. \A e : RealtimeIsolationPending(e)' BY <2>2 DEF RealtimeIsolationPending, Walks
  <2>10. Queue(me.todo) BY <1>c DEF Shape
  <2> QED BY <1>m, <2>1, <2>2, <2>4, <2>5, <2>6, <2>8, <2>9, <2>10
<1>3. CASE RI!ReadRls
  <2>1. /\ me.at = "rls"
        /\ \/ ~world.rls /\ pg' = pg /\ me' = [RI!Said(me, 1, "tenant", "leak") EXCEPT !.at = "close"]
           \/ world.rls /\ ~world.policies /\ pg' = pg /\ me' = [RI!Said(me, 1, "tenant", "note") EXCEPT !.at = "close"]
           \/ world.rls /\ world.policies /\ pg' = pg /\ me' = RI!To("begin")
           \/ pg' = Failed /\ me' = RI!Thrown
    BY <1>3, <1>o, Zenon DEF RI!ReadRls, RI!Await, RI!Do, RI!Messages
  <2>2. world.present /\ Whole(me.todo) BY <1>c, <2>1 DEF RealtimeIsolationKnow
  <2>3. CASE ~world.rls /\ pg' = pg /\ me' = [RI!Said(me, 1, "tenant", "leak") EXCEPT !.at = "close"]
    <3>1. Walks("close", me.todo, me.said \cup {[on |-> 1, arm |-> "tenant", says |-> "leak"]}) /\ me'.loc = me.loc
      BY <1>c, <2>3 DEF RI!Said, Walks, Shape
    <3>2. [on |-> 1, arm |-> "tenant"] \in Truth.exposed BY <2>2, <2>3, RealtimeIsolationPoints
    <3> QED BY <1>a, <2>1, <2>3, <3>1, <3>2
  <2>4. CASE world.rls /\ ~world.policies /\ pg' = pg /\ me' = [RI!Said(me, 1, "tenant", "note") EXCEPT !.at = "close"]
    <3>1. Walks("close", me.todo, me.said \cup {[on |-> 1, arm |-> "tenant", says |-> "note"]}) /\ me'.loc = me.loc
      BY <1>c, <2>4 DEF RI!Said, Walks, Shape
    <3>2. [on |-> 1, arm |-> "tenant"] \notin Truth.provable BY <2>4, RealtimeIsolationPoints
    <3> QED BY <1>a, <2>1, <2>4, <3>1, <3>2
  <2>5. CASE world.rls /\ world.policies /\ pg' = pg /\ me' = RI!To("begin")
    <3>1. Walks("begin", me.todo, me.said) /\ me'.loc = me.loc BY <1>e, <2>5
    <3>2. (\A k, x : Untold(k, x)' <=> Untold(k, x)) /\ (Whole(me.todo) => Whole(me.todo)') BY <1>j, <3>1 DEF Untold,
        Walks
    <3>3. Moved /\ (Nobody(pg) => Nobody(pg')) BY <1>h, <2>5 DEF Moved
    <3>9. RealtimeIsolationKnow' BY <1>u, <1>c, <1>i, <2>1, <2>5, <3>1, <3>2, <3>3 DEF RealtimeIsolationKnow, Walks,
        RealtimeIsolationProbes
    <3> QED BY <1>f, <2>1, <3>1, <3>3, <3>9
  <2> QED BY <1>e, <1>l, <2>1, <2>3, <2>4, <2>5
<1>4. CASE RI!Begin
  <2>1. /\ me.at = "begin"
        /\ (me' = RI!Thrown /\ pg' = Failed) \/ (me' = RI!To("tenants") /\ pg' = Began(pg) /\ Live)
    BY <1>4, <1>o, Zenon DEF RI!Begin, RI!Await, RI!Do
  <2>2. CASE me' = RI!To("tenants") /\ pg' = Began(pg) /\ Live
    <3>1. Walks("tenants", me.todo, me.said) /\ me'.loc = me.loc BY <1>e, <2>2
    <3>2. (\A k, x : Untold(k, x)' <=> Untold(k, x)) /\ (Whole(me.todo) => Whole(me.todo)') BY <1>j, <3>1 DEF Untold,
        Walks
    <3>3. Moved /\ (Nobody(pg) => Nobody(pg')) BY <1>h, <2>2 DEF Moved
    <3>4. pg'.st = "open" BY <1>c, <2>2, Plainly DEF Session, Proper
    <3>9. RealtimeIsolationKnow' BY <1>u, <1>c, <1>i, <2>1, <2>2, <3>1, <3>2, <3>3, <3>4 DEF RealtimeIsolationKnow,
        Walks, RealtimeIsolationProbes
    <3> QED BY <1>f, <2>1, <3>1, <3>3, <3>9
  <2> QED BY <1>e, <1>l, <2>1, <2>2
<1>5. CASE RI!DistinctTopicTenants
  <2>1. /\ me.at = "tenants"
        /\ \/ world.tenants < 2 /\ pg' = RolledBack(pg) /\ me' = [RI!Said(me, 1, "tenant", "note") EXCEPT !.at = "close"]
           \/ ~(world.tenants < 2) /\ pg' = pg /\ me' = RI!To("canary")
           \/ pg' = Failed /\ me' = RI!Thrown
    BY <1>5, <1>o, Zenon DEF RI!DistinctTopicTenants, RI!Await, RI!Do, RI!Messages
  <2>2. world.present /\ world.rls /\ world.policies /\ Whole(me.todo) /\ world.tenants \in Nat /\ pg.st \in {"open", "aborted", "lost"}
    BY <1>c, <2>1, RealtimeAssumption DEF RealtimeIsolationKnow, Shape
  <2>3. CASE world.tenants < 2 /\ pg' = RolledBack(pg) /\ me' = [RI!Said(me, 1, "tenant", "note") EXCEPT !.at = "close"]
    <3>1. Walks("close", me.todo, me.said \cup {[on |-> 1, arm |-> "tenant", says |-> "note"]}) /\ me'.loc = me.loc
      BY <1>c, <2>3 DEF RI!Said, Walks, Shape
    <3>2. [on |-> 1, arm |-> "tenant"] \notin Truth.exposed BY <2>2, <2>3, RealtimeIsolationPoints
    <3> QED BY <1>a, <2>1, <2>3, <3>1, <3>2
  <2>4. CASE ~(world.tenants < 2) /\ pg' = pg /\ me' = RI!To("canary")
    <3>1. Walks("canary", me.todo, me.said) /\ me'.loc = me.loc BY <1>e, <2>4
    <3>2. (\A k, x : Untold(k, x)' <=> Untold(k, x)) /\ (Whole(me.todo) => Whole(me.todo)') BY <1>j, <3>1 DEF Untold,
        Walks
    <3>3. Moved /\ (Nobody(pg) => Nobody(pg')) BY <1>h, <2>4 DEF Moved
    <3>9. RealtimeIsolationKnow' BY <1>u, <1>c, <1>i, <2>1, <2>4, <3>1, <3>2, <3>3, <2>2 DEF RealtimeIsolationKnow,
        Walks, RealtimeIsolationProbes
    <3> QED BY <1>f, <2>1, <3>1, <3>3, <3>9
  <2> QED BY <1>e, <1>l, <2>1, <2>3, <2>4
<1>6. CASE RI!CreateCanary("role")
  <2>1. /\ me.at = "canary" /\ Common' /\ Plays /\ Keeps /\ Walks("role", me.todo, me'.said)
        /\ me'.loc = me.loc \/ me'.loc = [me.loc EXCEPT !.canary = TRUE]
        /\ pg' = Failed \/ (Live /\ pg' = Made(pg, "canary"))
    BY <1>b, <1>t, <1>6, CreatesCanary
  <2>2. DOMAIN me'.loc = DOMAIN me.loc /\ me'.loc.failed = me.loc.failed /\ me'.loc.other = me.loc.other BY <1>k, <2>1
  <2>3. pg.st \in {"open", "aborted", "lost"} BY <1>c, <2>1 DEF RealtimeIsolationKnow
  <2>4. (Nobody(pg) => Nobody(pg')) /\ pg'.st \in {"open", "aborted", "lost"} BY <1>h, <1>w, <2>1, <2>3
  <2>5. Whole(me.todo) => Whole(me.todo)' BY <1>j, <2>1 DEF Walks
  <2>6. RealtimeIsolationKnow' BY <1>u, <1>c, <1>i, <2>1, <2>2, <2>4, <2>5 DEF RealtimeIsolationKnow, Walks, Keeps,
      RealtimeIsolationProbes
  <2>7. \A e \in Truth.exposed : RealtimeIsolationPending(e)' BY <2>1 DEF RealtimeIsolationPending, Walks
  <2> QED BY <1>t, <2>1, <2>6, <2>7 DEF RealtimeIsolationInv, Keeps, Counts, Walks
<1>7. CASE RI!SwitchRole("check")
  <2>1. /\ me.at = "role" /\ Common' /\ Plays /\ me'.loc = me.loc /\ me'.said = me.said
        /\ (Leaves /\ ~Counts' /\ pg' = Failed) \/ (Walks("check", me.todo, me.said) /\ Live /\ world.member /\ pg' = AsRole(pg, "app"))
    BY <1>b, <1>t, <1>7, SwitchesRole
  <2>2. (\A e : Done(e)' <=> Done(e)) /\ (\A k, x : Untold(k, x)' <=> Untold(k, x)) BY <1>u, <1>t, <1>c, <2>1, Quiet
  <2>3. me'.todo = me.todo BY <2>1 DEF Leaves, Walks
  <2>4. pg.st \in {"open", "aborted", "lost"} BY <1>c, <2>1 DEF RealtimeIsolationKnow
  <2>5. (Nobody(pg) => Nobody(pg')) /\ (Walks("check", me.todo, me.said) => pg'.st \in {"open", "aborted", "lost"})
    <3>1. me'.at = "check" => pg' = AsRole(pg, "app") BY <2>1 DEF Leaves, Walks
    <3> QED BY <1>h, <1>w, <2>1, <2>4, <3>1 DEF Walks
  <2>6. Whole(me.todo) => Whole(me.todo)' BY <1>j, <2>3
  <2>7. RealtimeIsolationKnow' BY <1>u, <1>c, <1>i, <2>1, <2>2, <2>3, <2>5, <2>6 DEF RealtimeIsolationKnow, Walks,
      Leaves, RealtimeIsolationProbes
  <2>8. Counts' => \A e : RealtimeIsolationPending(e)' BY <2>1 DEF RealtimeIsolationPending, Walks,
      RealtimeIsolationProbes
  <2> QED BY <1>t, <2>1, <2>2, <2>7, <2>8 DEF RealtimeIsolationInv
<1>8. CASE RI!CheckCanary("forward")
  <2>1. /\ me.at = "check" /\ Common' /\ Plays /\ me'.loc = me.loc /\ me'.said = me.said
        /\ (Leaves /\ ~Counts' /\ pg' = RolledBack(pg)) \/ (Walks("forward", me.todo, me.said) /\ (pg' = pg \/ (~Live /\ pg' = Failed)))
    BY <1>b, <1>t, <1>8, ChecksCanary
  <2>2. (\A e : Done(e)' <=> Done(e)) /\ (\A k, x : Untold(k, x)' <=> Untold(k, x)) BY <1>u, <1>t, <1>c, <2>1, Quiet
  <2>3. me'.todo = me.todo BY <2>1 DEF Leaves, Walks
  <2>4. pg.st \in {"open", "aborted", "lost"} BY <1>c, <2>1 DEF RealtimeIsolationKnow
  <2>5. (Nobody(pg) => Nobody(pg')) /\ (Walks("forward", me.todo, me.said) => pg'.st \in {"open", "aborted", "lost"})
    <3>1. me'.at = "forward" => pg' \in {pg, Failed} BY <2>1 DEF Leaves, Walks
    <3> QED BY <1>h, <1>w, <2>1, <2>4, <3>1 DEF Walks
  <2>6. Whole(me.todo) => Whole(me.todo)' BY <1>j, <2>3
  <2>7. RealtimeIsolationKnow' BY <1>u, <1>c, <1>i, <2>1, <2>2, <2>3, <2>5, <2>6 DEF RealtimeIsolationKnow, Walks,
      Leaves, RealtimeIsolationProbes
  <2>8. Counts' => \A e : RealtimeIsolationPending(e)' BY <2>1 DEF RealtimeIsolationPending, Walks,
      RealtimeIsolationProbes
  <2> QED BY <1>t, <2>1, <2>2, <2>7, <2>8 DEF RealtimeIsolationInv
\* A probe that raised: what comes next raises too.
<1>v. ASSUME me.at \in {"forward", "reverse", "own", "other"}, pg' = Failed, me' = RI!Unproven
      PROVE  Common' /\ RealtimeIsolationInv' /\ Plays
  <2>1. Walks("reset", me.todo, me.said) /\ DOMAIN me'.loc = DOMAIN me.loc /\ me'.loc.failed
    <3>1. PICK yes : yes = TRUE OBVIOUS
    <3>2. me' = [RI!To("reset") EXCEPT !.loc.failed = yes] BY <1>v, <3>1, Zenon DEF RI!Unproven
    <3>3. Walks("reset", me.todo, me.said) /\ me'.loc = [me.loc EXCEPT !.failed = yes] BY <1>c, <3>2 DEF RI!To, Walks,
        Shape
    <3> QED BY <1>k, <3>1, <3>3
  <2>2. pg.st \in {"open", "aborted", "lost"} BY <1>c, <1>v DEF RealtimeIsolationKnow, RealtimeIsolationProbes
  <2>3. Moved /\ (Nobody(pg) => Nobody(pg')) /\ ~Live' /\ pg'.st \in {"open", "aborted", "lost"}
    BY <1>h, <1>w, <1>v, <2>2 DEF Moved
  <2>4. (\A k, x : Untold(k, x)' <=> Untold(k, x)) /\ (Whole(me.todo) => Whole(me.todo)') BY <1>j, <2>1 DEF Untold,
      Walks
  <2>5. RealtimeIsolationKnow' BY <1>u, <1>c, <1>i, <1>v, <2>1, <2>3, <2>4 DEF RealtimeIsolationKnow, Walks,
      RealtimeIsolationProbes
  <2> QED BY <1>f, <1>v, <2>1, <2>3, <2>5 DEF RealtimeIsolationProbes
<1>9. CASE RI!ProbeForward
  <2> DEFINE who == RI!Becomes("A")
             cross == RI!Reaches(RI!Target.reads, RI!Becomes("A"), "B")
  <2>1. /\ me.at = "forward"
        /\ \/ Live /\ pg' = Acting(pg, who) /\ me' = [RI!To("reverse") EXCEPT !.loc.cross = cross]
           \/ pg' = Failed /\ me' = RI!Unproven
    BY <1>9, <1>o, Zenon DEF RI!ProbeForward, RI!Attempt, RI!Do
  <2>2. pg.st \in {"open", "aborted", "lost"} /\ Whole(me.todo) BY <1>c, <2>1 DEF RealtimeIsolationKnow,
      RealtimeIsolationProbes
  <2>3. who = (IF world.hook = "other" THEN pg.who ELSE "A") BY DEF RI!Becomes
  <2>4. world.hook = "other" => pg.who = "nobody" BY <1>i, <2>1 DEF Nobody
  <2>5. cross <=> world.targets[1].reads = "all" BY <1>o, <1>r, <2>2, <2>3, <2>4 DEF RI!Reaches
  <2> HIDE DEF cross, who
  <2>6. CASE Live /\ pg' = Acting(pg, who) /\ me' = [RI!To("reverse") EXCEPT !.loc.cross = cross]
    <3>1. /\ Walks("reverse", me.todo, me.said) /\ DOMAIN me'.loc = DOMAIN me.loc /\ me'.loc.cross = cross
          /\ me'.loc.failed = me.loc.failed /\ me'.loc.other = me.loc.other
      <4>1. Walks("reverse", me.todo, me.said) /\ me'.loc = [me.loc EXCEPT !.cross = cross] BY <1>c, <2>6 DEF RI!To,
          Walks, Shape
      <4> QED BY <1>k, <4>1
    <3>2. (\A k, x : Untold(k, x)' <=> Untold(k, x)) /\ (Whole(me.todo) => Whole(me.todo)') BY <1>j, <3>1 DEF Untold,
        Walks
    <3>3. Moved /\ pg'.st \in {"open", "aborted", "lost"} BY <1>w, <2>2, <2>6 DEF Moved
    <3>4. world.hook = "other" => Nobody(pg') BY <1>h, <1>i, <2>1, <2>3, <2>4, <2>6
    <3>5. RealtimeIsolationKnow' BY <1>u, <1>c, <2>1, <2>5, <3>1, <3>2, <3>3, <3>4 DEF RealtimeIsolationKnow, Walks,
        RealtimeIsolationProbes
    <3> QED BY <1>f, <2>1, <3>1, <3>3, <3>5 DEF RealtimeIsolationProbes
  <2> QED BY <1>v, <2>1, <2>6
<1>10. CASE RI!ProbeReverse
  <2> DEFINE who == RI!Becomes("B")
             cross == me.loc.cross \/ RI!Reaches(RI!Target.reads, RI!Becomes("B"), "A")
             at == IF world.uploads THEN "own" ELSE "reset"
  <2>1. /\ me.at = "reverse"
        /\ \/ Live /\ pg' = Acting(pg, who) /\ me' = [[me EXCEPT !.loc.cross = cross] EXCEPT !.at = at]
           \/ pg' = Failed /\ me' = RI!Unproven
    BY <1>10, <1>o, Zenon DEF RI!ProbeReverse, RI!Attempt, RI!Do
  <2>2. /\ pg.st \in {"open", "aborted", "lost"} /\ Whole(me.todo) /\ ~me.loc.failed /\ ~me.loc.other
        /\ me.loc.cross <=> world.targets[1].reads = "all"
    BY <1>c, <2>1 DEF RealtimeIsolationKnow, RealtimeIsolationProbes
  <2>3. who = (IF world.hook = "other" THEN pg.who ELSE "B") BY DEF RI!Becomes
  <2>4. world.hook = "other" => pg.who = "nobody" BY <1>i, <2>1 DEF Nobody
  <2>5. cross <=> world.targets[1].reads = "all" BY <1>o, <1>r, <2>2, <2>3, <2>4 DEF RI!Reaches
  <2>6. (at = "own" /\ world.uploads) \/ (at = "reset" /\ ~world.uploads) OBVIOUS
  <2> HIDE DEF cross, who, at
  <2>7. CASE Live /\ pg' = Acting(pg, who) /\ me' = [[me EXCEPT !.loc.cross = cross] EXCEPT !.at = at]
    <3>1. /\ Walks(at, me.todo, me.said) /\ DOMAIN me'.loc = DOMAIN me.loc /\ me'.loc.cross = cross
          /\ me'.loc.failed = me.loc.failed /\ me'.loc.other = me.loc.other
      <4>1. Walks(at, me.todo, me.said) /\ me'.loc = [me.loc EXCEPT !.cross = cross] BY <1>c, <2>7 DEF Walks, Shape
      <4> QED BY <1>k, <4>1
    <3>2. (\A k, x : Untold(k, x)' <=> Untold(k, x)) /\ (Whole(me.todo) => Whole(me.todo)') BY <1>j, <3>1 DEF Untold,
        Walks
    <3>3. Moved /\ pg'.st = pg.st /\ pg'.st # "aborted" BY <1>w, <2>2, <2>7 DEF Moved, Live
    <3>4. world.hook = "other" => Nobody(pg') BY <1>h, <1>i, <2>1, <2>3, <2>4, <2>7
    <3>5. pg'.who # "A" BY <1>c, <2>3, <2>4, <2>7 DEF Acting, Session, Proper, Sound
    <3>6. RealtimeIsolationKnow' BY <1>u, <1>c, <2>1, <2>2, <2>5, <2>6, <3>1, <3>2, <3>3, <3>4, <3>5
        DEF RealtimeIsolationKnow, Walks, RealtimeIsolationProbes
    <3> QED BY <1>f, <2>1, <2>6, <3>1, <3>3, <3>6 DEF RealtimeIsolationProbes
  <2> QED BY <1>v, <2>1, <2>7
<1>11. CASE RI!OpenBroadcast
  <2>1. \/ me.at = "own" /\ Live /\ pg' = Saved(pg) /\ me' = RI!To("publish")
        \/ me.at = "other" /\ Live /\ pg' = Saved(pg) /\ me' = RI!To("intrude")
        \/ me.at \in {"own", "other"} /\ pg' = Failed /\ me' = RI!Unproven
    BY <1>11, <1>o, Zenon DEF RI!OpenBroadcast, RI!Attempt, RI!Do
  <2>2. CASE \/ me.at = "own" /\ Live /\ pg' = Saved(pg) /\ me' = RI!To("publish")
             \/ me.at = "other" /\ Live /\ pg' = Saved(pg) /\ me' = RI!To("intrude")
    <3>1. PICK at : /\ (me.at = "own" /\ at = "publish") \/ (me.at = "other" /\ at = "intrude")
                    /\ Walks(at, me.todo, me.said) /\ me'.loc = me.loc /\ pg' = Saved(pg) /\ Live
      BY <1>e, <2>2
    <3>2. (\A k, x : Untold(k, x)' <=> Untold(k, x)) /\ (Whole(me.todo) => Whole(me.todo)') BY <1>j, <3>1 DEF Untold,
        Walks
    <3>3. pg.st \in {"open", "aborted", "lost"} /\ pg.who # "A" BY <1>c, <3>1 DEF RealtimeIsolationKnow,
        RealtimeIsolationProbes
    <3>4. Moved /\ (Nobody(pg) => Nobody(pg')) /\ pg'.st \in {"open", "aborted", "lost"} BY <1>h, <1>w, <3>1, <3>3
        DEF Moved
    <3>5. /\ pg'.st = pg.st /\ pg'.who = pg.who /\ pg'.saves # <<>> /\ pg'.saves[Len(pg'.saves)].who = pg.who
      <4>1. Sound(pg) BY <1>c DEF Session, Proper
      <4>2. PICK sp : sp = [role |-> pg.role, who |-> pg.who, made |-> pg.made] OBVIOUS
      <4>3. pg'.st = pg.st /\ pg'.who = pg.who /\ pg'.saves = Append(pg.saves, sp) BY <3>1, <4>1, <4>2 DEF Saved,
          Sound
      <4>4. PICK X : pg.saves \in Seq(X) /\ sp \in X
        <5>1. pg.saves \in Seq({pg.saves[k] : k \in 1..Len(pg.saves)}) BY <4>1, Ranged DEF Sound
        <5>2. PICK X : X = {pg.saves[k] : k \in 1..Len(pg.saves)} OBVIOUS
        <5>3. pg.saves \in Seq(X \cup {sp}) BY <5>1, <5>2
        <5> QED BY <5>3
      <4>5. Append(pg.saves, sp) # <<>> /\ Append(pg.saves, sp)[Len(Append(pg.saves, sp))] = sp BY <4>4
      <4> QED BY <4>2, <4>3, <4>5
    <3>6. pg'.st # "aborted" /\ pg'.who # "A" BY <3>1, <3>3, <3>5 DEF Live
    <3>7. RealtimeIsolationKnow' BY <1>u, <1>c, <1>i, <3>1, <3>2, <3>3, <3>4, <3>5, <3>6 DEF RealtimeIsolationKnow,
        Walks, RealtimeIsolationProbes
    <3> QED BY <1>f, <3>1, <3>4, <3>7 DEF RealtimeIsolationProbes
  <2> QED BY <1>v, <2>1, <2>2
<1>12. CASE RI!ProbeBroadcast
  <2> DEFINE own == RI!Reaches(RI!Target.writes, pg.who, "B")
             other == RI!Reaches(RI!Target.writes, pg.who, "A")
  <2>1. \/ me.at = "publish" /\ Live /\ pg' = Undone(pg) /\ me' = [RI!To("other") EXCEPT !.loc.own = TRUE]
        \/ me.at = "publish" /\ (~Live \/ ~own) /\ pg' = Undone(Failed) /\ me' = RI!To("reset")
        \/ me.at = "intrude" /\ Live /\ other /\ pg' = Undone(pg) /\ me' = [RI!To("reset") EXCEPT !.loc.other = TRUE]
        \/ me.at = "intrude" /\ (~Live \/ ~other) /\ pg' = Undone(Failed) /\ me' = RI!To("reset")
    <3>1. \/ RI!Guarded("publish", ~own, RI!Undone(pg), [RI!To("other") EXCEPT !.loc.own = TRUE], RI!To("reset"))
          \/ RI!Guarded("intrude", ~other, RI!Undone(pg), [RI!To("reset") EXCEPT !.loc.other = TRUE], RI!To("reset"))
      BY <1>12, Zenon DEF RI!ProbeBroadcast
    <3> HIDE DEF own, other
    <3>2. CASE RI!Guarded("publish", ~own, RI!Undone(pg), [RI!To("other") EXCEPT !.loc.own = TRUE], RI!To("reset"))
      BY <1>o, <3>2, Zenon DEF RI!Guarded, RI!Do
    <3>3. CASE RI!Guarded("intrude", ~other, RI!Undone(pg), [RI!To("reset") EXCEPT !.loc.other = TRUE], RI!To("reset"))
      BY <1>o, <3>3, Zenon DEF RI!Guarded, RI!Do
    <3> QED BY <3>1, <3>2, <3>3
  <2>2. /\ me.at \in {"publish", "intrude"} /\ pg' \in {Undone(pg), Undone(Failed)}
        /\ pg.st \in {"open", "aborted", "lost"} /\ Whole(me.todo) /\ ~me.loc.failed /\ ~me.loc.other
        /\ world.uploads /\ pg.who # "A" /\ (pg.st = "aborted" => fault = "cancelled")
    BY <1>c, <2>1 DEF RealtimeIsolationKnow, RealtimeIsolationProbes
  <2>3. /\ world.targets[1].writes = "all" => own /\ other
        /\ other => world.targets[1].writes = "all"
    BY <1>o, <1>r, <2>2 DEF RI!Reaches
  <2> HIDE DEF own, other
  <2>4. Moved /\ (Nobody(pg) => Nobody(pg')) /\ pg'.st \in {"open", "aborted", "lost"} BY <1>h, <1>w, <2>2 DEF Moved
  <2>5. ASSUME NEW at, Walks(at, me.todo, me.said), me'.loc = me.loc
        PROVE  (\A k, x : Untold(k, x)' <=> Untold(k, x)) /\ (Whole(me.todo) => Whole(me.todo)')
    BY <1>j, <2>5 DEF Untold, Walks
  <2>6. CASE me.at = "publish" /\ Live /\ pg' = Undone(pg) /\ me' = [RI!To("other") EXCEPT !.loc.own = TRUE]
    <3>1. /\ Walks("other", me.todo, me.said) /\ DOMAIN me'.loc = DOMAIN me.loc
          /\ me'.loc.failed = me.loc.failed /\ me'.loc.other = me.loc.other /\ me'.loc.cross = me.loc.cross
      <4>1. Walks("other", me.todo, me.said) /\ me'.loc = [me.loc EXCEPT !.own = TRUE] BY <1>c, <2>6 DEF RI!To, Walks,
          Shape
      <4> QED BY <1>k, <4>1
    <3>2. (\A k, x : Untold(k, x)' <=> Untold(k, x)) /\ (Whole(me.todo) => Whole(me.todo)') BY <1>j, <3>1 DEF Untold,
        Walks
    <3>3. pg.saves # <<>> /\ pg.saves[Len(pg.saves)].who # "A" BY <1>c, <2>6 DEF RealtimeIsolationKnow
    <3>4. pg'.st = "open" /\ pg'.who # "A"
      <4>1. Sound(pg) /\ pg.st \in {"open", "aborted"} BY <1>c, <2>2, <2>6 DEF Session, Proper, Live
      <4> DEFINE sp == pg.saves[Len(pg.saves)]
      <4>2. pg' = [Released(pg) EXCEPT !.st = "open", !.role = sp.role, !.who = sp.who, !.made = sp.made]
        BY <2>6, <3>3, <4>1 DEF Undone
      <4>3. sp.who # "A" BY <3>3
      <4> HIDE DEF sp
      <4>4. DOMAIN Released(pg) = DOMAIN pg BY DEF Released
      <4> QED BY <4>1, <4>2, <4>3, <4>4 DEF Sound
    <3>5. RealtimeIsolationKnow' BY <1>u, <1>c, <1>i, <2>2, <2>4, <2>6, <3>1, <3>2, <3>4 DEF RealtimeIsolationKnow,
        Walks, RealtimeIsolationProbes
    <3> QED BY <1>f, <2>2, <2>4, <3>1, <3>5 DEF RealtimeIsolationProbes
  <2>7. CASE me.at = "intrude" /\ Live /\ other /\ pg' = Undone(pg) /\ me' = [RI!To("reset") EXCEPT !.loc.other = TRUE]
    <3>1. /\ Walks("reset", me.todo, me.said) /\ DOMAIN me'.loc = DOMAIN me.loc
          /\ me'.loc.failed = me.loc.failed /\ me'.loc.other = TRUE /\ me'.loc.cross = me.loc.cross
      <4>1. Walks("reset", me.todo, me.said) /\ me'.loc = [me.loc EXCEPT !.other = TRUE] BY <1>c, <2>7 DEF RI!To,
          Walks, Shape
      <4> QED BY <1>k, <4>1
    <3>2. (\A k, x : Untold(k, x)' <=> Untold(k, x)) /\ (Whole(me.todo) => Whole(me.todo)') BY <1>j, <3>1 DEF Untold,
        Walks
    <3>3. RealtimeIsolationKnow' BY <1>u, <1>c, <1>i, <2>2, <2>3, <2>4, <2>7, <3>1, <3>2 DEF RealtimeIsolationKnow,
        Walks, RealtimeIsolationProbes
    <3> QED BY <1>f, <2>2, <2>4, <3>1, <3>3 DEF RealtimeIsolationProbes
  <2>8. CASE (~Live \/ ~own \/ ~other) /\ pg' = Undone(Failed) /\ me' = RI!To("reset")
    <3>1. Walks("reset", me.todo, me.said) /\ me'.loc = me.loc BY <1>e, <2>8
    <3>2. (\A k, x : Untold(k, x)' <=> Untold(k, x)) /\ (Whole(me.todo) => Whole(me.todo)') BY <1>j, <3>1 DEF Untold,
        Walks
    <3>3. pg.st = "lost" => pg'.st = "lost"
      <4>1. pg.st = "lost" => Failed.st = "lost" BY <1>c DEF Failed, Session, Proper, Sound
      <4>2. pg.st = "lost" => Undone(Failed) = Failed BY <4>1 DEF Undone
      <4> QED BY <2>8, <4>1, <4>2
    <3>4. world.targets[1].writes = "all" => ~Live BY <2>3, <2>8
    <3>5. world.targets[1].writes = "all" /\ Live' => fault = "cancelled" BY <2>2, <3>3, <3>4 DEF Live
    <3>6. RealtimeIsolationKnow' BY <1>u, <1>c, <1>i, <2>2, <2>4, <3>1, <3>2, <3>5 DEF RealtimeIsolationKnow, Walks,
        RealtimeIsolationProbes
    <3> QED BY <1>f, <2>2, <2>4, <3>1, <3>6 DEF RealtimeIsolationProbes
  <2> QED BY <2>1, <2>6, <2>7, <2>8
<1>13. CASE RI!ResetRole
  <2> DEFINE says == RI!ClassifyRealtime(me.loc)
             judged == RI!Said(RI!To("finally"), 1, "tenant", says)
             untried == world.uploads /\ ~me.loc.own /\ says = "clear"
  <2>0. PICK S0 : S0 = {[on |-> 1, arm |-> "publish", says |-> "note"]} OBVIOUS
  <2>1. /\ me.at = "reset"
        /\ \/ Live /\ pg' = AsRole(pg, "conn") /\ me' = RI!Said(judged, 1, "publish", "note")
           \/ Live /\ pg' = AsRole(pg, "conn") /\ me' = judged
           \/ pg' = Failed /\ me' = RI!Thrown
    BY <1>13, <1>o, Zenon DEF RI!ResetRole, RI!Await, RI!Do, RI!Messages
  <2>2. CASE /\ Live /\ pg' = AsRole(pg, "conn")
             /\ me' = RI!Said(judged, 1, "publish", "note") \/ me' = judged
    <3>1. /\ world.present /\ world.rls /\ world.policies /\ world.tenants > 1 /\ ~me.loc.failed /\ Untold(1, "tenant")
          /\ me.loc.cross <=> world.targets[1].reads = "all"
          /\ me.loc.other => world.uploads /\ world.targets[1].writes = "all"
          /\ world.uploads /\ world.targets[1].writes = "all" => me.loc.other \/ fault = "cancelled"
      BY <1>c, <2>1, <2>2 DEF RealtimeIsolationKnow, RealtimeIsolationProbes
    <3>2. says \in {"leak", "clear"} /\ (says = "leak" <=> me.loc.cross \/ me.loc.other) BY <3>1
        DEF RI!ClassifyRealtime
    <3>3. PICK s : s = says OBVIOUS
    <3>4. PICK t : t = [on |-> 1, arm |-> "tenant", says |-> s] OBVIOUS
    <3> HIDE DEF says
    <3>5. /\ DOMAIN judged = DOMAIN me /\ judged.at = "finally" /\ judged.said = me.said \cup {t} /\ judged.todo = me.todo
          /\ judged.loc = me.loc /\ judged.thrown = me.thrown /\ judged.result = me.result
      BY <1>c, <3>3, <3>4 DEF RI!Said, RI!To, Shape
    <3> HIDE DEF judged
    <3>6. PICK S : S \in {S0, {}} /\ Walks("finally", me.todo, me.said \cup {t} \cup S) /\ me'.loc = me.loc
      <4>1. CASE me' = RI!Said(judged, 1, "publish", "note")
        <5>1. Walks("finally", me.todo, me.said \cup {t} \cup S0) /\ me'.loc = me.loc BY <1>c, <2>0, <3>5, <4>1
            DEF RI!Said, Walks, Shape
        <5> QED BY <5>1
      <4>2. CASE me' = judged
        <5>1. Walks("finally", me.todo, me.said \cup {t} \cup {}) /\ me'.loc = me.loc BY <1>c, <3>5, <4>2 DEF Walks,
            Shape
        <5> QED BY <5>1
      <4> QED BY <2>2, <4>1, <4>2
    <3>7. s = "leak" => [on |-> 1, arm |-> "tenant"] \in Truth.exposed BY <3>1, <3>2, <3>3, RealtimeIsolationPoints
    <3>8. [on |-> 1, arm |-> "tenant"] \in Truth.exposed => s = "leak" \/ ([on |-> 1, arm |-> "tenant"] \in Truth.blind /\ fault # "none")
      BY <3>1, <3>2, <3>3, RealtimeIsolationPoints
    <3>9. s \in {"leak", "clear"} BY <3>2, <3>3
    <3>10. \A a \in S : a = [on |-> a.on, arm |-> a.arm, says |-> a.says] /\ a.says = "note" /\ Meaning(a)
      BY <2>0, <3>6 DEF Meaning
    <3>11. Meaning(t)
      <4>1. t = [on |-> t.on, arm |-> t.arm, says |-> t.says] /\ t.says = s /\ Key(t) = [on |-> 1, arm |-> "tenant"]
        BY <3>4 DEF Key
      <4> QED BY <3>7, <3>8, <3>9, <4>1 DEF Meaning
    <3>12. Meant'
      <4>1. \A a : Meaning(a)' <=> Meaning(a) BY <1>t DEF Meaning, Key
      <4>2. \A a \in me'.said : a \in me.said \/ a = t \/ a \in S BY <3>6 DEF Walks
      <4>3. \A a \in me'.said : Meaning(a)' BY <1>c, <3>10, <3>11, <4>1, <4>2 DEF Meant
      <4>4. t.on = 1 /\ t.arm = "tenant" BY <3>4
      <4>5. \A b \in me.said : b.on = 1 /\ b.arm = "tenant" => b.says = "note" BY <3>1 DEF Untold
      <4>6. ASSUME NEW a \in me'.said, NEW b \in me'.said, a.on = b.on, a.arm = b.arm, a.says = "leak" PROVE b.says # "clear"
        <5>1. a \in me.said \/ a = t BY <3>10, <4>2, <4>6
        <5>2. b \in me.said \/ b = t \/ b.says = "note" BY <3>10, <4>2
        <5>3. a \in me.said /\ b \in me.said => b.says # "clear" BY <1>c, <4>6 DEF Meant, Agreed
        <5>4. a = t /\ b \in me.said => b.says # "clear" BY <4>4, <4>5, <4>6
        <5>5. a \in me.said /\ b = t => FALSE BY <4>4, <4>5, <4>6
        <5>6. a = t /\ b = t => b.says # "clear" BY <4>6
        <5> QED BY <5>1, <5>2, <5>3, <5>4, <5>5, <5>6
      <4> QED BY <4>3, <4>6 DEF Meant, Agreed
    <3>13. ASSUME NEW e \in Truth.exposed PROVE Done(e)'
      <4>1. e = [on |-> 1, arm |-> "tenant"] BY RealtimeIsolationPoints
      <4>2. t \in me'.said /\ t.on = 1 /\ t.arm = "tenant" /\ t.says = s BY <3>4, <3>6 DEF Walks
      <4>3. CASE s = "leak" BY <4>1, <4>2, <4>3 DEF Done, Heard, Found
      <4>4. CASE e \in Truth.blind /\ fault # "none" BY <1>u, <1>t, <4>4 DEF Done
      <4> QED BY <3>8, <4>1, <4>3, <4>4
    <3>14. Moved /\ (Nobody(pg) => Nobody(pg')) BY <1>h, <2>2 DEF Moved, Roles
    <3>15. RealtimeIsolationKnow' BY <1>u, <1>c, <1>i, <2>1, <3>6, <3>14 DEF RealtimeIsolationKnow, Walks,
        RealtimeIsolationProbes
    <3>16. Shape'
      <4>1. Queue(me.todo) BY <1>c DEF Shape
      <4> QED BY <1>u, <1>c, <2>1, <3>6, <4>1, Going
    <3>17. Session' BY <1>u, <1>c, <2>1, <3>14, <3>6, Moving DEF Walks
    <3>18. Plays BY <2>1, <3>6 DEF Walks, Plays
    <3> QED BY <1>t, <3>12, <3>13, <3>15, <3>16, <3>17, <3>18 DEF Common, RealtimeIsolationInv
  <2> QED BY <1>e, <1>l, <2>1, <2>2
<1>14. CASE RI!RollBack("close")
  <2>1. /\ me.at = "finally" /\ Common' /\ Plays /\ me'.at = (IF me.thrown THEN "close" ELSE "close")
        /\ me'.thrown = me.thrown /\ me'.result = me.result
        /\ me'.loc = me.loc /\ me'.said = me.said /\ me'.todo = me.todo /\ (Counts' <=> Counts)
        /\ pg' \in {pg, RolledBack(pg)} /\ (pg.st \notin {"open", "aborted"} => pg' = pg)
    BY <1>b, <1>t, <1>14, RollsBack
  <2>2. (\A e : Done(e)' <=> Done(e)) /\ (Unclear' <=> Unclear) BY <1>u, <1>t, <1>c, <2>1, Quiet
  <2>3. RealtimeIsolationKnow' BY <1>u, <1>c, <2>1, <2>2, <1>h, <1>i DEF RealtimeIsolationKnow,
      RealtimeIsolationProbes
  <2>4. \A e \in Truth.exposed : RealtimeIsolationPending(e) /\ Counts => RealtimeIsolationPending(e)'
    BY <1>u, <2>1 DEF RealtimeIsolationPending, RealtimeIsolationProbes
  <2> QED BY <1>t, <2>1, <2>2, <2>3, <2>4 DEF RealtimeIsolationInv
<1>15. CASE RI!Connect
  <2>1. /\ me.at = "start" /\ Common' /\ Plays /\ me'.loc = me.loc /\ me'.said = {} /\ me'.todo = me.todo
        /\ \/ me'.at = "plan" /\ pg' = [pg EXCEPT !.st = "idle"] /\ pg'.st = "idle" /\ Whole(me'.todo)
           \/ me'.at = "done" /\ ~Counts' /\ pg' = pg
    BY <1>b, <1>t, <1>15, Connects
  <2>2. RealtimeIsolationKnow' BY <1>u, <1>c, <2>1, <1>h, <1>i DEF RealtimeIsolationKnow, Unclear,
      RealtimeIsolationProbes
  <2>3. Counts' => \A e : RealtimeIsolationPending(e)' BY <2>1 DEF RealtimeIsolationPending
  <2> QED BY <2>1, <2>2, <2>3 DEF RealtimeIsolationInv
<1>16. CASE RI!Disconnect
  <2>1. /\ me.at = "close" /\ Common' /\ Plays /\ me'.at = "done"
        /\ me'.loc = me.loc /\ me'.said = me.said /\ me'.todo = me.todo /\ (Counts' => Counts)
    BY <1>b, <1>t, <1>16, Disconnects
  <2>2. (\A e : Done(e)' <=> Done(e)) /\ (Unclear' <=> Unclear) BY <1>u, <1>t, <1>c, <2>1, Quiet
  <2>3. RealtimeIsolationKnow' BY <1>u, <1>c, <2>1, <2>2 DEF RealtimeIsolationKnow, RealtimeIsolationProbes
  <2>4. \A e : ~RealtimeIsolationPending(e) BY <2>1 DEF RealtimeIsolationPending, RealtimeIsolationProbes
  <2> QED BY <1>t, <2>1, <2>2, <2>3, <2>4 DEF RealtimeIsolationInv
<1> QED BY <1>1, <1>2, <1>3, <1>4, <1>5, <1>6, <1>7, <1>8, <1>9, <1>10, <1>11, <1>12, <1>13, <1>14, <1>15, <1>16
    DEF RI!Next, RI!Check, RI!Run, RI!SelfCheck

\* So does a fault, whenever it strikes.
LEMMA RealtimeIsolationStruck ==
  ASSUME Common, RealtimeIsolationInv, world.guard = "realtime-isolation", Drop \/ Cancel
  PROVE  Common' /\ RealtimeIsolationInv'
<1>1. world' = world /\ fault = "none" BY DEF Drop, Cancel
<1>2. Truth'.exposed = Truth.exposed /\ Truth.blind \subseteq Truth'.blind /\ Truth.spurious \subseteq Truth'.spurious
  <2>1. Truth = RI!Truth /\ Truth' = RI!Truth' BY <1>1 DEF Truth
  <2>2. RI!Exposed' = RI!Exposed BY <1>1 DEF RI!Exposed
  <2>3. RI!Blind \subseteq RI!Blind' BY <1>1, <2>2 DEF RI!Blind
  <2>4. RI!Spurious \subseteq RI!Spurious' BY <1>1 DEF RI!Spurious
  <2> QED BY <2>1, <2>2, <2>3, <2>4 DEF RI!Truth
<1>3. /\ me' = me /\ fault' # "none" /\ Common'
      /\ \/ fault' = "lost" /\ pg'.st = "lost" /\ pg'.who = "nobody" /\ pg'.saves = <<>>
         \/ fault' = "cancelled" /\ pg.st = "open" /\ pg'.st = "aborted" /\ pg' = Failed
      /\ \A e : Done(e) => Done(e)'
      /\ \A k, x : Untold(k, x)' <=> Untold(k, x)
      /\ Unclear' <=> Unclear
  BY <1>2, Striking
<1>4. RealtimeIsolationKnow'
  <2>1. RealtimeIsolationKnow /\ Sound(pg) BY DEF RealtimeIsolationInv, Common, Session, Proper
  <2>2. Nobody(pg) => Nobody(pg')
    <3>1. pg' = Failed /\ Nobody(pg) => Nobody(pg') BY <2>1, Unnamed
    <3>2. pg'.who = "nobody" /\ pg'.saves = <<>> => Nobody(pg') BY DEF Nobody
    <3> QED BY <1>3, <3>1, <3>2
  <2>3. Whole(me.todo) => Whole(me.todo)' BY <1>1, <1>3 DEF Whole, Count
  <2>4. ~Live' /\ pg'.st \in {"aborted", "lost"} /\ (pg'.st = "aborted" => fault' = "cancelled") BY <1>3 DEF Live
  <2>5. pg.who # "A" => pg'.who # "A" BY <1>3, <2>1 DEF Failed, Sound
  <2> QED BY <1>1, <1>3, <2>1, <2>2, <2>3, <2>4, <2>5 DEF RealtimeIsolationKnow, RealtimeIsolationProbes
<1>5. \A e : RealtimeIsolationPending(e) => RealtimeIsolationPending(e)' BY <1>1, <1>3 DEF RealtimeIsolationPending
<1> QED BY <1>2, <1>3, <1>4, <1>5 DEF RealtimeIsolationInv, Counts

\* Realtime-isolation begins so.
LEMMA RealtimeIsolationBegins == ASSUME RI!Init PROVE Common /\ RealtimeIsolationInv /\ world.guard = "realtime-isolation"
<1>1. Begins("realtime-isolation") /\ me.loc = [canary |-> FALSE, cross |-> FALSE, own |-> FALSE, other |-> FALSE, failed |-> FALSE]
  BY WorldAssumption DEF Names, Begins, Whole, Count, Closed, RI!Init, RI!Enter, RI!Entered, RI!Closed
<1>2. Common BY <1>1, Beginning DEF Names
<1>3. RealtimeIsolationKnow BY <1>1 DEF RealtimeIsolationKnow, Begins, Unclear, Nobody, Closed,
    RealtimeIsolationProbes
<1> QED BY <1>1, <1>2, <1>3 DEF RealtimeIsolationInv, RealtimeIsolationPending, Begins

\* A step of nobody keeps it.
LEMMA RealtimeIsolationStays ==
  ASSUME Common, RealtimeIsolationInv, world.guard = "realtime-isolation", UNCHANGED vars
  PROVE  Common' /\ RealtimeIsolationInv'
<1>1. world' = world /\ fault' = fault /\ pg' = pg /\ me' = me BY DEF vars
<1>2. Truth' = Truth BY <1>1, RealtimeIsolationSame
<1>3. Common' /\ (\A e : Done(e)' <=> Done(e)) /\ (Counts' <=> Counts) BY <1>1, <1>2, Resting
<1>4. RealtimeIsolationKnow' /\ (\A e : RealtimeIsolationPending(e)' <=> RealtimeIsolationPending(e))
  BY <1>1, <1>2 DEF RealtimeIsolationInv, RealtimeIsolationKnow, RealtimeIsolationPending, Nobody,
      RealtimeIsolationProbes, Untold, Whole, Live,
           Shape, Walks, Queue, Count, Meant, Unclear, Done, Meaning, Key, Agreed, Heard, Found, Common, Leaves,
           Counts, Plays, Results, Session, Moved, Roles, Proper
<1> QED BY <1>2, <1>3, <1>4 DEF RealtimeIsolationInv

\* At the end nothing is pending, and a question is a target and an arm.
LEMMA RealtimeIsolationEnds ==
  ASSUME Common, world.guard = "realtime-isolation", RealtimeIsolationInv, me.at = "done", Counts
  PROVE  /\ \A e \in Truth.exposed : e = Key(e) /\ Done(e)
         /\ Truth.provable \subseteq Truth.exposed
<1>1. \A e : ~RealtimeIsolationPending(e) BY DEF RealtimeIsolationPending, RealtimeIsolationProbes
<1> QED BY <1>1, RealtimeIsolationPoints DEF RealtimeIsolationInv, Key

-----------------------------------------------------------------------------
(* definer-rpc.                                                            *)
Sampled == \E i \in 1..Len(world.samples) : world.samples[i] = "two"

DefinerRpcEarly == {"start", "plan", "sample", "schemas", "begin", "canary", "role", "check", "become"}
DefinerRpcCalls == {"call", "control", "sentinel"}

\* The functions on the list have no answer yet about rows, the writable schemas are
\* known unless the catalog is old, and a call has its function.
DefinerRpcKnow ==
  /\ DOMAIN me.loc = {"canary", "two", "tables", "writable"}
  /\ me.at \in {"plan", "sample", "schemas", "begin"} => pg.st \in {"idle", "lost"}
  /\ me.at \in DefinerRpcEarly => Whole(me.todo) /\ \A k : Untold(k, "rows")
  /\ me.at \in {"start", "plan"} => me.loc.tables = world.samples
  /\ me.at = "sample" => /\ me.loc.tables \in Seq({"two", "one", "error"})
                         /\ fault = "none" /\ Sampled => \E i \in 1..Len(me.loc.tables) : me.loc.tables[i] = "two"
  /\ me.at \in {"schemas", "begin", "canary", "role", "check", "become", "next"} \cup DefinerRpcCalls =>
       (fault = "none" /\ Sampled => me.loc.two)
  /\ me.loc.writable \subseteq world.writable
  /\ me.at = "begin" => pg.st = "lost" \/ world.oldCatalog \/ me.loc.writable = world.writable
  /\ me.at \in {"canary", "role", "check", "become", "next"} \cup DefinerRpcCalls =>
       world.oldCatalog \/ me.loc.writable = world.writable
  /\ me.at \in {"next"} \cup DefinerRpcCalls => \A k \in Todo : Untold(k, "rows")
  /\ \A a \in me.said : a.arm # "rows" => a.says # "clear"
  /\ me.at \in DefinerRpcCalls => me.todo # <<>> /\ Target.canExecute
  /\ me.at = "call" /\ fault = "none" => Live
  /\ me.at \in {"control", "sentinel"} => Target.foreign = "some"

\* The function is on the list, and at the one at hand its body has been judged.
DefinerRpcPending(e) ==
  \/ me.at \in DefinerRpcEarly
  \/ me.at = "next" /\ e.on \in Todo
  \/ me.at \in DefinerRpcCalls /\ e.on \in Todo /\ (e.on # Current \/ e.arm = "rows")

\* Everything exposed is pending or done.
DefinerRpcInv == DefinerRpcKnow /\ (Counts => \A e \in Truth.exposed : DefinerRpcPending(e) \/ Done(e))
\* What of a function is exposed, and what the checks of its body say.
FunctionExposed(f, arm) ==
  /\ f.canExecute
  /\ \/ arm = "path" /\ DR!Hijackable(f)
     \/ arm = "sql" /\ f.body = "injectable"
     \/ arm = "rows" /\ f.foreign = "some"

FunctionMissed(f, arm) ==
  \/ arm = "rows" /\ f.volatile /\ ~f.smell
  \/ arm = "path" /\ f.pinned /\ ~DR!TemporarilyShadowable(f) /\ (world.oldCatalog \/ DR!ShadowableSchemas(f, world.writable) = {})

BodySaid(k, f, writable) ==
  IF ~f.canExecute THEN {}
  ELSE [on : {k}, arm : {"sql"}, says : DR!DynamicSqlInjection(f)] \cup [on : {k}, arm : {"path"}, says : DR!ClassifyPath(f, writable)]

\* What is exposed to definer-rpc, and what of it is missed, misjudged or provable.
LEMMA DefinerRpcPoints ==
  ASSUME world.guard = "definer-rpc"
  PROVE  /\ \A e : e \in Truth.exposed <=>
              e = [on |-> e.on, arm |-> e.arm] /\ e.on \in 1..Count /\ FunctionExposed(world.targets[e.on], e.arm)
         /\ \A e : e \in Truth.blind <=> e \in Truth.exposed /\ FunctionMissed(world.targets[e.on], e.arm)
         /\ \A e : e \in Truth.provable <=>
              /\ e \in Truth.exposed /\ e \notin Truth.blind
              /\ e.arm = "path" /\ ~world.targets[e.on].pinned => world.writable # {} /\ ~world.oldCatalog
              /\ e.arm = "rows" => /\ ~world.targets[e.on].volatile /\ DR!PlanCall(world.targets[e.on])
                                   /\ Sampled
<1>1. Truth.exposed = DR!Exposed /\ Truth.blind = DR!Blind /\ Truth.provable = DR!Provable BY DEF Truth, DR!Truth
<1>2. \A e : e \in Truth.exposed <=>
              e = [on |-> e.on, arm |-> e.arm] /\ e.on \in 1..Count /\ FunctionExposed(world.targets[e.on], e.arm)
  <2> DEFINE May == {k \in 1..Len(world.targets) : world.targets[k].canExecute}
             A == {k \in May : DR!Hijackable(world.targets[k])}
             B == {k \in May : world.targets[k].body = "injectable"}
             C == {k \in May : world.targets[k].foreign = "some"}
  <2>1. Truth.exposed = [on : A, arm : {"path"}] \cup [on : B, arm : {"sql"}] \cup [on : C, arm : {"rows"}]
    BY <1>1, Zenon DEF DR!Exposed
  <2>2. \A k : /\ k \in A <=> k \in 1..Count /\ FunctionExposed(world.targets[k], "path")
               /\ k \in B <=> k \in 1..Count /\ FunctionExposed(world.targets[k], "sql")
               /\ k \in C <=> k \in 1..Count /\ FunctionExposed(world.targets[k], "rows")
    BY DEF FunctionExposed, Count
  <2>3. \A k, arm : FunctionExposed(world.targets[k], arm) => arm \in {"path", "sql", "rows"} BY DEF FunctionExposed
  <2> HIDE DEF A, B, C
  <2>4. \A e : e \in [on : A, arm : {"path"}] <=> e = [on |-> e.on, arm |-> e.arm] /\ e.on \in A /\ e.arm = "path" OBVIOUS
  <2>5. \A e : e \in [on : B, arm : {"sql"}] <=> e = [on |-> e.on, arm |-> e.arm] /\ e.on \in B /\ e.arm = "sql" OBVIOUS
  <2>6. \A e : e \in [on : C, arm : {"rows"}] <=> e = [on |-> e.on, arm |-> e.arm] /\ e.on \in C /\ e.arm = "rows" OBVIOUS
  <2>7. ASSUME NEW e
        PROVE  e \in Truth.exposed <=> e = [on |-> e.on, arm |-> e.arm] /\ e.on \in 1..Count /\ FunctionExposed(world.targets[e.on], e.arm)
    <3>1. e \in Truth.exposed <=> \/ e = [on |-> e.on, arm |-> e.arm] /\ e.on \in A /\ e.arm = "path"
                                  \/ e = [on |-> e.on, arm |-> e.arm] /\ e.on \in B /\ e.arm = "sql"
                                  \/ e = [on |-> e.on, arm |-> e.arm] /\ e.on \in C /\ e.arm = "rows"
      BY <2>1, <2>4, <2>5, <2>6
    <3>2. PICK k, arm : k = e.on /\ arm = e.arm OBVIOUS
    <3>3. arm = "path" => (k \in A <=> k \in 1..Count /\ FunctionExposed(world.targets[k], arm)) BY <2>2, Zenon
    <3>4. arm = "sql" => (k \in B <=> k \in 1..Count /\ FunctionExposed(world.targets[k], arm)) BY <2>2, Zenon
    <3>5. arm = "rows" => (k \in C <=> k \in 1..Count /\ FunctionExposed(world.targets[k], arm)) BY <2>2, Zenon
    <3>6. FunctionExposed(world.targets[k], arm) => arm \in {"path", "sql", "rows"} BY <2>3
    <3> QED BY <3>1, <3>2, <3>3, <3>4, <3>5, <3>6
  <2> QED BY <2>7
<1>3. \A e : e \in Truth.blind <=> e \in Truth.exposed /\ FunctionMissed(world.targets[e.on], e.arm)
  BY <1>1 DEF DR!Blind, FunctionMissed
<1>4. DR!Provable = {e \in DR!Exposed \ DR!Blind :
           /\ e.arm = "path" /\ ~world.targets[e.on].pinned => world.writable # {} /\ ~world.oldCatalog
           /\ e.arm = "rows" => /\ ~world.targets[e.on].volatile /\ DR!PlanCall(world.targets[e.on])
                                /\ Sampled}
  BY Zenon DEF DR!Provable, Sampled
<1> QED BY <1>1, <1>2, <1>3, <1>4

\* What the checks of a body find is so, and of what is exposed they miss only
\* the listed.
LEMMA BodyTruths ==
  ASSUME world.guard = "definer-rpc", NEW k \in 1..Count, NEW writable, writable \subseteq world.writable,
         NEW S, S = BodySaid(k, world.targets[k], writable)
  PROVE  /\ \A a \in S : Meaning(a) /\ a.says # "clear" /\ a.on = k /\ a.arm # "rows"
         /\ (world.oldCatalog \/ writable = world.writable) =>
              \A e \in Truth.exposed : e.on = k /\ e.arm # "rows" =>
                \/ e \in Truth.blind
                \/ \E a \in S : a.on = e.on /\ (e \in Truth.provable => a.arm = e.arm /\ a.says = "leak")
<1>0. PICK f : f = world.targets[k] OBVIOUS
<1> DEFINE D == DR!DynamicSqlInjection(f)
           P == DR!ClassifyPath(f, writable)
<1>1. S = IF ~f.canExecute THEN {} ELSE [on : {k}, arm : {"sql"}, says : D] \cup [on : {k}, arm : {"path"}, says : P]
  BY <1>0 DEF BodySaid
<1>2. D \subseteq {"leak", "note"} /\ ("leak" \in D <=> f.body = "injectable") BY DEF DR!DynamicSqlInjection
<1>3. DR!ShadowableSchemas(f, writable) # {} => DR!Hijackable(f)
  BY DEF DR!ShadowableSchemas, DR!Hijackable
<1>4. P \subseteq {"leak", "note"} /\ ("leak" \in P => DR!Hijackable(f))
  BY <1>3 DEF DR!ClassifyPath, DR!TemporarilyShadowable, DR!Hijackable
<1>5. ~f.pinned => P = IF writable # {} THEN {"leak"} ELSE {"note"} BY DEF DR!ClassifyPath
<1>6. f.pinned /\ (DR!ShadowableSchemas(f, writable) # {} \/ DR!TemporarilyShadowable(f)) => "leak" \in P
  BY DEF DR!ClassifyPath
<1> HIDE DEF D, P
<1>7. ASSUME NEW a \in S PROVE Meaning(a) /\ a.says # "clear" /\ a.on = k /\ a.arm # "rows"
  <2>1. /\ a = [on |-> a.on, arm |-> a.arm, says |-> a.says] /\ a.on = k /\ f.canExecute
        /\ (a.arm = "sql" /\ a.says \in D) \/ (a.arm = "path" /\ a.says \in P)
    BY <1>1
  <2>2. a.says \in {"leak", "note"} BY <1>2, <1>4, <2>1
  <2>3. a.says = "leak" => FunctionExposed(f, a.arm) BY <1>2, <1>4, <2>1 DEF FunctionExposed
  <2>4. Key(a) = [on |-> k, arm |-> a.arm] BY <2>1 DEF Key
  <2>5. a.says = "leak" => Key(a) \in Truth.exposed BY <1>0, <2>3, <2>4, DefinerRpcPoints
  <2> QED BY <2>1, <2>2, <2>5 DEF Meaning
<1>8. ASSUME world.oldCatalog \/ writable = world.writable, NEW e \in Truth.exposed, e.on = k, e.arm # "rows", e \notin Truth.blind
      PROVE  \E a \in S : a.on = e.on /\ (e \in Truth.provable => a.arm = e.arm /\ a.says = "leak")
  <2>1. e = [on |-> k, arm |-> e.arm] /\ FunctionExposed(f, e.arm) /\ ~FunctionMissed(f, e.arm)
    BY <1>0, <1>8, DefinerRpcPoints
  <2>2. CASE e.arm = "sql"
    <3>1. f.canExecute /\ "leak" \in D BY <1>2, <2>1, <2>2 DEF FunctionExposed
    <3>2. [on |-> k, arm |-> "sql", says |-> "leak"] \in S BY <1>1, <3>1
    <3> QED BY <1>8, <2>2, <3>2
  <2>3. CASE e.arm = "path" /\ f.pinned
    <3>1. f.canExecute BY <2>1 DEF FunctionExposed
    <3>2. DR!ShadowableSchemas(f, writable) # {} \/ DR!TemporarilyShadowable(f) BY <1>8, <2>1, <2>3 DEF FunctionMissed
    <3>3. [on |-> k, arm |-> "path", says |-> "leak"] \in S BY <1>1, <1>6, <2>3, <3>1, <3>2
    <3> QED BY <1>8, <2>3, <3>3
  <2>4. CASE e.arm = "path" /\ ~f.pinned
    <3>1. f.canExecute BY <2>1 DEF FunctionExposed
    <3>2. e \in Truth.provable => writable # {} BY <1>0, <1>8, <2>4, DefinerRpcPoints
    <3>3. PICK s : s \in P /\ (writable # {} => s = "leak") BY <1>5, <2>4
    <3>4. [on |-> k, arm |-> "path", says |-> s] \in S BY <1>1, <3>1, <3>3
    <3> QED BY <1>8, <2>4, <3>2, <3>3, <3>4
  <2> QED BY <1>8, <2>1, <2>2, <2>3, <2>4 DEF FunctionExposed
<1> QED BY <1>7, <1>8

\* What is exposed to definer-rpc depends on the database and the fault alone.
LEMMA DefinerRpcSame ==
  ASSUME world.guard = "definer-rpc", world' = world, fault' = fault
  PROVE  Truth' = Truth
<1>1. Truth = DR!Truth BY DEF Truth
<1>2. Truth' = DR!Truth' BY DEF Truth
<1>3. DR!Exposed' = DR!Exposed BY DEF DR!BeforeHome, DR!Exposed, DR!Hijackable, DR!Names
<1>4. DR!Blind' = DR!Blind BY <1>3 DEF DR!BeforeHome, DR!Blind, DR!Names, DR!ShadowableSchemas,
    DR!TemporarilyShadowable
<1>5. DR!Provable' = DR!Provable BY <1>3, <1>4 DEF DR!PlanCall, DR!Provable
<1>6. DR!Spurious' = DR!Spurious BY DEF DR!Spurious
<1>7. DR!Fragile' = DR!Fragile BY DEF DR!Fragile
<1> QED BY <1>1, <1>2, <1>3, <1>4, <1>5, <1>6, <1>7 DEF DR!Truth

\* A step of definer-rpc changes neither the database nor the fault.
LEMMA DefinerRpcRest == ASSUME DR!Next PROVE world' = world /\ fault' = fault
BY DEF DR!Attempt, DR!Await, DR!BecomeTenant, DR!Begin, DR!CallFunction, DR!CallWithSentinel, DR!Check,
    DR!CheckCanary,
     DR!Connect, DR!ControlArm, DR!CreateCanary, DR!Disconnect, DR!Do, DR!Guarded, DR!Next, DR!NextFunction,
     DR!PlanFunctions, DR!RollBack, DR!Run, DR!SampleTenants, DR!SelfCheck, DR!SwitchRole, DR!WritableSchemas

\* A step of definer-rpc keeps what it knows, and is one its runner expects.
LEMMA DefinerRpcAnswers ==
  ASSUME Common, DefinerRpcInv, world.guard = "definer-rpc", DR!Next
  PROVE  Common' /\ DefinerRpcInv' /\ Plays
<1>u. world' = world /\ fault' = fault BY DefinerRpcRest
<1>t. Truth' = Truth BY <1>u, DefinerRpcSame
<1>b. /\ DR!Connect <=> Connect
      /\ DR!Disconnect <=> Disconnect
      /\ DR!RollBack("close") <=> RollBack("close")
      /\ DR!CreateCanary("role") <=> CreateCanary("role")
      /\ DR!SwitchRole("check") <=> SwitchRole("check")
      /\ DR!CheckCanary("become") <=> CheckCanary("become")
  BY DEF DR!AsRole, AsRole, DR!Attempt, Attempt, DR!Await, Await, DR!CanaryRead, CanaryRead, DR!CheckCanary,
         CheckCanary, DR!Closed, Closed, DR!Connect, Connect, DR!CreateCanary, CreateCanary, DR!Disconnect,
         Disconnect, DR!Do, Do, DR!Ending, Ending, DR!Failed, Failed, DR!LeaksIn, LeaksIn, DR!Live, Live, DR!Made,
         Made, DR!RollBack, RollBack, DR!RolledBack, RolledBack, DR!Said, Said, DR!SwitchRole, SwitchRole,
         DR!Thrown, Thrown, DR!To, To, DR!Verdict, Verdict
<1>o. /\ DR!Live <=> Live
      /\ DR!Failed = Failed
      /\ DR!Began(pg) = Began(pg)
      /\ DR!Saved(pg) = Saved(pg)
      /\ DR!Released(pg) = Released(pg)
      /\ DR!Undone(pg) = Undone(pg)
      /\ DR!Undone(DR!Failed) = Undone(Failed)
      /\ DR!RolledBack(pg) = RolledBack(pg)
      /\ \A x : DR!AsRole(pg, x) = AsRole(pg, x)
      /\ \A x : DR!Acting(pg, x) = Acting(pg, x)
      /\ \A x : DR!Made(pg, x) = Made(pg, x)
      /\ DR!Target = Target
      /\ DR!Current = Current
  BY DEF DR!Live, Live, DR!Failed, Failed, DR!Began, Began, DR!Saved, Saved, DR!Released, Released, DR!Undone,
         Undone, DR!RolledBack, RolledBack, DR!AsRole, AsRole, DR!Acting, Acting, DR!Made, Made, DR!Target, Target,
         DR!Current, Current, DR!Closed, Closed
<1>c. Session /\ Shape /\ Meant /\ DefinerRpcKnow BY DEF Common, DefinerRpcInv
<1>k. DOMAIN me.loc = {"canary", "two", "tables", "writable"} BY <1>c DEF DefinerRpcKnow
<1>q. me.todo # <<>> =>
        /\ Current \in Todo /\ Current \in 1..Count /\ Queue(Tail(me.todo))
        /\ Elems(Tail(me.todo)) = Todo \ {Current}
  BY <1>c, Popping DEF Shape, Todo, Current
<1>x. Todo \subseteq 1..Count BY <1>c DEF Shape, Queue, Todo, Elems
\* Leaving.
<1>l. ASSUME Leaves, me.at \notin {"start", "done"}, pg' \in {pg, Failed} PROVE Common' /\ DefinerRpcInv' /\ Plays
  <2>1. Shape' /\ Meant' /\ ~Counts' /\ Plays BY <1>u, <1>t, <1>l, Leaving
  <2>2. Session' BY <1>u, <1>c, <1>l, Moving DEF Moved, Leaves
  <2>4. (Unclear' <=> Unclear) /\ (\A k, x : Untold(k, x)' <=> Untold(k, x)) BY <1>u, <1>t, <1>c, <1>l, Quiet
      DEF Leaves
  <2>5. pg'.st \in {pg.st, IF pg.st = "open" THEN "aborted" ELSE pg.st} BY <1>c, <1>l DEF Failed, Session, Proper,
      Sound
  <2>3. DefinerRpcKnow'
    <3>1. me'.at \in {"finally", "close"} /\ me'.todo = me.todo /\ me'.said = me.said /\ me'.loc = me.loc /\ DOMAIN me' = DOMAIN me
      BY <1>l DEF Leaves
    <3> QED BY <1>u, <1>c, <1>l, <2>1, <2>4, <2>5, <3>1 DEF DefinerRpcKnow, DefinerRpcEarly, DefinerRpcCalls
  <2> QED BY <2>1, <2>2, <2>3 DEF Common, DefinerRpcInv
\* Going on without an answer.
<1>s. ASSUME NEW at, NEW todo, Walks(at, todo, me.said), Queue(todo), Moved, me.at \notin {"start", "done"},
             at \notin {"start", "plan", "done"}, DefinerRpcKnow',
             \A e \in Truth.exposed : Counts /\ DefinerRpcPending(e) => DefinerRpcPending(e)' \/ Done(e)
      PROVE  Common' /\ DefinerRpcInv' /\ Plays
  <2>1. Shape' BY <1>u, <1>c, <1>s, Going
  <2>2. Meant' /\ \A e : Done(e)' <=> Done(e) BY <1>u, <1>t, <1>c, <1>s, Quiet DEF Walks
  <2>3. Session' BY <1>u, <1>c, <1>s, Moving DEF Walks
  <2>4. (Counts' => Counts) /\ Plays BY <1>s DEF Walks, Counts, Plays
  <2> QED BY <1>t, <1>s, <2>1, <2>2, <2>3, <2>4 DEF Common, DefinerRpcInv
<1>e. /\ me' = DR!Thrown => Leaves
      /\ me' = DR!Ending(me, "skip") => Leaves
      /\ \A l : me' = DR!To(l) => Walks(l, me.todo, me.said) /\ me'.loc = me.loc
  BY <1>c DEF Shape, DR!Thrown, DR!Ending, DR!To, Leaves, Walks
\* Going on with several answers.
<1>m. ASSUME NEW at, NEW todo, NEW S, Walks(at, todo, me.said \cup S), Queue(todo), Moved, me.at \notin {"start", "done"},
             at \notin {"start", "plan", "done"}, DefinerRpcKnow',
             \A a \in S : Meaning(a) /\ a.says # "clear",
             \A a \in S, b \in me.said : a.says = "leak" /\ b.on = a.on /\ b.arm = a.arm => b.says # "clear",
             \A e \in Truth.exposed : Counts /\ DefinerRpcPending(e) =>
                \/ DefinerRpcPending(e)' \/ Done(e)
                \/ e \in Truth.blind
                \/ \E a \in S : a.on = e.on /\ (fault = "none" /\ e \in Truth.provable => a.arm = e.arm /\ a.says = "leak")
      PROVE  Common' /\ DefinerRpcInv' /\ Plays
  <2>1. Shape' BY <1>u, <1>c, <1>m, Going
  <2>2. /\ Meant'
        /\ \A e : Done(e) => Done(e)'
        /\ \A e : (\E a \in S : a.on = e.on) => Heard(e)'
        /\ \A e : (\E a \in S : a.on = e.on /\ a.arm = e.arm /\ a.says = "leak") => Done(e)'
    BY <1>u, <1>t, <1>c, <1>m, TellingAll DEF Walks
  <2>3. Session' BY <1>u, <1>c, <1>m, Moving DEF Walks
  <2>4. (Counts' => Counts) /\ Plays BY <1>m DEF Walks, Counts, Plays
  <2>5. \A e \in Truth.exposed : e \in Truth.blind => Done(e)' BY <1>u, <1>t, DefinerRpcPoints DEF Done
  <2>6. ASSUME NEW e \in Truth.exposed, Counts, DefinerRpcPending(e) PROVE DefinerRpcPending(e)' \/ Done(e)'
    <3>1. CASE \E a \in S : a.on = e.on /\ (fault = "none" /\ e \in Truth.provable => a.arm = e.arm /\ a.says = "leak")
      <4>1. Heard(e)' BY <2>2, <3>1
      <4>2. fault = "none" /\ e \in Truth.provable => Done(e)' BY <2>2, <3>1
      <4>3. ~(fault = "none" /\ e \in Truth.provable) => Done(e)' BY <1>u, <1>t, <4>1 DEF Done
      <4> QED BY <4>2, <4>3
    <3> QED BY <1>m, <2>2, <2>5, <2>6, <3>1
  <2> QED BY <1>t, <1>m, <2>1, <2>2, <2>3, <2>4, <2>6 DEF Common, DefinerRpcInv
<1>r. me.todo # <<>> => Target = world.targets[Current] /\ Current \in 1..Count BY <1>q DEF Target, Current
<1>j. me'.todo = me.todo => Todo' = Todo /\ Current' = Current /\ Target' = Target /\ (Whole(me.todo) => Whole(me.todo)')
  BY <1>u DEF Todo, Current, Target, Whole, Count
<1>y. Sampled' <=> Sampled BY <1>u DEF Sampled
<1>z. pg.st \in {"idle", "lost"} /\ pg' \in {pg, Failed} => pg'.st = pg.st /\ Moved
  <2>1. Failed.st = IF pg.st = "open" THEN "aborted" ELSE pg.st BY <1>c DEF Failed, Session, Proper, Sound
  <2> QED BY <2>1 DEF Moved
<1>p. {"canary", "role", "check", "become"} \subseteq DefinerRpcEarly /\ {"sample", "schemas", "begin"} \subseteq DefinerRpcEarly
      /\ "next" \notin DefinerRpcEarly \cup DefinerRpcCalls
      /\ DefinerRpcEarly \cap DefinerRpcCalls = {} /\ \A x \in DefinerRpcCalls : x \notin {"start", "plan", "done"}
  BY DEF DefinerRpcEarly, DefinerRpcCalls
\* On to a place before the functions.
<1>f. ASSUME NEW at \in {"sample", "schemas", "begin", "canary", "role", "check", "become"}, Walks(at, me.todo, me.said),
             Moved, me.at \notin {"start", "done"}, DefinerRpcKnow'
      PROVE  Common' /\ DefinerRpcInv' /\ Plays
  <2>1. \A e : DefinerRpcPending(e)' BY <1>f DEF DefinerRpcPending, DefinerRpcEarly, Walks
  <2> QED BY <1>s, <1>c, <1>f, <2>1 DEF Shape
\* A function is finished.
<1>n. ASSUME Walks("next", Tail(me.todo), me'.said), me'.loc = me.loc, \A a \in me'.said : a.arm # "rows" => a.says # "clear", me.at \in {"next"} \cup DefinerRpcCalls, me.todo # <<>>,
             \A k, x : k # Current /\ Untold(k, x) => Untold(k, x)'
      PROVE  /\ DefinerRpcKnow' /\ Todo' = Todo \ {Current}
             /\ \A e : DefinerRpcPending(e) /\ e.on # Current => DefinerRpcPending(e)'
  <2>1. Todo' = Todo \ {Current} BY <1>q, <1>n DEF Walks, Todo
  <2>2. DefinerRpcKnow' BY <1>u, <1>y, <1>p, <1>c, <1>n, <2>1 DEF DefinerRpcKnow, Walks
  <2> QED BY <1>p, <1>n, <2>1, <2>2 DEF DefinerRpcPending, Walks
\* One answer about the rows, the last about the function.
<1>a. ASSUME NEW S, NEW s, s \in {"leak", "note"}, [on |-> Current, arm |-> "rows", says |-> s] \in S,
             \A a \in S : a = [on |-> Current, arm |-> "rows", says |-> s] \/ a = [on |-> Current, arm |-> "control", says |-> "note"],
             s = "leak" => Target.foreign = "some" /\ Target.canExecute, s = "note" /\ Target.foreign = "some" => fault # "none",
             Moved, me.at \in DefinerRpcCalls, Walks("next", Tail(me.todo), me.said \cup S), me'.loc = me.loc
      PROVE  Common' /\ DefinerRpcInv' /\ Plays
  <2>1. /\ me.todo # <<>> /\ Current \in Todo /\ Untold(Current, "rows") /\ Current \in 1..Count
        /\ Target = world.targets[Current] /\ Queue(Tail(me.todo))
    BY <1>c, <1>q, <1>r, <1>a DEF DefinerRpcKnow
  <2>2. ASSUME NEW a \in S PROVE Meaning(a) /\ a.says # "clear" /\ a.on = Current /\ (a.says = "leak" => a.arm = "rows")
    <3>1. CASE a = [on |-> Current, arm |-> "rows", says |-> s]
      <4>1. a = [on |-> a.on, arm |-> a.arm, says |-> a.says] /\ a.says = s /\ Key(a) = [on |-> Current, arm |-> "rows"] /\ a.on = Current
        BY <3>1 DEF Key
      <4>2. s = "leak" => [on |-> Current, arm |-> "rows"] \in Truth.exposed BY <1>a, <2>1, DefinerRpcPoints
          DEF FunctionExposed
      <4> QED BY <1>a, <3>1, <4>1, <4>2 DEF Meaning
    <3>2. CASE a = [on |-> Current, arm |-> "control", says |-> "note"] BY <3>2 DEF Meaning
    <3> QED BY <1>a, <3>1, <3>2
  <2>3. \A a \in S, b \in me.said : a.says = "leak" /\ b.on = a.on /\ b.arm = a.arm => b.says # "clear"
    BY <2>1, <2>2 DEF Untold
  <2>4. \A k, x : k # Current /\ Untold(k, x) => Untold(k, x)' BY <1>a, <2>2 DEF Untold, Walks
  <2>5. Walks("next", Tail(me.todo), me'.said) BY <1>a DEF Walks
  <2>9. \A a \in me'.said : a.arm # "rows" => a.says # "clear" BY <1>c, <1>a, <2>2 DEF DefinerRpcKnow, Walks
  <2>6. DefinerRpcKnow' /\ Todo' = Todo \ {Current} /\ \A e : DefinerRpcPending(e) /\ e.on # Current => DefinerRpcPending(e)'
    BY <1>n, <1>a, <2>1, <2>4, <2>5, <2>9
  <2>7. ASSUME NEW e \in Truth.exposed, DefinerRpcPending(e), e.on = Current
        PROVE  \E a \in S : a.on = e.on /\ (fault = "none" /\ e \in Truth.provable => a.arm = e.arm /\ a.says = "leak")
    <3>1. e.arm = "rows" BY <1>p, <1>a, <2>7 DEF DefinerRpcPending
    <3>2. fault = "none" => s = "leak" BY <1>a, <2>1, <2>7, <3>1, DefinerRpcPoints DEF FunctionExposed
    <3> QED BY <1>a, <2>7, <3>1, <3>2
  <2>8. me.at \notin {"start", "done"} BY <1>p, <1>a
  <2> QED BY <1>m, <1>a, <2>1, <2>2, <2>3, <2>6, <2>7, <2>8
<1>1. CASE DR!PlanFunctions
  <2>1. /\ me.at = "plan"
        /\ \/ pg' = pg /\ me' = DR!Ending(me, "skip")
           \/ pg' = pg /\ me' = DR!To("sample")
           \/ pg' = Failed /\ me' = DR!Thrown
    BY <1>1, <1>o, Zenon DEF DR!PlanFunctions, DR!Await, DR!Do
  <2>2. CASE pg' = pg /\ me' = DR!To("sample")
    <3>1. Walks("sample", me.todo, me.said) /\ me'.loc = me.loc BY <1>e, <2>2
    <3>2. me'.loc.tables \in Seq({"two", "one", "error"}) /\ (Sampled => \E i \in 1..Len(me'.loc.tables) : me'.loc.tables[i] = "two")
      <4>1. me'.loc.tables = world.samples BY <1>c, <2>1, <3>1 DEF DefinerRpcKnow
      <4> QED BY <1>c, <4>1, RpcAssumption DEF Shape, Sampled
    <3>3. (\A k, x : Untold(k, x)' <=> Untold(k, x)) /\ (Whole(me.todo) => Whole(me.todo)') BY <1>j, <3>1 DEF Untold,
        Walks
    <3>4. DefinerRpcKnow' BY <1>u, <1>y, <1>c, <2>1, <2>2, <3>1, <3>2, <3>3 DEF DefinerRpcKnow, Walks,
        DefinerRpcEarly, DefinerRpcCalls
    <3>5. Moved BY <2>2 DEF Moved
    <3> QED BY <1>f, <2>1, <3>1, <3>4, <3>5
  <2> QED BY <1>e, <1>l, <2>1, <2>2
<1>2. CASE DR!SampleTenants
  <2> DEFINE s == Head(me.loc.tables)
             on == [me EXCEPT !.loc.tables = Tail(@)]
  <2>1. /\ me.at = "sample"
        /\ \/ me.loc.tables = <<>> /\ pg' = pg /\ me' = DR!To("schemas")
           \/ me.loc.tables # <<>> /\ Live /\ s = "two" /\ pg' = pg /\ me' = [DR!To("schemas") EXCEPT !.loc.two = TRUE]
           \/ me.loc.tables # <<>> /\ (~Live \/ s # "two") /\ pg' \in {pg, Failed} /\ me' = on
    <3>1. /\ me.at = "sample"
          /\ \/ me.loc.tables = <<>> /\ DR!Do(pg, DR!To("schemas"))
             \/ me.loc.tables # <<>> /\ DR!Attempt("sample", s = "error", pg, IF s = "two" THEN [DR!To("schemas") EXCEPT !.loc.two = TRUE] ELSE on, on)
      BY <1>2, Zenon DEF DR!SampleTenants, DR!Attempt
    <3> DEFINE found == [DR!To("schemas") EXCEPT !.loc.two = TRUE]
    <3> HIDE DEF on, found
    <3>2. CASE me.loc.tables = <<>> /\ DR!Do(pg, DR!To("schemas")) BY <3>1, <3>2, Zenon DEF DR!Do
    <3>3. CASE me.loc.tables # <<>> /\ DR!Attempt("sample", s = "error", pg, IF s = "two" THEN found ELSE on, on)
      <4>1. \/ Live /\ s # "error" /\ pg' = pg /\ me' = IF s = "two" THEN found ELSE on
            \/ ~(Live /\ s # "error") /\ pg' = Failed /\ me' = on
        BY <1>o, <3>3, Zenon DEF DR!Attempt, DR!Do
      <4>2. "two" # "error" OBVIOUS
      <4> QED BY <3>1, <3>3, <4>1, <4>2 DEF found
    <3> QED BY <3>1, <3>2, <3>3 DEF found
  <2>2. /\ pg.st \in {"idle", "lost"} /\ Whole(me.todo) /\ me.loc.tables \in Seq({"two", "one", "error"})
        /\ fault = "none" /\ Sampled => \E i \in 1..Len(me.loc.tables) : me.loc.tables[i] = "two"
    BY <1>c, <2>1 DEF DefinerRpcKnow, DefinerRpcEarly
  <2>3. pg'.st = pg.st /\ Moved BY <1>z, <2>1, <2>2
  <2>4. fault = "none" => Live BY <1>c, <2>1, <2>2 DEF Session, Live
  <2>5. CASE me.loc.tables = <<>> /\ pg' = pg /\ me' = DR!To("schemas")
    <3>1. Walks("schemas", me.todo, me.said) /\ me'.loc = me.loc BY <1>e, <2>5
    <3>2. fault = "none" => ~Sampled BY <2>2, <2>5
    <3>3. (\A k, x : Untold(k, x)' <=> Untold(k, x)) /\ (Whole(me.todo) => Whole(me.todo)') BY <1>j, <3>1 DEF Untold,
        Walks
    <3>4. DefinerRpcKnow' BY <1>u, <1>y, <1>c, <2>1, <2>3, <3>1, <3>2, <3>3 DEF DefinerRpcKnow, Walks,
        DefinerRpcEarly, DefinerRpcCalls
    <3> QED BY <1>f, <2>1, <2>3, <3>1, <3>4
  <2>6. CASE me.loc.tables # <<>> /\ Live /\ s = "two" /\ pg' = pg /\ me' = [DR!To("schemas") EXCEPT !.loc.two = TRUE]
    <3>1. Walks("schemas", me.todo, me.said) /\ DOMAIN me'.loc = DOMAIN me.loc /\ me'.loc.two /\ me'.loc.writable = me.loc.writable
      <4>1. Walks("schemas", me.todo, me.said) /\ me'.loc = [me.loc EXCEPT !.two = TRUE] BY <1>c, <2>6 DEF DR!To,
          Walks, Shape
      <4> QED BY <1>k, <4>1
    <3>2. (\A k, x : Untold(k, x)' <=> Untold(k, x)) /\ (Whole(me.todo) => Whole(me.todo)') BY <1>j, <3>1 DEF Untold,
        Walks
    <3>3. DefinerRpcKnow' BY <1>u, <1>y, <1>c, <2>1, <2>3, <3>1, <3>2 DEF DefinerRpcKnow, Walks, DefinerRpcEarly,
        DefinerRpcCalls
    <3> QED BY <1>f, <2>1, <2>3, <3>1, <3>3
  <2>7. CASE me.loc.tables # <<>> /\ (~Live \/ s # "two") /\ pg' \in {pg, Failed} /\ me' = on
    <3>1. PICK rest : rest = Tail(me.loc.tables) OBVIOUS
    <3>2. Walks("sample", me.todo, me.said) /\ DOMAIN me'.loc = DOMAIN me.loc /\ me'.loc.tables = rest /\ me'.loc.writable = me.loc.writable
      <4>1. Walks("sample", me.todo, me.said) /\ me'.loc = [me.loc EXCEPT !.tables = rest] BY <1>c, <2>1, <2>7, <3>1
          DEF Walks, Shape
      <4> QED BY <1>k, <4>1
    <3>3. rest \in Seq({"two", "one", "error"}) BY <2>2, <2>7, <3>1
    <3>4. ASSUME fault = "none", Sampled PROVE \E i \in 1..Len(rest) : rest[i] = "two"
      <4>1. PICK i \in 1..Len(me.loc.tables) : me.loc.tables[i] = "two" BY <2>2, <3>4
      <4>2. me.loc.tables[1] # "two" BY <2>2, <2>4, <2>7, <3>4
      <4>3. i # 1 /\ i - 1 \in 1..Len(rest) /\ rest[i - 1] = me.loc.tables[i] BY <2>2, <2>7, <3>1, <4>1, <4>2
      <4> QED BY <4>1, <4>3
    <3>5. (\A k, x : Untold(k, x)' <=> Untold(k, x)) /\ (Whole(me.todo) => Whole(me.todo)') BY <1>j, <3>2 DEF Untold,
        Walks
    <3>6. DefinerRpcKnow' BY <1>u, <1>y, <1>c, <2>1, <2>3, <3>2, <3>3, <3>4, <3>5 DEF DefinerRpcKnow, Walks,
        DefinerRpcEarly, DefinerRpcCalls
    <3> QED BY <1>f, <2>1, <2>3, <3>2, <3>6
  <2> QED BY <2>1, <2>5, <2>6, <2>7
<1>3. CASE DR!WritableSchemas
  <2>1. /\ me.at = "schemas"
        /\ \/ Live /\ pg' = pg /\ me' = [DR!To("begin") EXCEPT !.loc.writable = world.writable]
           \/ (~Live \/ world.oldCatalog) /\ pg' = Failed /\ me' = DR!To("begin")
    BY <1>3, <1>o, Zenon DEF DR!WritableSchemas, DR!Attempt, DR!Do
  <2>2. pg.st \in {"idle", "lost"} /\ (Live \/ pg.st = "lost") BY <1>c, <2>1 DEF DefinerRpcKnow, Live
  <2>3. pg'.st = pg.st /\ Moved BY <1>z, <2>1, <2>2
  <2>4. PICK w : /\ Walks("begin", me.todo, me.said) /\ DOMAIN me'.loc = DOMAIN me.loc /\ me'.loc.two = me.loc.two
                 /\ me'.loc.writable = w /\ w \in {me.loc.writable, world.writable}
                 /\ pg.st = "lost" \/ world.oldCatalog \/ w = world.writable
    <3>1. CASE Live /\ pg' = pg /\ me' = [DR!To("begin") EXCEPT !.loc.writable = world.writable]
      <4>1. Walks("begin", me.todo, me.said) /\ me'.loc = [me.loc EXCEPT !.writable = world.writable]
        BY <1>c, <3>1 DEF DR!To, Walks, Shape
      <4> QED BY <1>k, <4>1
    <3>2. CASE (~Live \/ world.oldCatalog) /\ pg' = Failed /\ me' = DR!To("begin") BY <1>e, <2>2, <3>2
    <3> QED BY <2>1, <3>1, <3>2
  <2>5. (\A k, x : Untold(k, x)' <=> Untold(k, x)) /\ (Whole(me.todo) => Whole(me.todo)') BY <1>j, <2>4 DEF Untold,
      Walks
  <2>6. DefinerRpcKnow' BY <1>u, <1>y, <1>c, <2>1, <2>3, <2>4, <2>5 DEF DefinerRpcKnow, Walks, DefinerRpcEarly,
      DefinerRpcCalls
  <2> QED BY <1>f, <2>1, <2>3, <2>4, <2>6
<1>4. CASE DR!Begin
  <2>1. /\ me.at = "begin"
        /\ (me' = DR!Thrown /\ pg' = Failed) \/ (me' = DR!To("canary") /\ pg' = Began(pg) /\ Live)
    BY <1>4, <1>o, Zenon DEF DR!Begin, DR!Await, DR!Do
  <2>2. CASE me' = DR!To("canary") /\ pg' = Began(pg) /\ Live
    <3>1. Walks("canary", me.todo, me.said) /\ me'.loc = me.loc BY <1>e, <2>2
    <3>2. (\A k, x : Untold(k, x)' <=> Untold(k, x)) /\ (Whole(me.todo) => Whole(me.todo)') BY <1>j, <3>1 DEF Untold,
        Walks
    <3>3. pg.st # "lost" BY <2>2 DEF Live
    <3>4. DefinerRpcKnow' BY <1>u, <1>y, <1>c, <2>1, <3>1, <3>2, <3>3 DEF DefinerRpcKnow, Walks, DefinerRpcEarly,
        DefinerRpcCalls
    <3>5. Moved BY <2>2 DEF Moved
    <3> QED BY <1>f, <2>1, <3>1, <3>4, <3>5
  <2> QED BY <1>e, <1>l, <2>1, <2>2
<1>5. CASE DR!CreateCanary("role")
  <2>1. /\ me.at = "canary" /\ Common' /\ Plays /\ Keeps /\ Walks("role", me.todo, me'.said)
        /\ me'.loc = me.loc \/ me'.loc = [me.loc EXCEPT !.canary = TRUE]
        /\ pg' = Failed \/ (Live /\ pg' = Made(pg, "canary"))
    BY <1>b, <1>t, <1>5, CreatesCanary
  <2>2. DOMAIN me'.loc = DOMAIN me.loc /\ me'.loc.two = me.loc.two /\ me'.loc.writable = me.loc.writable BY <1>k, <2>1
  <2>3. Whole(me.todo) => Whole(me.todo)' BY <1>j, <2>1 DEF Walks
  <2>6. \A a \in me'.said : a.arm # "rows" => a.says # "clear"
    <3>1. \/ me' = [me EXCEPT !.at = "role", !.loc.canary = TRUE]
          \/ me' = [[me EXCEPT !.at = "role"] EXCEPT !.said = @ \cup {[on |-> 0, arm |-> "canary", says |-> "note"]}]
      BY <1>5, Zenon DEF DR!CreateCanary, DR!Attempt, DR!Do, DR!Said, DR!To
    <3>2. me'.said \subseteq me.said \cup {[on |-> 0, arm |-> "canary", says |-> "note"]} BY <1>c, <3>1 DEF Shape
    <3> QED BY <1>c, <3>2 DEF DefinerRpcKnow
  <2>4. DefinerRpcKnow' BY <1>u, <1>y, <1>c, <2>1, <2>2, <2>3, <2>6 DEF DefinerRpcKnow, Walks, Keeps, DefinerRpcEarly,
      DefinerRpcCalls
  <2>5. \A e \in Truth.exposed : DefinerRpcPending(e)' BY <2>1 DEF DefinerRpcPending, Walks, DefinerRpcEarly
  <2> QED BY <1>t, <2>1, <2>4, <2>5 DEF DefinerRpcInv, Keeps, Counts, Walks
<1>6. CASE DR!SwitchRole("check")
  <2>1. /\ me.at = "role" /\ Common' /\ Plays /\ me'.loc = me.loc /\ me'.said = me.said
        /\ (Leaves /\ ~Counts' /\ pg' = Failed) \/ (Walks("check", me.todo, me.said) /\ Live /\ world.member /\ pg' = AsRole(pg, "app"))
    BY <1>b, <1>t, <1>6, SwitchesRole
  <2>2. (\A e : Done(e)' <=> Done(e)) /\ (\A k, x : Untold(k, x)' <=> Untold(k, x)) BY <1>u, <1>t, <1>c, <2>1, Quiet
  <2>3. me'.todo = me.todo BY <2>1 DEF Leaves, Walks
  <2>4. Whole(me.todo) => Whole(me.todo)' BY <1>j, <2>3
  <2>5. DefinerRpcKnow' BY <1>u, <1>y, <1>c, <2>1, <2>2, <2>3, <2>4 DEF DefinerRpcKnow, Walks, Leaves,
      DefinerRpcEarly, DefinerRpcCalls
  <2>6. Counts' => \A e : DefinerRpcPending(e)' BY <2>1 DEF DefinerRpcPending, Walks, DefinerRpcEarly
  <2> QED BY <1>t, <2>1, <2>2, <2>5, <2>6 DEF DefinerRpcInv
<1>7. CASE DR!CheckCanary("become")
  <2>1. /\ me.at = "check" /\ Common' /\ Plays /\ me'.loc = me.loc /\ me'.said = me.said
        /\ (Leaves /\ ~Counts' /\ pg' = RolledBack(pg)) \/ (Walks("become", me.todo, me.said) /\ (pg' = pg \/ (~Live /\ pg' = Failed)))
    BY <1>b, <1>t, <1>7, ChecksCanary
  <2>2. (\A e : Done(e)' <=> Done(e)) /\ (\A k, x : Untold(k, x)' <=> Untold(k, x)) BY <1>u, <1>t, <1>c, <2>1, Quiet
  <2>3. me'.todo = me.todo BY <2>1 DEF Leaves, Walks
  <2>4. Whole(me.todo) => Whole(me.todo)' BY <1>j, <2>3
  <2>5. DefinerRpcKnow' BY <1>u, <1>y, <1>c, <2>1, <2>2, <2>3, <2>4 DEF DefinerRpcKnow, Walks, Leaves,
      DefinerRpcEarly, DefinerRpcCalls
  <2>6. Counts' => \A e : DefinerRpcPending(e)' BY <2>1 DEF DefinerRpcPending, Walks, DefinerRpcEarly
  <2> QED BY <1>t, <2>1, <2>2, <2>5, <2>6 DEF DefinerRpcInv
<1>8. CASE DR!BecomeTenant
  <2>1. /\ me.at = "become"
        /\ \/ pg' \in {pg, Acting(pg, "A")} /\ me' = DR!To("next")
           \/ pg' = Failed /\ me' = DR!Thrown
    BY <1>8, <1>o, Zenon DEF DR!BecomeTenant, DR!Await, DR!Do
  <2>2. CASE pg' \in {pg, Acting(pg, "A")} /\ me' = DR!To("next")
    <3>1. Walks("next", me.todo, me.said) /\ me'.loc = me.loc BY <1>e, <2>2
    <3>2. (\A k, x : Untold(k, x)' <=> Untold(k, x)) /\ Todo' = Todo BY <1>j, <3>1 DEF Untold, Walks
    <3>3. Moved BY <2>2 DEF Moved
    <3>4. DefinerRpcKnow' BY <1>u, <1>y, <1>c, <2>1, <3>1, <3>2 DEF DefinerRpcKnow, Walks, DefinerRpcEarly,
        DefinerRpcCalls
    <3>5. Todo = 1..Count
      <4>1. Whole(me.todo) /\ Count \in Nat BY <1>c, <2>1 DEF DefinerRpcKnow, DefinerRpcEarly, Shape
      <4> QED BY <4>1, Listing DEF Todo
    <3>6. \A e \in Truth.exposed : DefinerRpcPending(e)' BY <3>1, <3>2, <3>5, DefinerRpcPoints DEF DefinerRpcPending,
        Walks
    <3> QED BY <1>s, <1>c, <2>1, <3>1, <3>3, <3>4, <3>6 DEF Shape
  <2> QED BY <1>e, <1>l, <2>1, <2>2
<1>9. CASE DR!NextFunction
  <2> DEFINE m == DR!BodyChecks(me, Current, Target)
  <2>1. /\ me.at = "next"
        /\ \/ me.todo = <<>> /\ pg' = pg /\ me' = DR!To("finally")
           \/ me.todo # <<>> /\ DR!Callable(Target) /\ Live /\ pg' = Saved(pg) /\ me' = [m EXCEPT !.at = "call"]
           \/ me.todo # <<>> /\ ~DR!Callable(Target) /\ pg' = pg /\ me' = DR!Onward(DR!NotCalled(m, Current, Target))
           \/ pg' = Failed /\ me' = DR!Thrown
    BY <1>9, <1>o, Zenon DEF DR!NextFunction, DR!Await, DR!Do
  <2>2. CASE me.todo = <<>> /\ pg' = pg /\ me' = DR!To("finally")
    <3>1. Walks("finally", me.todo, me.said) /\ me'.loc = me.loc BY <1>e, <2>2
    <3>2. DefinerRpcKnow' BY <1>u, <1>c, <2>1, <2>2, <3>1 DEF DefinerRpcKnow, Walks, DefinerRpcEarly, DefinerRpcCalls
    <3>3. \A e : ~DefinerRpcPending(e)
      <4>1. Todo = {} BY <2>2 DEF Todo, Elems
      <4> QED BY <2>1, <4>1 DEF DefinerRpcPending, DefinerRpcEarly, DefinerRpcCalls
    <3> QED BY <1>s, <1>c, <2>1, <2>2, <3>1, <3>2, <3>3 DEF Moved, Shape
  <2>3. PICK B : B = BodySaid(Current, Target, me.loc.writable) OBVIOUS
  <2>4. /\ DOMAIN m = DOMAIN me /\ m.said = me.said \cup B /\ m.todo = me.todo /\ m.loc = me.loc
        /\ m.thrown = me.thrown /\ m.result = me.result
    <3>1. CASE Target.canExecute
      <4> DEFINE X == [on : {Current}, arm : {"sql"}, says : DR!DynamicSqlInjection(Target)]
                 Y == [on : {Current}, arm : {"path"}, says : DR!ClassifyPath(Target, me.loc.writable)]
      <4>1. m = [me EXCEPT !.said = @ \cup X \cup Y] BY <3>1, Zenon DEF DR!BodyChecks
      <4>2. B = X \cup Y BY <2>3, <3>1 DEF BodySaid
      <4> HIDE DEF m, X, Y
      <4> QED BY <1>c, <4>1, <4>2 DEF Shape
    <3>2. CASE ~Target.canExecute BY <2>3, <3>2 DEF DR!BodyChecks, BodySaid
    <3> QED BY <3>1, <3>2
  <2> HIDE DEF m
  <2>5. ASSUME me.todo # <<>>
        PROVE  /\ Target = world.targets[Current] /\ Current \in 1..Count /\ Current \in Todo /\ Untold(Current, "rows") /\ Queue(Tail(me.todo))
               /\ \A a \in B : Meaning(a) /\ a.says # "clear" /\ a.on = Current /\ a.arm # "rows"
               /\ \A a \in B, b \in me.said : a.says = "leak" /\ b.on = a.on /\ b.arm = a.arm => b.says # "clear"
               /\ \A e \in Truth.exposed : e.on = Current /\ e.arm # "rows" =>
                    \/ e \in Truth.blind
                    \/ \E a \in B : a.on = e.on /\ (e \in Truth.provable => a.arm = e.arm /\ a.says = "leak")
    <3>1. /\ Target = world.targets[Current] /\ Current \in 1..Count /\ Current \in Todo /\ Untold(Current, "rows") /\ Queue(Tail(me.todo))
          /\ me.loc.writable \subseteq world.writable /\ (world.oldCatalog \/ me.loc.writable = world.writable)
      BY <1>c, <1>q, <1>r, <2>1, <2>5 DEF DefinerRpcKnow
    <3>2. PICK k, w : k \in 1..Count /\ k = Current /\ w = me.loc.writable BY <3>1
    <3>3. /\ \A a \in B : Meaning(a) /\ a.says # "clear" /\ a.on = k /\ a.arm # "rows"
          /\ \A e \in Truth.exposed : e.on = k /\ e.arm # "rows" =>
                    \/ e \in Truth.blind
                    \/ \E a \in B : a.on = e.on /\ (e \in Truth.provable => a.arm = e.arm /\ a.says = "leak")
      <4>1. /\ k \in 1..Count /\ w \subseteq world.writable /\ B = BodySaid(k, world.targets[k], w)
            /\ world.oldCatalog \/ w = world.writable
        BY <2>3, <3>1, <3>2, Zenon
      <4> QED BY <4>1, BodyTruths
    <3>4. \A b \in me.said : b.says = "clear" => Key(b) \notin Truth.exposed \ Truth.blind /\ Key(b) = [on |-> b.on, arm |-> b.arm]
      BY <1>c DEF Meant, Meaning, Key
    <3>5. \A b \in me.said : b.arm # "rows" => b.says # "clear" BY <1>c, <2>1 DEF DefinerRpcKnow
    <3> QED BY <3>1, <3>2, <3>3, <3>5
  <2>6. CASE me.todo # <<>> /\ DR!Callable(Target) /\ Live /\ pg' = Saved(pg) /\ me' = [m EXCEPT !.at = "call"]
    <3>1. Walks("call", me.todo, me.said \cup B) /\ me'.loc = me.loc BY <1>c, <2>4, <2>6 DEF Walks, Shape
    <3>2. Live' /\ Moved BY <1>c, <2>6, Saving DEF Live, Session, Proper, Moved
    <3>3. Todo' = Todo /\ Current' = Current /\ Target' = Target BY <1>j, <3>1 DEF Walks
    <3>4. \A k : Untold(k, "rows") => Untold(k, "rows")' BY <2>5, <2>6, <3>1 DEF Untold, Walks
    <3>5. Target.canExecute BY <2>6 DEF DR!Callable
    <3>7. \A a \in me'.said : a.arm # "rows" => a.says # "clear" BY <1>c, <2>1, <2>5, <2>6, <3>1 DEF DefinerRpcKnow,
        Walks
    <3>6. DefinerRpcKnow' BY <1>u, <1>y, <1>c, <2>1, <2>6, <3>1, <3>2, <3>3, <3>4, <3>5, <3>7 DEF DefinerRpcKnow,
        Walks, DefinerRpcEarly, DefinerRpcCalls
    <3>8. ASSUME NEW e \in Truth.exposed, DefinerRpcPending(e)
          PROVE  \/ DefinerRpcPending(e)' \/ e \in Truth.blind
                 \/ \E a \in B : a.on = e.on /\ (fault = "none" /\ e \in Truth.provable => a.arm = e.arm /\ a.says = "leak")
      <4>1. e.on \in Todo BY <2>1, <3>8 DEF DefinerRpcPending, DefinerRpcEarly, DefinerRpcCalls
      <4>2. CASE e.on = Current /\ e.arm # "rows" BY <2>5, <2>6, <4>2
      <4>3. CASE e.on # Current \/ e.arm = "rows" BY <3>1, <3>3, <4>1, <4>3 DEF DefinerRpcPending, Walks,
          DefinerRpcCalls
      <4> QED BY <4>2, <4>3
    <3>9. Queue(me.todo) BY <1>c DEF Shape
    <3> QED BY <1>m, <2>1, <2>5, <2>6, <3>1, <3>2, <3>6, <3>8, <3>9
  <2>7. CASE me.todo # <<>> /\ ~DR!Callable(Target) /\ pg' = pg /\ me' = DR!Onward(DR!NotCalled(m, Current, Target))
    <3>0. PICK N0 : N0 = {[on |-> Current, arm |-> "rows", says |-> "note"]} OBVIOUS
    <3>1. PICK N : /\ N \in {N0, {}} /\ Walks("next", Tail(me.todo), me.said \cup (B \cup N)) /\ me'.loc = me.loc
                   /\ N = {} => ~Target.canExecute \/ (Target.volatile /\ ~Target.smell)
      <4>1. CASE ~Target.canExecute \/ (Target.volatile /\ ~Target.smell)
        <5>1. me' = DR!Onward(m) BY <2>7, <4>1, Zenon DEF DR!NotCalled
        <5>2. Walks("next", Tail(me.todo), me.said \cup (B \cup {})) /\ me'.loc = me.loc BY <1>c, <2>4, <5>1
            DEF DR!Onward, Walks, Shape
        <5> QED BY <4>1, <5>2
      <4>2. CASE ~(~Target.canExecute \/ (Target.volatile /\ ~Target.smell))
        <5>1. me' = DR!Onward(DR!Said(m, Current, "rows", "note")) BY <2>7, <4>2, Zenon DEF DR!NotCalled
        <5>2. Walks("next", Tail(me.todo), me.said \cup (B \cup N0)) /\ me'.loc = me.loc
          BY <1>c, <2>4, <3>0, <5>1 DEF DR!Onward, DR!Said, Walks, Shape
        <5>3. N0 # {} BY <3>0
        <5> QED BY <5>2, <5>3
      <4> QED BY <4>1, <4>2
    <3>2. \A a \in N : a = [on |-> Current, arm |-> "rows", says |-> "note"] BY <3>0, <3>1
    <3>3. \A a \in N : Meaning(a) /\ a.says # "clear" /\ a.says # "leak" BY <3>2 DEF Meaning
    <3>4. PICK S : S = B \cup N OBVIOUS
    <3>5. Walks("next", Tail(me.todo), me.said \cup S) /\ Walks("next", Tail(me.todo), me'.said)
      BY <3>1, <3>4 DEF Walks
    <3>6. \A a \in S : Meaning(a) /\ a.says # "clear" BY <2>5, <2>7, <3>3, <3>4
    <3>7. \A a \in S, b \in me.said : a.says = "leak" /\ b.on = a.on /\ b.arm = a.arm => b.says # "clear"
      BY <2>5, <2>7, <3>3, <3>4
    <3>8. \A k, x : k # Current /\ Untold(k, x) => Untold(k, x)' BY <2>5, <2>7, <3>2, <3>4, <3>5 DEF Untold, Walks
    <3>9. \A a \in me'.said : a.arm # "rows" => a.says # "clear" BY <1>c, <2>1, <3>5, <3>6 DEF DefinerRpcKnow, Walks
    <3>10. DefinerRpcKnow' /\ Todo' = Todo \ {Current} /\ \A e : DefinerRpcPending(e) /\ e.on # Current => DefinerRpcPending(e)'
      BY <1>n, <2>1, <2>7, <3>1, <3>5, <3>8, <3>9
    <3>11. ASSUME NEW e \in Truth.exposed, e.on = Current, e \notin Truth.blind
           PROVE  \E a \in S : a.on = e.on /\ (fault = "none" /\ e \in Truth.provable => a.arm = e.arm /\ a.says = "leak")
      <4>1. CASE e.arm # "rows"
        <5>1. PICK a \in B : a.on = e.on /\ (e \in Truth.provable => a.arm = e.arm /\ a.says = "leak")
          BY <2>5, <2>7, <3>11, <4>1
        <5> QED BY <3>4, <5>1
      <4>2. CASE e.arm = "rows"
        <5>1. Target.canExecute /\ ~(Target.volatile /\ ~Target.smell) BY <2>5, <2>7, <3>11, <4>2, DefinerRpcPoints
            DEF FunctionExposed, FunctionMissed
        <5>2. N = N0 BY <3>1, <5>1
        <5>3. fault = "none" => e \notin Truth.provable
          <6>1. fault = "none" /\ Sampled => me.loc.two BY <1>c, <2>1 DEF DefinerRpcKnow
          <6>2. e \in Truth.provable => ~Target.volatile /\ DR!PlanCall(Target) /\ Sampled BY <2>5, <2>7, <3>11, <4>2,
              DefinerRpcPoints
          <6> QED BY <2>7, <5>1, <6>1, <6>2 DEF DR!Callable
        <5> QED BY <3>0, <3>4, <3>11, <5>2, <5>3
      <4> QED BY <4>1, <4>2
    <3>12. Moved BY <2>7 DEF Moved
    <3> QED BY <1>m, <2>1, <2>5, <2>7, <3>5, <3>6, <3>7, <3>10, <3>11, <3>12
  <2> QED BY <1>e, <1>l, <2>1, <2>2, <2>6, <2>7
<1>10. CASE DR!CallFunction
  <2>1. /\ me.at = "call"
        /\ \/ /\ Live /\ Target.foreign \notin {"denied", "error"} /\ pg' = Released(pg)
              /\ \/ Target.foreign = "none" /\ me' = DR!Onward(DR!Said(me, Current, "rows", "clear"))
                 \/ Target.foreign # "none" /\ me' = DR!To("control")
                 \/ Target.foreign # "none" /\ me' = DR!Onward(DR!Said(me, Current, "rows", "leak"))
           \/ /\ ~(Live /\ Target.foreign \notin {"denied", "error"}) /\ pg' = Undone(Failed)
              /\ \/ Live /\ Target.foreign = "denied" /\ me' = DR!Onward(me)
                 \/ me' = DR!Onward(DR!Said(me, Current, "rows", "note"))
    BY <1>10, <1>o, Zenon DEF DR!CallFunction, DR!Guarded, DR!Do
  <2>2. /\ me.todo # <<>> /\ Target.canExecute /\ (fault = "none" => Live) /\ Current \in Todo /\ Untold(Current, "rows")
        /\ Target = world.targets[Current] /\ Current \in 1..Count /\ Queue(Tail(me.todo))
    BY <1>c, <1>q, <1>r, <2>1 DEF DefinerRpcKnow, DefinerRpcCalls
  <2>3. Target.foreign \in {"some", "none", "denied", "error"} BY <1>c, <2>2, RpcAssumption DEF Shape, Count
  <2>4. Moved BY <2>1 DEF Moved
  <2>5. me.at \in DefinerRpcCalls BY <2>1 DEF DefinerRpcCalls
  <2>6. CASE Target.foreign = "none" /\ me' = DR!Onward(DR!Said(me, Current, "rows", "clear"))
    <3>0. PICK c : c = "clear" OBVIOUS
    <3>1. Walks("next", Tail(me.todo), me.said \cup {[on |-> Current, arm |-> "rows", says |-> c]}) /\ me'.loc = me.loc
      BY <1>c, <2>6, <3>0 DEF DR!Onward, DR!Said, Walks, Shape
    <3>2. [on |-> Current, arm |-> "rows"] \notin Truth.exposed BY <2>2, <2>6, DefinerRpcPoints DEF FunctionExposed
    <3>3. /\ Meant'
          /\ \A e : Done(e) => Done(e)'
          /\ \A k, x : (k # Current \/ x # "rows" \/ c = "note") /\ Untold(k, x) => Untold(k, x)'
      BY <1>u, <1>t, <1>c, <2>2, <3>0, <3>1, <3>2, Telling DEF Walks
    <3>4. Walks("next", Tail(me.todo), me'.said) BY <3>1 DEF Walks
    <3>5. \A a \in me'.said : a.arm # "rows" => a.says # "clear" BY <1>c, <2>1, <3>1 DEF DefinerRpcKnow, Walks
    <3>6. DefinerRpcKnow' /\ Todo' = Todo \ {Current} /\ \A e : DefinerRpcPending(e) /\ e.on # Current => DefinerRpcPending(e)'
      BY <1>n, <2>2, <2>5, <3>1, <3>3, <3>4, <3>5
    <3>7. \A e \in Truth.exposed : DefinerRpcPending(e) => e.on # Current
      BY <1>p, <2>2, <2>5, <3>2, DefinerRpcPoints DEF DefinerRpcPending
    <3>8. Shape' BY <1>u, <1>c, <2>1, <2>2, <3>1, Going
    <3>9. Session' BY <1>u, <1>c, <2>1, <2>4, <3>1, Moving DEF Walks
    <3>10. (Counts' => Counts) /\ Plays BY <2>1, <3>1 DEF Walks, Counts, Plays
    <3> QED BY <1>t, <3>3, <3>6, <3>7, <3>8, <3>9, <3>10 DEF Common, DefinerRpcInv
  <2>7. CASE Target.foreign \notin {"none", "denied", "error"} /\ me' = DR!To("control")
    <3>1. Walks("control", me.todo, me.said) /\ me'.loc = me.loc BY <1>e, <2>7
    <3>2. Todo' = Todo /\ Current' = Current /\ Target' = Target /\ (\A k, x : Untold(k, x)' <=> Untold(k, x))
      BY <1>j, <3>1 DEF Untold, Walks
    <3>3. Target.foreign = "some" BY <2>3, <2>7
    <3>4. DefinerRpcKnow' BY <1>u, <1>y, <1>c, <2>1, <2>2, <3>1, <3>2, <3>3 DEF DefinerRpcKnow, Walks,
        DefinerRpcEarly, DefinerRpcCalls
    <3>5. \A e : DefinerRpcPending(e) => DefinerRpcPending(e)' BY <2>1, <3>1, <3>2 DEF DefinerRpcPending, Walks,
        DefinerRpcEarly, DefinerRpcCalls
    <3> QED BY <1>s, <1>c, <2>1, <2>4, <3>1, <3>4, <3>5 DEF Shape
  <2>8. CASE Target.foreign \notin {"none", "denied", "error"} /\ me' = DR!Onward(DR!Said(me, Current, "rows", "leak"))
    <3>1. PICK S : S = {[on |-> Current, arm |-> "rows", says |-> "leak"]} OBVIOUS
    <3>2. Walks("next", Tail(me.todo), me.said \cup S) /\ me'.loc = me.loc
      BY <1>c, <2>8, <3>1 DEF DR!Onward, DR!Said, Walks, Shape
    <3>3. Target.foreign = "some" BY <2>3, <2>8
    <3>4. PICK s : s = "leak" OBVIOUS
    <3>5. s \in {"leak", "note"} /\ [on |-> Current, arm |-> "rows", says |-> s] \in S
          /\ \A a \in S : a = [on |-> Current, arm |-> "rows", says |-> s] \/ a = [on |-> Current, arm |-> "control", says |-> "note"]
      BY <3>1, <3>4
    <3> QED BY <1>a, <2>2, <2>4, <2>5, <3>2, <3>3, <3>4, <3>5
  <2>9. CASE Target.foreign = "denied" /\ me' = DR!Onward(me)
    <3>1. Walks("next", Tail(me.todo), me.said) /\ me'.loc = me.loc BY <1>c, <2>9 DEF DR!Onward, Walks, Shape
    <3>2. Walks("next", Tail(me.todo), me'.said) /\ (\A k, x : Untold(k, x)' <=> Untold(k, x)) BY <3>1 DEF Untold,
        Walks
    <3>3. \A a \in me'.said : a.arm # "rows" => a.says # "clear" BY <1>c, <2>1, <3>1 DEF DefinerRpcKnow, Walks
    <3>4. DefinerRpcKnow' /\ \A e : DefinerRpcPending(e) /\ e.on # Current => DefinerRpcPending(e)'
      BY <1>n, <2>2, <2>5, <3>1, <3>2, <3>3
    <3>5. \A e \in Truth.exposed : DefinerRpcPending(e) => e.on # Current
      BY <1>p, <2>2, <2>5, <2>9, DefinerRpcPoints DEF DefinerRpcPending, FunctionExposed
    <3> QED BY <1>s, <2>1, <2>2, <2>4, <3>1, <3>4, <3>5
  <2>10. CASE (Target.foreign = "some" => ~Live) /\ me' = DR!Onward(DR!Said(me, Current, "rows", "note"))
    <3>1. PICK S : S = {[on |-> Current, arm |-> "rows", says |-> "note"]} OBVIOUS
    <3>2. Walks("next", Tail(me.todo), me.said \cup S) /\ me'.loc = me.loc
      BY <1>c, <2>10, <3>1 DEF DR!Onward, DR!Said, Walks, Shape
    <3>4. PICK s : s = "note" OBVIOUS
    <3>5. s \in {"leak", "note"} /\ [on |-> Current, arm |-> "rows", says |-> s] \in S
          /\ \A a \in S : a = [on |-> Current, arm |-> "rows", says |-> s] \/ a = [on |-> Current, arm |-> "control", says |-> "note"]
      BY <3>1, <3>4
    <3>6. Target.foreign = "some" => fault # "none" BY <2>10, <2>2, <1>c, <2>1 DEF DefinerRpcKnow
    <3> QED BY <1>a, <2>2, <2>4, <2>5, <3>2, <3>4, <3>5, <3>6
  <2> QED BY <2>1, <2>3, <2>6, <2>7, <2>8, <2>9, <2>10
<1>11. CASE DR!ControlArm
  <2>1. /\ me.at = "control"
        /\ \/ pg' = Saved(pg) /\ me' = DR!To("sentinel")
           \/ pg' = Failed /\ me' = DR!Thrown
    BY <1>11, <1>o, Zenon DEF DR!ControlArm, DR!Await, DR!Do
  <2>2. CASE pg' = Saved(pg) /\ me' = DR!To("sentinel")
    <3>1. Walks("sentinel", me.todo, me.said) /\ me'.loc = me.loc BY <1>e, <2>2
    <3>2. Todo' = Todo /\ Current' = Current /\ Target' = Target /\ (\A k, x : Untold(k, x)' <=> Untold(k, x))
      BY <1>j, <3>1 DEF Untold, Walks
    <3>3. DefinerRpcKnow' BY <1>u, <1>y, <1>c, <2>1, <3>1, <3>2 DEF DefinerRpcKnow, Walks, DefinerRpcEarly,
        DefinerRpcCalls
    <3>4. \A e : DefinerRpcPending(e) => DefinerRpcPending(e)' BY <2>1, <3>1, <3>2 DEF DefinerRpcPending, Walks,
        DefinerRpcEarly, DefinerRpcCalls
    <3>5. Moved BY <2>2 DEF Moved
    <3> QED BY <1>s, <1>c, <2>1, <3>1, <3>3, <3>4, <3>5 DEF Shape
  <2> QED BY <1>e, <1>l, <2>1, <2>2
<1>12. CASE DR!CallWithSentinel
  <2> DEFINE leak == DR!Said(me, Current, "rows", "leak")
  <2>1. /\ me.at = "sentinel" /\ pg' \in {Released(pg), Undone(Failed)}
        /\ me' = DR!Onward(leak) \/ me' = DR!Onward(DR!Said(leak, Current, "control", "note"))
    BY <1>12, <1>o, Zenon DEF DR!CallWithSentinel, DR!Guarded, DR!Do
  <2>2. Target.canExecute /\ Target.foreign = "some" BY <1>c, <2>1 DEF DefinerRpcKnow, DefinerRpcCalls
  <2>3. PICK t, u : t = [on |-> Current, arm |-> "rows", says |-> "leak"] /\ u = [on |-> Current, arm |-> "control", says |-> "note"] OBVIOUS
  <2>4. /\ DOMAIN leak = DOMAIN me /\ leak.said = me.said \cup {t} /\ leak.todo = me.todo /\ leak.loc = me.loc
        /\ leak.thrown = me.thrown /\ leak.result = me.result
    BY <1>c, <2>3 DEF DR!Said, Shape
  <2> HIDE DEF leak
  <2>5. PICK S : S \in {{t}, {t, u}} /\ Walks("next", Tail(me.todo), me.said \cup S) /\ me'.loc = me.loc
    <3>1. CASE me' = DR!Onward(leak)
      <4>1. Walks("next", Tail(me.todo), me.said \cup {t}) /\ me'.loc = me.loc BY <1>c, <2>4, <3>1 DEF DR!Onward,
          Walks, Shape
      <4> QED BY <4>1
    <3>2. CASE me' = DR!Onward(DR!Said(leak, Current, "control", "note"))
      <4>1. Walks("next", Tail(me.todo), me.said \cup {t} \cup {u}) /\ me'.loc = me.loc
        BY <1>c, <2>3, <2>4, <3>2 DEF DR!Onward, DR!Said, Walks, Shape
      <4>2. me.said \cup {t} \cup {u} = me.said \cup {t, u} OBVIOUS
      <4> QED BY <4>1, <4>2
    <3> QED BY <2>1, <3>1, <3>2
  <2>6. Moved /\ me.at \in DefinerRpcCalls BY <2>1 DEF Moved, DefinerRpcCalls
  <2>7. t \in S /\ \A a \in S : a = t \/ a = u BY <2>5
  <2> QED BY <1>a, <2>2, <2>3, <2>5, <2>6, <2>7
<1>13. CASE DR!RollBack("close")
  <2>1. /\ me.at = "finally" /\ Common' /\ Plays /\ me'.at = (IF me.thrown THEN "close" ELSE "close")
        /\ me'.thrown = me.thrown /\ me'.result = me.result
        /\ me'.loc = me.loc /\ me'.said = me.said /\ me'.todo = me.todo /\ (Counts' <=> Counts)
        /\ pg' \in {pg, RolledBack(pg)} /\ (pg.st \notin {"open", "aborted"} => pg' = pg)
    BY <1>b, <1>t, <1>13, RollsBack
  <2>2. (\A e : Done(e)' <=> Done(e)) /\ (Unclear' <=> Unclear) BY <1>u, <1>t, <1>c, <2>1, Quiet
  <2>3. DefinerRpcKnow' BY <1>u, <1>c, <2>1, <2>2 DEF DefinerRpcKnow, DefinerRpcEarly, DefinerRpcCalls
  <2>4. \A e \in Truth.exposed : DefinerRpcPending(e) /\ Counts => DefinerRpcPending(e)' BY <1>u, <2>1
      DEF DefinerRpcPending, DefinerRpcEarly, DefinerRpcCalls
  <2> QED BY <1>t, <2>1, <2>2, <2>3, <2>4 DEF DefinerRpcInv
<1>14. CASE DR!Connect
  <2>1. /\ me.at = "start" /\ Common' /\ Plays /\ me'.loc = me.loc /\ me'.said = {} /\ me'.todo = me.todo
        /\ \/ me'.at = "plan" /\ pg' = [pg EXCEPT !.st = "idle"] /\ pg'.st = "idle" /\ Whole(me'.todo)
           \/ me'.at = "done" /\ ~Counts' /\ pg' = pg
    BY <1>b, <1>t, <1>14, Connects
  <2>2. DefinerRpcKnow' BY <1>u, <1>c, <2>1 DEF DefinerRpcKnow, Unclear, DefinerRpcEarly, DefinerRpcCalls, Untold,
      Whole, Count
  <2>3. Counts' => \A e : DefinerRpcPending(e)' BY <2>1 DEF DefinerRpcPending, DefinerRpcEarly, DefinerRpcCalls
  <2> QED BY <2>1, <2>2, <2>3 DEF DefinerRpcInv
<1>15. CASE DR!Disconnect
  <2>1. /\ me.at = "close" /\ Common' /\ Plays /\ me'.at = "done"
        /\ me'.loc = me.loc /\ me'.said = me.said /\ me'.todo = me.todo /\ (Counts' => Counts)
    BY <1>b, <1>t, <1>15, Disconnects
  <2>2. (\A e : Done(e)' <=> Done(e)) /\ (Unclear' <=> Unclear) BY <1>u, <1>t, <1>c, <2>1, Quiet
  <2>3. DefinerRpcKnow' BY <1>u, <1>c, <2>1, <2>2 DEF DefinerRpcKnow, DefinerRpcEarly, DefinerRpcCalls
  <2>4. \A e : ~DefinerRpcPending(e) BY <2>1 DEF DefinerRpcPending, DefinerRpcEarly, DefinerRpcCalls
  <2> QED BY <1>t, <2>1, <2>2, <2>3, <2>4 DEF DefinerRpcInv
<1> QED BY <1>1, <1>2, <1>3, <1>4, <1>5, <1>6, <1>7, <1>8, <1>9, <1>10, <1>11, <1>12, <1>13, <1>14, <1>15 DEF DR!Next,
    DR!Check, DR!Run, DR!SelfCheck

\* So does a fault, whenever it strikes.
LEMMA DefinerRpcStruck ==
  ASSUME Common, DefinerRpcInv, world.guard = "definer-rpc", Drop \/ Cancel
  PROVE  Common' /\ DefinerRpcInv'
<1>1. world' = world /\ fault = "none" BY DEF Drop, Cancel
<1>2. Truth'.exposed = Truth.exposed /\ Truth.blind \subseteq Truth'.blind /\ Truth.spurious \subseteq Truth'.spurious
  <2>1. Truth = DR!Truth /\ Truth' = DR!Truth' BY <1>1 DEF Truth
  <2>2. DR!Exposed' = DR!Exposed BY <1>1 DEF DR!BeforeHome, DR!Exposed, DR!Hijackable, DR!Names
  <2>3. DR!Blind \subseteq DR!Blind' BY <1>1, <2>2 DEF DR!BeforeHome, DR!Blind, DR!Names, DR!ShadowableSchemas,
      DR!TemporarilyShadowable
  <2>4. DR!Spurious \subseteq DR!Spurious' BY <1>1 DEF DR!Spurious
  <2> QED BY <2>1, <2>2, <2>3, <2>4 DEF DR!Truth
<1>3. /\ me' = me /\ fault' # "none" /\ Common'
      /\ \/ fault' = "lost" /\ pg'.st = "lost" /\ pg'.who = "nobody" /\ pg'.saves = <<>>
         \/ fault' = "cancelled" /\ pg.st = "open" /\ pg'.st = "aborted" /\ pg' = Failed
      /\ \A e : Done(e) => Done(e)'
      /\ \A k, x : Untold(k, x)' <=> Untold(k, x)
      /\ Unclear' <=> Unclear
  BY <1>2, Striking
<1>4. DefinerRpcKnow'
  <2>1. DefinerRpcKnow BY DEF DefinerRpcInv
  <2>2. Todo' = Todo /\ Target' = Target /\ (Whole(me.todo) => Whole(me.todo)') BY <1>1, <1>3 DEF Todo, Target, Whole,
      Count
  <2>3. me.at \in {"plan", "sample", "schemas", "begin"} => pg'.st = "lost" BY <1>3, <2>1 DEF DefinerRpcKnow
  <2> QED BY <1>1, <1>3, <2>1, <2>2, <2>3 DEF DefinerRpcKnow, DefinerRpcEarly, DefinerRpcCalls
<1>5. \A e : DefinerRpcPending(e) => DefinerRpcPending(e)' BY <1>1, <1>3 DEF DefinerRpcPending, DefinerRpcEarly,
    DefinerRpcCalls, Todo, Current
<1> QED BY <1>2, <1>3, <1>4, <1>5 DEF DefinerRpcInv, Counts

\* Definer-rpc begins so.
LEMMA DefinerRpcBegins == ASSUME DR!Init PROVE Common /\ DefinerRpcInv /\ world.guard = "definer-rpc"
<1>1. Begins("definer-rpc") /\ me.loc = [canary |-> FALSE, two |-> FALSE, tables |-> world.samples, writable |-> {}]
  BY WorldAssumption DEF Names, Begins, Whole, Count, Closed, DR!Init, DR!Enter, DR!Entered, DR!Closed
<1>2. Common BY <1>1, Beginning DEF Names
<1>3. DefinerRpcKnow BY <1>1 DEF DefinerRpcKnow, Begins, Unclear, DefinerRpcEarly, DefinerRpcCalls, Untold
<1> QED BY <1>1, <1>2, <1>3 DEF DefinerRpcInv, DefinerRpcPending, DefinerRpcEarly, DefinerRpcCalls, Begins

\* A step of nobody keeps it.
LEMMA DefinerRpcStays ==
  ASSUME Common, DefinerRpcInv, world.guard = "definer-rpc", UNCHANGED vars
  PROVE  Common' /\ DefinerRpcInv'
<1>1. world' = world /\ fault' = fault /\ pg' = pg /\ me' = me BY DEF vars
<1>2. Truth' = Truth BY <1>1, DefinerRpcSame
<1>3. Common' /\ (\A e : Done(e)' <=> Done(e)) /\ (Counts' <=> Counts) BY <1>1, <1>2, Resting
<1>4. DefinerRpcKnow' /\ (\A e : DefinerRpcPending(e)' <=> DefinerRpcPending(e))
  BY <1>1, <1>2 DEF DefinerRpcInv, DefinerRpcKnow, DefinerRpcPending, DefinerRpcEarly, Whole, Untold, Sampled,
      DefinerRpcCalls, Todo, Target,
           Live, Current, Count, Elems, Lists, Queue
<1> QED BY <1>2, <1>3, <1>4 DEF DefinerRpcInv

\* At the end nothing is pending, and a question is a target and an arm.
LEMMA DefinerRpcEnds ==
  ASSUME Common, world.guard = "definer-rpc", DefinerRpcInv, me.at = "done", Counts
  PROVE  /\ \A e \in Truth.exposed : e = Key(e) /\ Done(e)
         /\ Truth.provable \subseteq Truth.exposed
<1>1. \A e : ~DefinerRpcPending(e) BY DEF DefinerRpcPending, DefinerRpcEarly, DefinerRpcCalls
<1> QED BY <1>1, DefinerRpcPoints DEF DefinerRpcInv, Key

=============================================================================
