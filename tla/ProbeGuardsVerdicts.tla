--------------------------- MODULE ProbeGuardsVerdicts ---------------------------
(***************************************************************************)
(* The same for the guards that forge identities or make a table or a row  *)
(* of their own; and what all eighteen promise: no false finding, no       *)
(* silence, no finding lost to another target's error, and the contract of *)
(* their runner.                                                           *)
(***************************************************************************)
EXTENDS ProbeGuardsServices

-----------------------------------------------------------------------------
(* identity-trust.                                                         *)
\* The forgeries that are counted as proven have had their finding.
Proven(S, said) == \A k \in S : [on |-> k, arm |-> "metadata", says |-> "leak"] \in said

\* What is counted as forged has had its finding, and only tables whose policies read
\* the metadata are forged.
IdentityTrustKnow ==
  /\ DOMAIN me.loc = {"proven"}
  /\ Unclear
  /\ me.at \notin {"start", "plan", "finally", "close", "done"} => IT!Examined
  /\ me.at = "finally" => IT!Examined \/ me.thrown
  /\ me.at = "functions" => IT!TrustsGuc
  /\ me.at \in {"functions", "authority"} => Whole(me.todo)
  /\ me.at \in {"begin", "next", "role", "baseline", "forged", "reset"} => Todo \subseteq IT!Metadata
  /\ me.at \in {"role", "baseline", "forged", "reset"} => me.todo # <<>>
  /\ me.at = "start" => me.loc.proven = {}
  /\ Proven(me.loc.proven, me.said)

\* The question is still to come, of the four that are asked one after another.
IdentityTrustPending(e) ==
  \/ me.at \in {"start", "plan", "functions"}
  \/ me.at = "authority" /\ e.arm # "guc"
  \/ me.at \in {"begin", "next", "role", "baseline", "forged", "reset", "finally", "self"} /\ e.arm \in {"metadata", "self"}
  \/ me.at = "text" /\ e.arm = "metadata"

\* Everything exposed is pending or done.
IdentityTrustInv == IdentityTrustKnow /\ (Counts => \A e \in Truth.exposed : IdentityTrustPending(e) \/ Done(e))
\* What is exposed, question by question.
GucExposed(i) == i \in 1..Len(world.fns) /\ world.fns[i].executable /\ world.fns[i].fromParam /\ ~world.fns[i].authorizes

AuthorityExposed(k) ==
  /\ k \in IT!Tenanted /\ world.targets[k].authority
  /\ \E cmd \in world.targets[k].grants : IT!AnyTenant(world.targets[k], k, cmd)

SelfExposed(k) ==
  /\ k \in IT!Tables /\ world.targets[k].rls /\ IT!MayUpdateOwn(world.targets[k], k)
  /\ \/ world.targets[k].tenant /\ "tenant" \in world.targets[k].writable /\ IT!AnyTenant(world.targets[k], k, "UPDATE")
     \/ "role" \in world.targets[k].writable /\ \E p \in IT!Policies(k) : p.roles

\* A table whose policies the guard may take for open ones.
Misread(k) ==
  \/ ~world.targets[k].rls
  \/ \E p \in IT!Policies(k) : IT!EffectiveCheck(p) = "absent" \/ (p.cmd \in {"UPDATE", "ALL"} /\ p.using = "absent")

\* What is exposed to identity-trust, and what of it is missed, misjudged or provable.
LEMMA IdentityTrustPoints ==
  ASSUME world.guard = "identity-trust"
  PROVE  /\ \A e : e \in Truth.exposed <=>
              /\ IT!Examined /\ e = [on |-> e.on, arm |-> e.arm]
              /\ \/ e.arm = "metadata" /\ e.on \in IT!Metadata
                 \/ e.arm = "guc" /\ IT!TrustsGuc /\ GucExposed(e.on)
                 \/ e.arm = "authority" /\ AuthorityExposed(e.on)
                 \/ e.arm = "self" /\ SelfExposed(e.on)
         /\ \A e \in Truth.exposed : e = [on |-> e.on, arm |-> e.arm]
         /\ \A e : e \in Truth.blind <=>
              e \in Truth.exposed /\ e.arm = "self" /\ \A p \in IT!Policies(e.on) : p.cmd \notin {"UPDATE", "ALL"}
         /\ Truth.provable = Truth.exposed \ Truth.blind
         /\ \A k \in IT!Tables, arm \in {"authority", "self"} : Misread(k) => [on |-> k, arm |-> arm] \in Truth.spurious
<1>1. Truth.exposed = IT!Exposed /\ Truth.blind = IT!Blind /\ Truth.provable = IT!Provable /\ Truth.spurious = IT!Spurious
  BY DEF Truth, IT!Truth
<1>2. \A e : e \in Truth.exposed <=>
              /\ IT!Examined /\ e = [on |-> e.on, arm |-> e.arm]
              /\ \/ e.arm = "metadata" /\ e.on \in IT!Metadata
                 \/ e.arm = "guc" /\ IT!TrustsGuc /\ GucExposed(e.on)
                 \/ e.arm = "authority" /\ AuthorityExposed(e.on)
                 \/ e.arm = "self" /\ SelfExposed(e.on)
  <2> DEFINE G == {i \in 1..Len(world.fns) : LET f == world.fns[i] IN IT!TrustsGuc /\ f.executable /\ f.fromParam /\ ~f.authorizes}
             T(k) == world.targets[k]
             A == {k \in IT!Tenanted : T(k).authority /\ \E cmd \in T(k).grants : IT!AnyTenant(T(k), k, cmd)}
             S == {k \in IT!Tables : /\ T(k).rls /\ IT!MayUpdateOwn(T(k), k)
                                     /\ \/ T(k).tenant /\ "tenant" \in T(k).writable /\ IT!AnyTenant(T(k), k, "UPDATE")
                                        \/ "role" \in T(k).writable /\ \E p \in IT!Policies(k) : p.roles}
  <2>1. IT!Exposed = IF ~IT!Examined THEN {}
                     ELSE [on : IT!Metadata, arm : {"metadata"}] \cup [on : G, arm : {"guc"}]
                          \cup [on : A, arm : {"authority"}] \cup [on : S, arm : {"self"}]
    BY Zenon DEF IT!Exposed
  <2>2. \A k : (k \in G <=> IT!TrustsGuc /\ GucExposed(k)) /\ (k \in A <=> AuthorityExposed(k)) /\ (k \in S <=> SelfExposed(k))
    BY DEF GucExposed, AuthorityExposed, SelfExposed
  <2> HIDE DEF G, A, S
  <2> QED BY <1>1, <2>1, <2>2
<1>3. \A k \in IT!Tables, arm \in {"authority", "self"} : Misread(k) => [on |-> k, arm |-> arm] \in Truth.spurious
  BY <1>1 DEF IT!Spurious, Misread
<1> QED BY <1>1, <1>2, <1>3 DEF IT!Blind, IT!Provable

\* What is said of a set of objects, from what each is taken for.
LEMMA TrustVerdicts ==
  ASSUME NEW S, NEW arm, NEW F
  PROVE  /\ \A a \in IT!Verdicts(S, arm, F) :
              a = [on |-> a.on, arm |-> arm, says |-> a.says] /\ a.on \in S /\ a.says \in {"leak", "note"} /\ F[a.on] = a.says
         /\ \A k \in S : F[k] = "leak" => [on |-> k, arm |-> arm, says |-> "leak"] \in IT!Verdicts(S, arm, F)
<1> DEFINE Y == {y \in S \X {"leak", "note"} : F[y[1]] = y[2]}
<1>1. IT!Verdicts(S, arm, F) = {[on |-> x[1], arm |-> arm, says |-> x[2]] : x \in Y} BY DEF IT!Verdicts
<1>2. ASSUME NEW x \in Y PROVE x[1] \in S /\ x[2] \in {"leak", "note"} /\ F[x[1]] = x[2] OBVIOUS
<1>3. ASSUME NEW k \in S, F[k] = "leak" PROVE <<k, "leak">> \in Y BY <1>3
<1> HIDE DEF Y
<1>4. ASSUME NEW k \in S, F[k] = "leak" PROVE [on |-> k, arm |-> arm, says |-> "leak"] \in IT!Verdicts(S, arm, F)
  <2>1. PICK x \in Y : x[1] = k /\ x[2] = "leak"
    <3>1. <<k, "leak">>[1] = k /\ <<k, "leak">>[2] = "leak" OBVIOUS
    <3> QED BY <1>3, <1>4, <3>1
  <2>2. [on |-> x[1], arm |-> arm, says |-> x[2]] \in IT!Verdicts(S, arm, F) BY <1>1
  <2> QED BY <2>1, <2>2
<1> QED BY <1>1, <1>2, <1>4

\* To the rules of Postgres, what the guard calls unconstrained accepts any tenant,
\* or some policy of it has no expression.
LEMMA TrustConstraints ==
  ASSUME Shape, world.guard = "identity-trust", NEW k \in IT!Tables, NEW P, P \subseteq IT!Policies(k)
  PROVE  /\ IT!Accepts(P) => IT!Unconstrained(P)
         /\ IT!Unconstrained(P) => IT!Accepts(P) \/ Misread(k)
<1>1. \A p \in IT!Policies(k) : p.check \in {"open", "pins", "absent"} /\ p.using \in {"open", "pins", "absent"}
  BY TrustAssumption DEF Shape, IT!Policies, IT!Tables
<1>2. \A p \in P : IT!EffectiveCheck(p) \in {"open", "pins", "absent"} BY <1>1 DEF IT!EffectiveCheck
<1> QED BY <1>2 DEF IT!Accepts, IT!Unconstrained, IT!Permissive, IT!Restrictive, IT!Pins, Misread

\* A finding about an authority table is about one that is exposed.
LEMMA TrustAuthority ==
  ASSUME Shape, world.guard = "identity-trust", NEW k \in IT!Tables, world.targets[k].authority
  PROVE  /\ AuthorityExposed(k) => IT!ClassifyAuthority(world.targets[k], k) = "leak"
         /\ IT!ClassifyAuthority(world.targets[k], k) = "leak" => AuthorityExposed(k) \/ Misread(k)
<1> DEFINE t == world.targets[k]
<1>1. \A cmd : IT!Applicable(k, cmd) \subseteq IT!Policies(k) BY DEF IT!Applicable
<1>2. \A cmd : /\ IT!Accepts(IT!Applicable(k, cmd)) => IT!Unconstrained(IT!Applicable(k, cmd))
               /\ IT!Unconstrained(IT!Applicable(k, cmd)) => IT!Accepts(IT!Applicable(k, cmd)) \/ Misread(k)
  BY <1>1, TrustConstraints
<1>3. k \in IT!Tenanted <=> t.tenant BY DEF IT!Tenanted
<1>4. IT!ClassifyAuthority(t, k) = "leak" <=>
        /\ t.grants # {} /\ t.tenant
        /\ ~t.rls \/ t.owned \/ \E cmd \in t.grants : IT!Unconstrained(IT!Applicable(k, cmd))
  BY DEF IT!ClassifyAuthority
<1>5. AuthorityExposed(k) <=> t.tenant /\ \E cmd \in t.grants : ~t.rls \/ t.owned \/ IT!Accepts(IT!Applicable(k, cmd))
  BY <1>3 DEF AuthorityExposed, IT!AnyTenant
<1> HIDE DEF t
<1> QED BY <1>2, <1>4, <1>5 DEF t

\* A finding about self-escalation is about what is exposed or misread.
LEMMA TrustSelf ==
  ASSUME Shape, world.guard = "identity-trust", NEW k \in IT!Tables
  PROVE  /\ SelfExposed(k) /\ (\E p \in IT!Policies(k) : p.cmd \in {"UPDATE", "ALL"}) =>
              IT!ClassifySelfEscalation(world.targets[k], k) = "leak"
         /\ IT!ClassifySelfEscalation(world.targets[k], k) = "leak" => SelfExposed(k) \/ Misread(k)
<1> DEFINE t          == world.targets[k]
           on         == {p \in IT!Policies(k) : p.cmd \in {"UPDATE", "ALL"}}
           applicable == IF t.owned THEN {} ELSE {p \in on : p.applies}
           open       == t.owned \/ IT!Unconstrained(applicable)
           reads      == \E p \in IT!Policies(k) : p.roles
           authorized == {c \in t.writable : IF c = "tenant" THEN open ELSE reads}
           U          == IT!Applicable(k, "UPDATE")
<1>1. IT!ClassifySelfEscalation(t, k) = IF on = {} \/ (~t.owned /\ IT!Permissive(applicable) = {}) THEN "safe"
                                        ELSE IF authorized # {} THEN "leak"
                                        ELSE IF "role" \in t.writable THEN "note" ELSE "safe"
  BY Zenon DEF IT!ClassifySelfEscalation
<1>2. ~t.owned => applicable = U BY DEF IT!Applicable
<1>3. U \subseteq IT!Policies(k) /\ U \subseteq on BY DEF IT!Applicable
<1>4. (IT!Accepts(U) => IT!Unconstrained(U)) /\ (IT!Unconstrained(U) => IT!Accepts(U) \/ Misread(k))
  BY <1>3, TrustConstraints
<1>5. t.writable \subseteq {"tenant", "role"} /\ ("tenant" \in t.writable => t.tenant)
  BY TrustAssumption DEF Shape, IT!Tables
<1>6. authorized # {} <=> ("tenant" \in t.writable /\ (t.owned \/ IT!Unconstrained(U))) \/ ("role" \in t.writable /\ reads)
  <2>1. open <=> t.owned \/ IT!Unconstrained(U) BY <1>2
  <2> HIDE DEF open, reads, U, applicable
  <2> QED BY <1>5, <2>1
<1>7. SelfExposed(k) <=> /\ t.rls /\ IT!MayUpdateOwn(t, k)
                         /\ \/ "tenant" \in t.writable /\ (t.owned \/ IT!Accepts(U))
                            \/ "role" \in t.writable /\ reads
  <2>1. IT!AnyTenant(t, k, "UPDATE") <=> ~t.rls \/ t.owned \/ IT!Accepts(U) BY DEF IT!AnyTenant
  <2> HIDE DEF reads, U
  <2> QED BY <1>5, <2>1 DEF SelfExposed, reads
<1>8. IT!MayUpdateOwn(t, k) => t.owned \/ (on # {} /\ IT!Permissive(U) # {})
  BY <1>3 DEF IT!MayUpdateOwn, IT!Permissive
<1>9. t.owned \/ IT!Permissive(U) # {} => IT!MayUpdateOwn(t, k) \/ Misread(k)
  <2>1. ASSUME NEW p \in IT!Permissive(U) PROVE IT!MayUpdateOwn(t, k) \/ Misread(k)
    <3>1. p \in U /\ ~p.restrictive /\ p \in IT!Policies(k) /\ p.cmd \in {"UPDATE", "ALL"} BY <1>3 DEF IT!Permissive
    <3> HIDE DEF U, on, t
    <3> QED BY <3>1 DEF IT!MayUpdateOwn, Misread, U
  <2> HIDE DEF U
  <2> QED BY <2>1 DEF IT!MayUpdateOwn
<1>10. (\E p \in IT!Policies(k) : p.cmd \in {"UPDATE", "ALL"}) <=> on # {} OBVIOUS
<1>11. ~t.rls => Misread(k) BY DEF Misread
<1> HIDE DEF on, applicable, open, reads, authorized, U
<1> QED BY <1>1, <1>2, <1>4, <1>6, <1>7, <1>8, <1>9, <1>10, <1>11

\* The tables and what they expose depend on the database alone.
LEMMA TrustSame ==
  ASSUME world' = world
  PROVE  IT!Metadata' = IT!Metadata /\ (IT!Examined' <=> IT!Examined) /\ (IT!TrustsGuc' <=> IT!TrustsGuc)
  BY DEF IT!Metadata, IT!Tenanted, IT!Tables, IT!UsesUserMetadata, IT!Policies, IT!Examined, IT!TrustsGuc

\* What is exposed to identity-trust depends on the database and the fault alone.
LEMMA IdentityTrustSame ==
  ASSUME world.guard = "identity-trust", world' = world, fault' = fault
  PROVE  Truth' = Truth
<1>1. Truth = IT!Truth BY DEF Truth
<1>2. Truth' = IT!Truth' BY DEF Truth
<1>3. IT!Exposed' = IT!Exposed BY DEF IT!Accepts, IT!AnyTenant, IT!Applicable, IT!EffectiveCheck, IT!Examined,
    IT!Exposed, IT!MayUpdateOwn,
       IT!Metadata, IT!Policies, IT!Tables, IT!Tenanted, IT!TrustsGuc, IT!UsesUserMetadata
<1>4. IT!Blind' = IT!Blind BY <1>3 DEF IT!Blind, IT!Policies
<1>5. IT!Provable' = IT!Provable BY <1>3, <1>4 DEF IT!Provable
<1>6. IT!Spurious' = IT!Spurious BY DEF IT!EffectiveCheck, IT!Policies, IT!Spurious, IT!Tables
<1>7. IT!Fragile' = IT!Fragile BY DEF IT!Fragile, IT!Metadata, IT!Policies, IT!Tables, IT!Tenanted,
    IT!UsesUserMetadata
<1> QED BY <1>1, <1>2, <1>3, <1>4, <1>5, <1>6, <1>7 DEF IT!Truth

\* A step of identity-trust changes neither the database nor the fault.
LEMMA IdentityTrustRest == ASSUME IT!Next PROVE world' = world /\ fault' = fault
BY DEF IT!Attempt, IT!AuthorityTables, IT!Await, IT!Begin, IT!Check, IT!Connect, IT!DefinerFunctions, IT!Disconnect,
     IT!Do, IT!ForgeNobody, IT!ForgeVictim, IT!Next, IT!NextTable, IT!PlanPolicies, IT!PolicyText, IT!ResetRole,
     IT!RollBack, IT!Run, IT!SelfEscalation, IT!SwitchRole, IT!SwitchToForge

\* A step of identity-trust keeps what it knows, and is one its runner expects.
LEMMA IdentityTrustAnswers ==
  ASSUME Common, IdentityTrustInv, world.guard = "identity-trust", IT!Next
  PROVE  Common' /\ IdentityTrustInv' /\ Plays
<1>u. world' = world /\ fault' = fault BY IdentityTrustRest
<1>t. Truth' = Truth BY <1>u, IdentityTrustSame
<1>b. /\ IT!Connect <=> Connect
      /\ IT!Disconnect <=> Disconnect
      /\ IT!RollBack("self") <=> RollBack("self")
      /\ IT!SwitchRole("baseline") <=> SwitchRole("baseline")
  BY DEF IT!AsRole, AsRole, IT!Await, Await, IT!Closed, Closed, IT!Connect, Connect, IT!Disconnect, Disconnect,
         IT!Do, Do, IT!Failed, Failed, IT!LeaksIn, LeaksIn, IT!Live, Live, IT!RollBack, RollBack, IT!RolledBack,
         RolledBack, IT!SwitchRole, SwitchRole, IT!Thrown, Thrown, IT!To, To, IT!Verdict, Verdict
<1>o. /\ IT!Live <=> Live
      /\ IT!Failed = Failed
      /\ IT!Began(pg) = Began(pg)
      /\ IT!RolledBack(pg) = RolledBack(pg)
      /\ \A x : IT!AsRole(pg, x) = AsRole(pg, x)
      /\ \A x : IT!Acting(pg, x) = Acting(pg, x)
      /\ \A S : IT!Kept(S) = Kept(S)
      /\ IT!Target = Target
      /\ IT!Current = Current
  BY DEF IT!Live, Live, IT!Failed, Failed, IT!Began, Began, IT!RolledBack, RolledBack, IT!AsRole, AsRole, IT!Acting,
         Acting, IT!Kept, Kept, IT!Target, Target, IT!Current, Current, IT!Closed, Closed
<1>c. Session /\ Shape /\ Meant /\ IdentityTrustKnow BY DEF Common, IdentityTrustInv
<1>k. DOMAIN me.loc = {"proven"} BY <1>c DEF IdentityTrustKnow
<1>q. me.todo # <<>> =>
        /\ Current \in Todo /\ Current \in 1..Count /\ Queue(Tail(me.todo))
        /\ Elems(Tail(me.todo)) = Todo \ {Current}
  BY <1>c, Popping DEF Shape, Todo, Current
<1>x. Todo \subseteq 1..Count BY <1>c DEF Shape, Queue, Todo, Elems
<1>w. IT!Metadata' = IT!Metadata /\ (IT!Examined' <=> IT!Examined) /\ (IT!TrustsGuc' <=> IT!TrustsGuc)
  BY <1>u, TrustSame
\* Leaving.
<1>l. ASSUME Leaves, me.at \notin {"start", "done"}, pg' \in {pg, Failed}, me.at \notin {"plan", "close"} \/ me'.thrown PROVE Common' /\ IdentityTrustInv' /\ Plays
  <2>1. Shape' /\ Meant' /\ ~Counts' /\ Plays BY <1>u, <1>t, <1>l, Leaving
  <2>2. Session' BY <1>u, <1>c, <1>l, Moving DEF Moved, Leaves
  <2>4. (Unclear' <=> Unclear) /\ (\A k, x : Untold(k, x)' <=> Untold(k, x)) BY <1>u, <1>t, <1>c, <1>l, Quiet
      DEF Leaves
  <2>5. pg'.st \in {pg.st, IF pg.st = "open" THEN "aborted" ELSE pg.st} BY <1>c, <1>l DEF Failed, Session, Proper,
      Sound
  <2>3. IdentityTrustKnow'
    <3>1. me'.at \in {"finally", "close"} /\ me'.todo = me.todo /\ me'.said = me.said /\ me'.loc = me.loc /\ DOMAIN me' = DOMAIN me
      BY <1>l DEF Leaves
    <3>2. me'.at = "finally" => IT!Examined' \/ me'.thrown
      <4>1. me.at \notin {"plan", "close"} => IT!Examined \/ me.thrown BY <1>c, <1>l DEF IdentityTrustKnow
      <4>2. me'.thrown \/ me'.thrown = me.thrown BY <1>l DEF Leaves
      <4> QED BY <1>l, <1>w, <4>1, <4>2
    <3>3. Proven(me'.loc.proven, me'.said) BY <1>c, <3>1 DEF IdentityTrustKnow, Proven
    <3>4. DOMAIN me'.loc = {"proven"} /\ Unclear' BY <1>c, <2>4, <3>1 DEF IdentityTrustKnow
    <3> QED BY <3>1, <3>2, <3>3, <3>4 DEF IdentityTrustKnow, Proven
  <2> QED BY <2>1, <2>2, <2>3 DEF Common, IdentityTrustInv
<1>e. /\ me' = IT!Thrown => Leaves
      /\ me' = IT!Ending(me, "skip") => Leaves
      /\ \A l : me' = IT!To(l) => Walks(l, me.todo, me.said) /\ me'.loc = me.loc
  BY <1>c DEF Shape, IT!Thrown, IT!Ending, IT!To, Leaves, Walks
\* Going on with several answers.
<1>m. ASSUME NEW at, NEW todo, NEW S, Walks(at, todo, me.said \cup S), Queue(todo), Moved, me.at \notin {"start", "done"},
             at \notin {"start", "plan", "done"}, IdentityTrustKnow',
             \A a \in S : Meaning(a) /\ a.says # "clear",
             \A a \in S, b \in me.said : a.says = "leak" /\ b.on = a.on /\ b.arm = a.arm => b.says # "clear",
             \A e \in Truth.exposed : Counts /\ IdentityTrustPending(e) =>
                \/ IdentityTrustPending(e)' \/ Done(e)
                \/ e \in Truth.blind
                \/ \E a \in S : a.on = e.on /\ (fault = "none" /\ e \in Truth.provable => a.arm = e.arm /\ a.says = "leak")
      PROVE  Common' /\ IdentityTrustInv' /\ Plays
  <2>1. Shape' BY <1>u, <1>c, <1>m, Going
  <2>2. /\ Meant'
        /\ \A e : Done(e) => Done(e)'
        /\ \A e : (\E a \in S : a.on = e.on) => Heard(e)'
        /\ \A e : (\E a \in S : a.on = e.on /\ a.arm = e.arm /\ a.says = "leak") => Done(e)'
    BY <1>u, <1>t, <1>c, <1>m, TellingAll DEF Walks
  <2>3. Session' BY <1>u, <1>c, <1>m, Moving DEF Walks
  <2>4. (Counts' => Counts) /\ Plays BY <1>m DEF Walks, Counts, Plays
  <2>5. \A e \in Truth.exposed : e \in Truth.blind => Done(e)' BY <1>u, <1>t, IdentityTrustPoints DEF Done
  <2>6. ASSUME NEW e \in Truth.exposed, Counts, IdentityTrustPending(e) PROVE IdentityTrustPending(e)' \/ Done(e)'
    <3>1. CASE \E a \in S : a.on = e.on /\ (fault = "none" /\ e \in Truth.provable => a.arm = e.arm /\ a.says = "leak")
      <4>1. Heard(e)' BY <2>2, <3>1
      <4>2. fault = "none" /\ e \in Truth.provable => Done(e)' BY <2>2, <3>1
      <4>3. ~(fault = "none" /\ e \in Truth.provable) => Done(e)' BY <1>u, <1>t, <4>1 DEF Done
      <4> QED BY <4>2, <4>3
    <3> QED BY <1>m, <2>2, <2>5, <2>6, <3>1
  <2> QED BY <1>t, <1>m, <2>1, <2>2, <2>3, <2>4, <2>6 DEF Common, IdentityTrustInv
\* Going on with these answers; what is left of the list is of those it was.
<1>f. ASSUME NEW at \in {"functions", "authority", "begin", "next", "role", "baseline", "forged", "reset", "finally", "self", "text", "close"},
             NEW todo, NEW S, Queue(todo), Walks(at, todo, me.said \cup S), DOMAIN me'.loc = {"proven"}, Moved,
             Proven(me'.loc.proven, me.said \cup S), me.at \notin {"start", "done"},
             \A a \in S : Meaning(a) /\ a.says # "clear",
             at # "close" => IT!Examined,
             at = "functions" => IT!TrustsGuc,
             at \in {"functions", "authority"} => Whole(todo),
             at \in {"begin", "next", "role", "baseline", "forged", "reset"} => Elems(todo) \subseteq IT!Metadata,
             at \in {"role", "baseline", "forged", "reset"} => todo # <<>>,
             \A e \in Truth.exposed : Counts /\ IdentityTrustPending(e) =>
                \/ IdentityTrustPending(e)' \/ e \in Truth.blind
                \/ \E a \in S : a.on = e.on /\ a.arm = e.arm /\ a.says = "leak"
      PROVE  Common' /\ IdentityTrustInv' /\ Plays
  <2>1. Unclear' BY <1>c, <1>f DEF IdentityTrustKnow, Unclear, Walks
  <2>2. IdentityTrustKnow' BY <1>u, <1>w, <1>c, <1>f, <2>1 DEF IdentityTrustKnow, Walks, Todo, Proven, Whole, Count
  <2>3. \A a \in S, b \in me.said : a.says = "leak" /\ b.on = a.on /\ b.arm = a.arm => b.says # "clear"
    BY <1>c DEF IdentityTrustKnow, Unclear
  <2> QED BY <1>m, <1>f, <2>2, <2>3
\* Going on in silence.
<1>s. ASSUME NEW at \in {"functions", "authority", "begin", "next", "role", "baseline", "forged", "reset", "finally", "self"},
             NEW todo, Queue(todo), Walks(at, todo, me.said), me'.loc = me.loc, Moved, me.at \notin {"start", "done"},
             IT!Examined, at = "functions" => IT!TrustsGuc,
             at \in {"functions", "authority"} => Whole(todo),
             at \in {"begin", "next", "role", "baseline", "forged", "reset"} => Elems(todo) \subseteq IT!Metadata,
             at \in {"role", "baseline", "forged", "reset"} => todo # <<>>,
             \A e \in Truth.exposed : IdentityTrustPending(e) => IdentityTrustPending(e)'
      PROVE  Common' /\ IdentityTrustInv' /\ Plays
  <2>1. PICK S : S = {} OBVIOUS
  <2>2. me.said \cup S = me.said BY <2>1
  <2>3. Proven(me'.loc.proven, me.said \cup S) /\ DOMAIN me'.loc = {"proven"} BY <1>c, <1>s, <2>2
      DEF IdentityTrustKnow
  <2> QED BY <1>f, <1>s, <2>1, <2>2, <2>3
<1>1. CASE IT!PlanPolicies
  <2>1. /\ me.at = "plan"
        /\ \/ pg' = pg /\ (\A k \in IT!Tenanted : IT!Policies(k) = {}) /\ me' = IT!Ending(me, "skip")
           \/ pg' = pg /\ ~(\A k \in IT!Tenanted : IT!Policies(k) = {}) /\ IT!TrustsGuc /\ me' = IT!To("functions")
           \/ pg' = pg /\ ~(\A k \in IT!Tenanted : IT!Policies(k) = {}) /\ ~IT!TrustsGuc /\ me' = IT!To("authority")
           \/ pg' = Failed /\ me' = IT!Thrown
    BY <1>1, <1>o, Zenon DEF IT!PlanPolicies, IT!Await, IT!Do
  <2>2. ~(\A k \in IT!Tenanted : IT!Policies(k) = {}) => IT!Examined BY DEF IT!Examined
  <2>3. Whole(me.todo) /\ Queue(me.todo) /\ Moved BY <1>c, <2>1 DEF Shape, Moved
  <2>4. CASE pg' = pg /\ me' = IT!Ending(me, "skip")
    <3>1. PICK S : S = {} OBVIOUS
    <3>2. /\ DOMAIN me' = DOMAIN me /\ me'.at = "close" /\ me'.todo = me.todo /\ me'.said = me.said \cup S
          /\ me'.thrown = me.thrown /\ me'.result = "skip" /\ me'.loc = me.loc /\ me'.said = me.said
      BY <1>c, <2>4, <3>1 DEF IT!Ending, Shape
    <3>3. Common' /\ ~Counts' /\ Plays /\ (Unclear => Unclear') BY <1>u, <1>t, <1>c, <2>1, <2>3, <3>1, <3>2, Dropping
        DEF Common
    <3>4. IdentityTrustKnow' BY <1>w, <1>c, <3>2, <3>3 DEF IdentityTrustKnow, Proven
    <3> QED BY <3>3, <3>4 DEF IdentityTrustInv
  <2>5. CASE IT!Examined /\ IT!TrustsGuc /\ me' = IT!To("functions")
    <3>1. Walks("functions", me.todo, me.said) /\ me'.loc = me.loc BY <1>e, <2>5
    <3>2. \A e : IdentityTrustPending(e)' BY <3>1 DEF IdentityTrustPending, Walks
    <3> QED BY <1>s, <2>1, <2>3, <2>5, <3>1, <3>2
  <2>6. CASE IT!Examined /\ ~IT!TrustsGuc /\ me' = IT!To("authority")
    <3>1. Walks("authority", me.todo, me.said) /\ me'.loc = me.loc BY <1>e, <2>6
    <3>2. \A e \in Truth.exposed : IdentityTrustPending(e)' BY <2>6, <3>1, IdentityTrustPoints
        DEF IdentityTrustPending, Walks
    <3> QED BY <1>s, <2>1, <2>3, <2>6, <3>1, <3>2
  <2>7. CASE pg' = Failed /\ me' = IT!Thrown
    <3>1. Leaves /\ me'.thrown BY <1>c, <2>7 DEF IT!Thrown, Leaves, Shape
    <3> QED BY <1>l, <2>1, <2>7, <3>1
  <2> QED BY <2>1, <2>2, <2>4, <2>5, <2>6, <2>7
<1>2. CASE IT!DefinerFunctions
  <2> DEFINE callable == {i \in 1..Len(world.fns) : world.fns[i].executable}
             says     == [i \in callable |-> IT!ClassifyFunction(world.fns[i])]
             N        == IT!Verdicts(callable, "guc", says)
             m        == [IT!To("authority") EXCEPT !.said = @ \cup N]
  <2>1. /\ me.at = "functions"
        /\ \/ pg' = pg /\ me' = m
           \/ pg' = Failed /\ me' = IT!Thrown
    BY <1>2, <1>o, Zenon DEF IT!DefinerFunctions, IT!Await, IT!Do
  <2>2. IT!TrustsGuc /\ IT!Examined /\ Whole(me.todo) /\ Queue(me.todo) BY <1>c, <2>1 DEF IdentityTrustKnow, Shape
  <2>3. ASSUME NEW i \in callable, says[i] = "leak" PROVE GucExposed(i) BY <2>3 DEF GucExposed, IT!ClassifyFunction
  <2>4. ASSUME NEW i, GucExposed(i) PROVE i \in callable /\ says[i] = "leak" BY <2>4 DEF GucExposed,
      IT!ClassifyFunction
  <2>5. /\ \A a \in N : a = [on |-> a.on, arm |-> "guc", says |-> a.says] /\ a.on \in callable /\ a.says \in {"leak", "note"} /\ says[a.on] = a.says
        /\ \A i \in callable : says[i] = "leak" => [on |-> i, arm |-> "guc", says |-> "leak"] \in N
    <3> HIDE DEF callable, says
    <3> QED BY TrustVerdicts
  <2>6. PICK S : S = N OBVIOUS
  <2>7. m.said = me.said \cup S /\ DOMAIN m = DOMAIN me /\ m.at = "authority" /\ m.todo = me.todo
        /\ m.thrown = me.thrown /\ m.result = me.result /\ m.loc = me.loc
    <3> HIDE DEF N
    <3> QED BY <1>c, <2>6 DEF IT!To, Shape
  <2> HIDE DEF m, N, says, callable
  <2>8. CASE pg' = pg /\ me' = m
    <3>1. Walks("authority", me.todo, me.said \cup S) /\ DOMAIN me'.loc = {"proven"} /\ Moved
      BY <1>k, <2>7, <2>8 DEF Walks, Moved
    <3>2. \A a \in S : Meaning(a) /\ a.says # "clear"
      <4>1. ASSUME NEW a \in S, a.says = "leak" PROVE Key(a) \in Truth.exposed
        <5>1. a = [on |-> a.on, arm |-> "guc", says |-> a.says] /\ GucExposed(a.on) BY <2>3, <2>5, <2>6, <4>1
        <5> QED BY <2>2, <5>1, IdentityTrustPoints DEF Key
      <4> QED BY <2>5, <2>6, <4>1 DEF Meaning
    <3>3. Proven(me'.loc.proven, me.said \cup S) BY <1>c, <2>7, <2>8 DEF IdentityTrustKnow, Proven
    <3>4. ASSUME NEW e \in Truth.exposed
          PROVE  IdentityTrustPending(e)' \/ \E a \in S : a.on = e.on /\ a.arm = e.arm /\ a.says = "leak"
      <4>1. CASE e.arm # "guc" BY <3>1, <4>1 DEF IdentityTrustPending, Walks
      <4>2. CASE e.arm = "guc"
        <5>1. GucExposed(e.on) BY <4>2, IdentityTrustPoints
        <5>2. [on |-> e.on, arm |-> "guc", says |-> "leak"] \in S BY <2>4, <2>5, <2>6, <5>1
        <5> QED BY <4>2, <5>2
      <4> QED BY <4>1, <4>2
    <3> QED BY <1>f, <2>1, <2>2, <3>1, <3>2, <3>3, <3>4
  <2> QED BY <1>e, <1>l, <2>1, <2>8
<1>3. CASE IT!AuthorityTables
  <2> DEFINE deps == {k \in IT!Tables : world.targets[k].authority}
             says == [k \in deps |-> IT!ClassifyAuthority(world.targets[k], k)]
             N    == IT!Verdicts(deps, "authority", says)
             on   == [me EXCEPT !.said = @ \cup N]
             m1   == [on EXCEPT !.at = "self"]
             m2   == [on EXCEPT !.at = "begin", !.todo = Kept(IT!Metadata)]
  <2>1. /\ me.at = "authority"
        /\ \/ pg' = pg /\ IT!Metadata = {} /\ me' = m1
           \/ pg' = pg /\ IT!Metadata # {} /\ me' = m2
           \/ pg' = Failed /\ me' = IT!Thrown
    BY <1>3, <1>o, Zenon DEF IT!AuthorityTables, IT!Await, IT!Do
  <2>2. IT!Examined /\ Whole(me.todo) /\ Queue(me.todo) BY <1>c, <2>1 DEF IdentityTrustKnow, Shape
  <2>3. ASSUME NEW k \in deps, says[k] = "leak" PROVE AuthorityExposed(k) \/ Misread(k)
    <3>1. k \in IT!Tables /\ world.targets[k].authority /\ IT!ClassifyAuthority(world.targets[k], k) = "leak" BY <2>3
    <3> QED BY <1>c, <3>1, TrustAuthority
  <2>4. ASSUME NEW k, AuthorityExposed(k) PROVE k \in deps /\ says[k] = "leak"
    <3>1. k \in IT!Tables /\ world.targets[k].authority BY <2>4 DEF AuthorityExposed, IT!Tenanted
    <3>2. IT!ClassifyAuthority(world.targets[k], k) = "leak" BY <1>c, <2>4, <3>1, TrustAuthority
    <3> QED BY <3>1, <3>2
  <2>5. /\ \A a \in N : a = [on |-> a.on, arm |-> "authority", says |-> a.says] /\ a.on \in deps /\ a.says \in {"leak", "note"} /\ says[a.on] = a.says
        /\ \A k \in deps : says[k] = "leak" => [on |-> k, arm |-> "authority", says |-> "leak"] \in N
    <3> HIDE DEF deps, says
    <3> QED BY TrustVerdicts
  <2>6. PICK S : S = N OBVIOUS
  <2>7. on.said = me.said \cup S /\ DOMAIN on = DOMAIN me /\ on.todo = me.todo
        /\ on.thrown = me.thrown /\ on.result = me.result /\ on.loc = me.loc
    <3> HIDE DEF N
    <3> QED BY <1>c, <2>6 DEF Shape
  <2>8. deps \subseteq IT!Tables OBVIOUS
  <2> HIDE DEF on, N, says, deps
  <2>9. m1.said = me.said \cup S /\ DOMAIN m1 = DOMAIN me /\ m1.at = "self" /\ m1.todo = me.todo
        /\ m1.thrown = me.thrown /\ m1.result = me.result /\ m1.loc = me.loc
    BY <1>c, <2>7 DEF Shape
  <2>10. m2.said = me.said \cup S /\ DOMAIN m2 = DOMAIN me /\ m2.at = "begin" /\ m2.todo = Kept(IT!Metadata)
        /\ m2.thrown = me.thrown /\ m2.result = me.result /\ m2.loc = me.loc
    BY <1>c, <2>7 DEF Shape
  <2> HIDE DEF m1, m2
  <2>11. \A a \in S : Meaning(a) /\ a.says # "clear"
    <3>1. ASSUME NEW a \in S, a.says = "leak" PROVE Key(a) \in Truth.exposed \cup Truth.spurious
      <4>1. /\ a = [on |-> a.on, arm |-> "authority", says |-> a.says] /\ a.on \in IT!Tables
            /\ AuthorityExposed(a.on) \/ Misread(a.on)
        BY <2>3, <2>5, <2>6, <2>8, <3>1
      <4>2. Key(a) = [on |-> a.on, arm |-> "authority"] BY <4>1 DEF Key
      <4>3. CASE AuthorityExposed(a.on) BY <2>2, <4>2, <4>3, IdentityTrustPoints
      <4>4. CASE Misread(a.on) BY <4>1, <4>2, <4>4, IdentityTrustPoints
      <4> QED BY <4>1, <4>3, <4>4
    <3> QED BY <2>5, <2>6, <3>1 DEF Meaning
  <2>12. ASSUME NEW e \in Truth.exposed, e.arm = "authority"
         PROVE  \E a \in S : a.on = e.on /\ a.arm = e.arm /\ a.says = "leak"
    <3>1. AuthorityExposed(e.on) BY <2>12, IdentityTrustPoints
    <3>2. [on |-> e.on, arm |-> "authority", says |-> "leak"] \in S BY <2>4, <2>5, <2>6, <3>1
    <3> QED BY <2>12, <3>2
  <2>13. ASSUME NEW e \in Truth.exposed, IdentityTrustPending(e), me'.at \in {"self", "begin"}
         PROVE  IdentityTrustPending(e)' \/ \E a \in S : a.on = e.on /\ a.arm = e.arm /\ a.says = "leak"
    <3>1. e.arm \in {"metadata", "self", "authority"} BY <2>1, <2>13, IdentityTrustPoints DEF IdentityTrustPending
    <3> QED BY <2>12, <2>13, <3>1 DEF IdentityTrustPending
  <2>14. CASE pg' = pg /\ me' = m1
    <3>1. Walks("self", me.todo, me.said \cup S) /\ DOMAIN me'.loc = {"proven"} /\ Moved /\ me'.at = "self" /\ me'.loc = me.loc
      BY <1>k, <2>9, <2>14 DEF Walks, Moved
    <3>2. Proven(me'.loc.proven, me.said \cup S) BY <1>c, <3>1 DEF IdentityTrustKnow, Proven
    <3> QED BY <1>f, <2>1, <2>2, <2>11, <2>13, <3>1, <3>2
  <2>15. CASE pg' = pg /\ me' = m2
    <3>1. Queue(Kept(IT!Metadata)) /\ Elems(Kept(IT!Metadata)) \subseteq IT!Metadata BY <1>c, <2>2, Keeping DEF Shape
    <3>2. PICK todo : todo = Kept(IT!Metadata) OBVIOUS
    <3>3. Walks("begin", todo, me.said \cup S) /\ DOMAIN me'.loc = {"proven"} /\ Moved /\ me'.at = "begin" /\ me'.loc = me.loc
      BY <1>k, <2>10, <2>15, <3>2 DEF Walks, Moved
    <3>4. Proven(me'.loc.proven, me.said \cup S) BY <1>c, <3>3 DEF IdentityTrustKnow, Proven
    <3> QED BY <1>f, <2>1, <2>2, <2>11, <2>13, <3>1, <3>2, <3>3, <3>4
  <2> QED BY <1>e, <1>l, <2>1, <2>14, <2>15
<1>4. CASE IT!Begin
  <2>1. /\ me.at = "begin"
        /\ \/ Live /\ pg' = Began(pg) /\ me' = IT!To("next")
           \/ pg' = Failed /\ me' = IT!Thrown
    BY <1>4, <1>b, <1>o, Zenon DEF IT!Begin, IT!Await, IT!Do
  <2>2. CASE Live /\ pg' = Began(pg) /\ me' = IT!To("next")
    <3>1. Walks("next", me.todo, me.said) /\ me'.loc = me.loc /\ Moved BY <1>e, <2>2 DEF Moved
    <3>2. Queue(me.todo) /\ IT!Examined /\ Elems(me.todo) \subseteq IT!Metadata BY <1>c, <2>1 DEF IdentityTrustKnow,
        Shape, Todo
    <3>3. \A e : IdentityTrustPending(e) => IdentityTrustPending(e)' BY <2>1, <3>1 DEF IdentityTrustPending, Walks
    <3> QED BY <1>s, <2>1, <3>1, <3>2, <3>3
  <2> QED BY <1>e, <1>l, <2>1, <2>2
<1>5. CASE IT!NextTable
  <2>1. /\ me.at = "next"
        /\ \/ pg' = pg /\ me.todo = <<>> /\ me' = IT!To("finally")
           \/ pg' = pg /\ me.todo # <<>> /\ me' = IT!Onward(me)
           \/ pg' = pg /\ me.todo # <<>> /\ me' = IT!To("role")
           \/ pg' = Failed /\ me' = IT!Thrown
    BY <1>5, <1>b, <1>o, Zenon DEF IT!NextTable, IT!Await, IT!Do
  <2>2. Queue(me.todo) /\ IT!Examined /\ Elems(me.todo) \subseteq IT!Metadata BY <1>c, <2>1 DEF IdentityTrustKnow,
      Shape, Todo
  <2>3. CASE pg' = pg /\ me' = IT!To("finally")
    <3>1. Walks("finally", me.todo, me.said) /\ me'.loc = me.loc /\ Moved BY <1>e, <2>3 DEF Moved
    <3>2. \A e : IdentityTrustPending(e) => IdentityTrustPending(e)' BY <2>1, <3>1 DEF IdentityTrustPending, Walks
    <3> QED BY <1>s, <2>1, <2>2, <3>1, <3>2
  <2>4. CASE pg' = pg /\ me.todo # <<>> /\ me' = IT!Onward(me)
    <3>1. Walks("next", Tail(me.todo), me.said) /\ me'.loc = me.loc /\ Moved BY <1>c, <2>4 DEF IT!Onward, Walks,
        Shape, Moved
    <3>2. Queue(Tail(me.todo)) /\ Elems(Tail(me.todo)) \subseteq IT!Metadata BY <1>q, <2>2, <2>4 DEF Todo
    <3>3. \A e : IdentityTrustPending(e) => IdentityTrustPending(e)' BY <2>1, <3>1 DEF IdentityTrustPending, Walks
    <3> QED BY <1>s, <2>1, <2>2, <3>1, <3>2, <3>3
  <2>5. CASE pg' = pg /\ me.todo # <<>> /\ me' = IT!To("role")
    <3>1. Walks("role", me.todo, me.said) /\ me'.loc = me.loc /\ Moved BY <1>e, <2>5 DEF Moved
    <3>2. \A e : IdentityTrustPending(e) => IdentityTrustPending(e)' BY <2>1, <3>1 DEF IdentityTrustPending, Walks
    <3> QED BY <1>s, <2>1, <2>2, <2>5, <3>1, <3>2
  <2> QED BY <1>e, <1>l, <2>1, <2>3, <2>4, <2>5
<1>6. CASE IT!SwitchToForge
  <2>1. SwitchRole("baseline") BY <1>6, <1>b DEF IT!SwitchToForge
  <2>2. /\ me.at = "role" /\ me'.loc = me.loc
        /\ \/ Leaves /\ pg' = Failed
           \/ Walks("baseline", me.todo, me.said) /\ pg' = AsRole(pg, "app")
    BY <1>t, <2>1, SwitchesRole
  <2>3. CASE Walks("baseline", me.todo, me.said) /\ pg' = AsRole(pg, "app")
    <3>1. /\ Queue(me.todo) /\ IT!Examined /\ Elems(me.todo) \subseteq IT!Metadata /\ me.todo # <<>>
          /\ \A e : IdentityTrustPending(e) => IdentityTrustPending(e)'
      BY <1>c, <2>2, <2>3 DEF IdentityTrustKnow, Shape, Todo, IdentityTrustPending, Walks
    <3> QED BY <1>s, <2>2, <2>3, <3>1 DEF Moved, Roles
  <2> QED BY <1>l, <2>2, <2>3
<1>7. CASE IT!ForgeNobody
  <2> DEFINE m2 == IT!To("reset")
             m3 == IT!Said(IT!To("reset"), Current, "forgery", "note")
             a == [on |-> Current, arm |-> "forgery", says |-> "note"]
  <2>1. /\ me.at = "baseline"
        /\ \/ pg' = Acting(pg, "nobody") /\ me' = IT!To("forged")
           \/ pg' = Failed /\ me' \in {m2, m3}
    BY <1>7, <1>b, <1>o DEF IT!ForgeNobody, IT!Swallowed, IT!Attempt, IT!Do
  <2>2. Queue(me.todo) /\ IT!Examined /\ Elems(me.todo) \subseteq IT!Metadata /\ me.todo # <<>>
    BY <1>c, <2>1 DEF IdentityTrustKnow, Shape, Todo
  <2>3. /\ DOMAIN m2 = DOMAIN me /\ m2.at = "reset" /\ m2.todo = me.todo /\ m2.said = me.said
        /\ m2.thrown = me.thrown /\ m2.result = me.result /\ m2.loc = me.loc
    BY <1>c DEF IT!To, Shape
  <2>4. /\ DOMAIN m3 = DOMAIN me /\ m3.at = "reset" /\ m3.todo = me.todo /\ m3.said = me.said \cup {a}
        /\ m3.thrown = me.thrown /\ m3.result = me.result /\ m3.loc = me.loc
    BY <1>c DEF IT!To, IT!Said, Shape
  <2>5. a = [on |-> a.on, arm |-> a.arm, says |-> "note"] OBVIOUS
  <2> HIDE DEF m2, m3, a
  <2>6. CASE pg' = Acting(pg, "nobody") /\ me' = IT!To("forged")
    <3>1. Walks("forged", me.todo, me.said) /\ me'.loc = me.loc BY <1>e, <2>6
    <3>2. \A e : IdentityTrustPending(e) => IdentityTrustPending(e)' BY <2>1, <3>1 DEF IdentityTrustPending, Walks
    <3> QED BY <1>s, <2>1, <2>2, <2>6, <3>1, <3>2 DEF Moved
  <2>7. CASE pg' = Failed /\ me' \in {m2, m3}
    <3>1. PICK S : (S = {} \/ S = {a}) /\ me'.said = me.said \cup S
      <4>1. CASE me' = m2
        <5>1. me'.said = me.said \cup {} BY <2>3, <4>1
        <5> QED BY <5>1
      <4>2. CASE me' = m3 BY <2>4, <4>2
      <4> QED BY <2>7, <4>1, <4>2
    <3>2. Walks("reset", me.todo, me.said \cup S) /\ me'.loc = me.loc /\ Moved BY <2>3, <2>4, <2>7, <3>1 DEF Walks,
        Moved
    <3>3. Proven(me'.loc.proven, me.said \cup S) BY <1>c, <3>2 DEF IdentityTrustKnow, Proven
    <3>4. \A x \in S : Meaning(x) /\ x.says # "clear" BY <2>5, <3>1 DEF Meaning
    <3>5. \A e : IdentityTrustPending(e) => IdentityTrustPending(e)' BY <2>1, <3>2 DEF IdentityTrustPending, Walks
    <3> QED BY <1>f, <1>k, <2>1, <2>2, <3>2, <3>3, <3>4, <3>5
  <2> QED BY <2>1, <2>6, <2>7
<1>8. CASE IT!ForgeVictim
  <2> DEFINE m2 == IT!To("reset")
             m3 == IT!Said(IT!To("reset"), Current, "forgery", "note")
             a == [on |-> Current, arm |-> "forgery", says |-> "note"]
             b == [on |-> Current, arm |-> "metadata", says |-> "leak"]
             m1 == [IT!Said(IT!To("reset"), Current, "metadata", "leak") EXCEPT !.loc.proven = @ \cup {Current}]
  <2>1. /\ me.at = "forged"
        /\ \/ pg' = Acting(pg, "victim") /\ me' \in {m1, m2}
           \/ pg' = Failed /\ me' \in {m2, m3}
    BY <1>8, <1>b, <1>o DEF IT!ForgeVictim, IT!Swallowed, IT!Attempt, IT!Do
  <2>2. Queue(me.todo) /\ IT!Examined /\ Elems(me.todo) \subseteq IT!Metadata /\ me.todo # <<>>
    BY <1>c, <2>1 DEF IdentityTrustKnow, Shape, Todo
  <2>3. /\ DOMAIN m2 = DOMAIN me /\ m2.at = "reset" /\ m2.todo = me.todo /\ m2.said = me.said
        /\ m2.thrown = me.thrown /\ m2.result = me.result /\ m2.loc = me.loc
    BY <1>c DEF IT!To, Shape
  <2>4. /\ DOMAIN m3 = DOMAIN me /\ m3.at = "reset" /\ m3.todo = me.todo /\ m3.said = me.said \cup {a}
        /\ m3.thrown = me.thrown /\ m3.result = me.result /\ m3.loc = me.loc
    BY <1>c DEF IT!To, IT!Said, Shape
  <2>5. a = [on |-> a.on, arm |-> a.arm, says |-> "note"] OBVIOUS
  <2>6. /\ DOMAIN m1 = DOMAIN me /\ m1.at = "reset" /\ m1.todo = me.todo /\ m1.said = me.said \cup {b}
        /\ m1.thrown = me.thrown /\ m1.result = me.result
        /\ DOMAIN m1.loc = DOMAIN me.loc /\ m1.loc.proven = me.loc.proven \cup {Current}
    BY <1>c, <1>k DEF IT!To, IT!Said, Shape
  <2>7. b = [on |-> Current, arm |-> "metadata", says |-> "leak"] OBVIOUS
  <2> HIDE DEF m1, m2, m3, a, b
  <2>8. CASE pg' = Failed /\ me' \in {m2, m3}
    <3>1. PICK S : (S = {} \/ S = {a}) /\ me'.said = me.said \cup S
      <4>1. CASE me' = m2
        <5>1. me'.said = me.said \cup {} BY <2>3, <4>1
        <5> QED BY <5>1
      <4>2. CASE me' = m3 BY <2>4, <4>2
      <4> QED BY <2>8, <4>1, <4>2
    <3>2. Walks("reset", me.todo, me.said \cup S) /\ me'.loc = me.loc /\ Moved BY <2>3, <2>4, <2>8, <3>1 DEF Walks,
        Moved
    <3>3. Proven(me'.loc.proven, me.said \cup S) BY <1>c, <3>2 DEF IdentityTrustKnow, Proven
    <3>4. \A x \in S : Meaning(x) /\ x.says # "clear" BY <2>5, <3>1 DEF Meaning
    <3>5. \A e : IdentityTrustPending(e) => IdentityTrustPending(e)' BY <2>1, <3>2 DEF IdentityTrustPending, Walks
    <3> QED BY <1>f, <1>k, <2>1, <2>2, <3>2, <3>3, <3>4, <3>5
  <2>9. CASE pg' = Acting(pg, "victim") /\ me' = m2
    <3>1. Walks("reset", me.todo, me.said) /\ me'.loc = me.loc BY <2>3, <2>9 DEF Walks
    <3>2. \A e : IdentityTrustPending(e) => IdentityTrustPending(e)' BY <2>1, <3>1 DEF IdentityTrustPending, Walks
    <3> QED BY <1>s, <2>1, <2>2, <2>9, <3>1, <3>2 DEF Moved
  <2>10. CASE pg' = Acting(pg, "victim") /\ me' = m1
    <3>1. PICK S : S = {b} OBVIOUS
    <3>2. Walks("reset", me.todo, me.said \cup S) /\ DOMAIN me'.loc = {"proven"} /\ Moved BY <1>k, <2>6, <2>10, <3>1
        DEF Walks, Moved
    <3>3. Proven(me'.loc.proven, me.said \cup S) BY <1>c, <2>6, <2>7, <2>10, <3>1 DEF IdentityTrustKnow, Proven
    <3>4. Current \in IT!Metadata BY <1>q, <2>2 DEF Todo
    <3>5. \A x \in S : Meaning(x) /\ x.says # "clear"
      <4>1. [on |-> Current, arm |-> "metadata"] \in Truth.exposed BY <2>2, <3>4, IdentityTrustPoints
      <4> QED BY <2>7, <3>1, <4>1 DEF Meaning, Key
    <3>6. \A e : IdentityTrustPending(e) => IdentityTrustPending(e)' BY <2>1, <3>2 DEF IdentityTrustPending, Walks
    <3> QED BY <1>f, <2>1, <2>2, <3>2, <3>3, <3>5, <3>6
  <2> QED BY <2>1, <2>8, <2>9, <2>10
<1>9. CASE IT!ResetRole
  <2>1. /\ me.at = "reset"
        /\ \/ pg' = AsRole(pg, "conn") /\ me' = IT!Onward(me)
           \/ pg' = Failed /\ me' = IT!Thrown
    BY <1>9, <1>b, <1>o, Zenon DEF IT!ResetRole, IT!Await, IT!Do
  <2>2. Queue(me.todo) /\ IT!Examined /\ Elems(me.todo) \subseteq IT!Metadata /\ me.todo # <<>>
    BY <1>c, <2>1 DEF IdentityTrustKnow, Shape, Todo
  <2>3. CASE pg' = AsRole(pg, "conn") /\ me' = IT!Onward(me)
    <3>1. Walks("next", Tail(me.todo), me.said) /\ me'.loc = me.loc BY <1>c, <2>3 DEF IT!Onward, Walks, Shape
    <3>2. Queue(Tail(me.todo)) /\ Elems(Tail(me.todo)) \subseteq IT!Metadata BY <1>q, <2>2 DEF Todo
    <3>3. \A e : IdentityTrustPending(e) => IdentityTrustPending(e)' BY <2>1, <3>1 DEF IdentityTrustPending, Walks
    <3> QED BY <1>s, <2>1, <2>2, <2>3, <3>1, <3>2, <3>3 DEF Moved, Roles
  <2> QED BY <1>e, <1>l, <2>1, <2>3
<1>10. CASE IT!RollBack("self")
  <2>1. /\ me.at = "finally" /\ Common' /\ Plays /\ me'.at = (IF me.thrown THEN "close" ELSE "self")
        /\ me'.thrown = me.thrown /\ me'.result = me.result
        /\ me'.loc = me.loc /\ me'.said = me.said /\ me'.todo = me.todo /\ (Counts' <=> Counts)
        /\ pg' \in {pg, RolledBack(pg)} /\ (pg.st \notin {"open", "aborted"} => pg' = pg)
    BY <1>b, <1>t, <1>10, RollsBack
  <2>2. (\A e : Done(e)' <=> Done(e)) /\ (Unclear' <=> Unclear) BY <1>u, <1>t, <1>c, <2>1, Quiet
  <2>3. IdentityTrustKnow' BY <1>u, <1>c, <2>1, <2>2, <1>w DEF IdentityTrustKnow, Proven, Todo, Whole, Count
  <2>4. \A e \in Truth.exposed : IdentityTrustPending(e) /\ Counts => IdentityTrustPending(e)' BY <1>u, <2>1
      DEF IdentityTrustPending, Counts
  <2> QED BY <1>t, <2>1, <2>2, <2>3, <2>4 DEF IdentityTrustInv
<1>11. CASE IT!SelfEscalation
  <2> DEFINE says == [k \in IT!Tables |-> IT!ClassifySelfEscalation(world.targets[k], k)]
             N    == IT!Verdicts(IT!Tables, "self", says)
             m    == [IT!To("text") EXCEPT !.said = @ \cup N]
  <2>1. /\ me.at = "self"
        /\ \/ pg' = pg /\ me' = m
           \/ pg' = Failed /\ me' = IT!Thrown
    BY <1>11, <1>o, Zenon DEF IT!SelfEscalation, IT!Await, IT!Do
  <2>2. IT!Examined /\ Queue(me.todo) BY <1>c, <2>1 DEF IdentityTrustKnow, Shape
  <2>3. ASSUME NEW k \in IT!Tables, says[k] = "leak" PROVE SelfExposed(k) \/ Misread(k)
    <3>1. IT!ClassifySelfEscalation(world.targets[k], k) = "leak" BY <2>3
    <3> QED BY <1>c, <3>1, TrustSelf
  <2>4. ASSUME NEW k \in IT!Tables, SelfExposed(k), \E p \in IT!Policies(k) : p.cmd \in {"UPDATE", "ALL"} PROVE says[k] = "leak"
    <3>1. IT!ClassifySelfEscalation(world.targets[k], k) = "leak" BY <1>c, <2>4, TrustSelf
    <3> QED BY <3>1
  <2> HIDE DEF says
  <2>5. /\ \A a \in N : a = [on |-> a.on, arm |-> "self", says |-> a.says] /\ a.on \in IT!Tables /\ a.says \in {"leak", "note"} /\ says[a.on] = a.says
        /\ \A k \in IT!Tables : says[k] = "leak" => [on |-> k, arm |-> "self", says |-> "leak"] \in N
    BY TrustVerdicts
  <2>6. PICK S : S = N OBVIOUS
  <2> HIDE DEF N
  <2>7. m.said = me.said \cup S /\ DOMAIN m = DOMAIN me /\ m.at = "text" /\ m.todo = me.todo
        /\ m.thrown = me.thrown /\ m.result = me.result /\ m.loc = me.loc
    BY <1>c, <2>6 DEF IT!To, Shape
  <2> HIDE DEF m
  <2>8. CASE pg' = pg /\ me' = m
    <3>1. Walks("text", me.todo, me.said \cup S) /\ DOMAIN me'.loc = {"proven"} /\ Moved
      BY <1>k, <2>7, <2>8 DEF Walks, Moved
    <3>2. \A a \in S : Meaning(a) /\ a.says # "clear"
      <4>1. ASSUME NEW a \in S, a.says = "leak" PROVE Key(a) \in Truth.exposed \cup Truth.spurious
        <5>1. a = [on |-> a.on, arm |-> "self", says |-> a.says] /\ a.on \in IT!Tables /\ (SelfExposed(a.on) \/ Misread(a.on))
          BY <2>3, <2>5, <2>6, <4>1
        <5>2. Key(a) = [on |-> a.on, arm |-> "self"] BY <5>1 DEF Key
        <5>3. CASE SelfExposed(a.on) BY <2>2, <5>2, <5>3, IdentityTrustPoints
        <5>4. CASE Misread(a.on) BY <5>1, <5>2, <5>4, IdentityTrustPoints
        <5> QED BY <5>1, <5>3, <5>4
      <4> QED BY <2>5, <2>6, <4>1 DEF Meaning
    <3>3. Proven(me'.loc.proven, me.said \cup S) BY <1>c, <2>7, <2>8 DEF IdentityTrustKnow, Proven
    <3>4. ASSUME NEW e \in Truth.exposed, IdentityTrustPending(e)
          PROVE  IdentityTrustPending(e)' \/ e \in Truth.blind \/ \E a \in S : a.on = e.on /\ a.arm = e.arm /\ a.says = "leak"
      <4>1. CASE e.arm # "self" BY <2>1, <3>1, <3>4, <4>1 DEF IdentityTrustPending, Walks
      <4>2. CASE e.arm = "self" /\ e \notin Truth.blind
        <5>1. SelfExposed(e.on) /\ e.on \in IT!Tables /\ \E p \in IT!Policies(e.on) : p.cmd \in {"UPDATE", "ALL"}
          BY <4>2, IdentityTrustPoints DEF SelfExposed
        <5>2. [on |-> e.on, arm |-> "self", says |-> "leak"] \in S BY <2>4, <2>5, <2>6, <5>1
        <5> QED BY <4>2, <5>2
      <4> QED BY <4>1, <4>2
    <3> QED BY <1>f, <2>1, <2>2, <3>1, <3>2, <3>3, <3>4
  <2> QED BY <1>e, <1>l, <2>1, <2>8
<1>12. CASE IT!PolicyText
  <2> DEFINE texts == [on : IT!Metadata \ me.loc.proven, arm : {"metadata"}, says : {"leak"}]
             gucs  == IF IT!TrustsGuc THEN [on : {0}, arm : {"guc"}, says : {"note"}] ELSE {}
             N     == texts \cup gucs
             m     == [IT!To("close") EXCEPT !.said = (@ \cup texts) \cup gucs]
  <2>1. me.at = "text" /\ pg' = pg /\ me' = m BY <1>12, Zenon DEF IT!PolicyText, IT!Do
  <2>2. IT!Examined /\ Queue(me.todo) BY <1>c, <2>1 DEF IdentityTrustKnow, Shape
  <2>3. /\ \A a \in N : /\ a = [on |-> a.on, arm |-> a.arm, says |-> a.says] /\ a.says \in {"leak", "note"}
                        /\ a.says = "leak" => a.arm = "metadata" /\ a.on \in IT!Metadata
        /\ \A k \in IT!Metadata \ me.loc.proven : [on |-> k, arm |-> "metadata", says |-> "leak"] \in N
    OBVIOUS
  <2>4. PICK S : S = N OBVIOUS
  <2>5. m.said = me.said \cup S /\ DOMAIN m = DOMAIN me /\ m.at = "close" /\ m.todo = me.todo
        /\ m.thrown = me.thrown /\ m.result = me.result /\ m.loc = me.loc
    <3>1. S = texts \cup gucs BY <2>4
    <3> HIDE DEF texts, gucs, N
    <3> QED BY <1>c, <3>1 DEF IT!To, Shape
  <2> HIDE DEF m, N
  <2>6. Walks("close", me.todo, me.said \cup S) /\ DOMAIN me'.loc = {"proven"} /\ Moved BY <1>k, <2>1, <2>5 DEF Walks,
      Moved
  <2>7. \A a \in S : Meaning(a) /\ a.says # "clear"
    <3>1. ASSUME NEW a \in S, a.says = "leak" PROVE Key(a) \in Truth.exposed
      BY <2>2, <2>3, <2>4, <3>1, IdentityTrustPoints DEF Key
    <3> QED BY <2>3, <2>4, <3>1 DEF Meaning
  <2>8. Proven(me'.loc.proven, me.said \cup S) BY <1>c, <2>1, <2>5 DEF IdentityTrustKnow, Proven
  <2>9. ASSUME NEW e \in Truth.exposed, IdentityTrustPending(e)
        PROVE  Done(e) \/ \E a \in S : a.on = e.on /\ a.arm = e.arm /\ a.says = "leak"
    <3>1. e.arm = "metadata" BY <2>1, <2>9 DEF IdentityTrustPending
    <3>2. e.on \in IT!Metadata BY <3>1, IdentityTrustPoints
    <3>3. CASE e.on \in me.loc.proven
      <4>1. [on |-> e.on, arm |-> "metadata", says |-> "leak"] \in me.said BY <1>c, <3>3 DEF IdentityTrustKnow, Proven
      <4> QED BY <3>1, <4>1 DEF Done, Heard, Found
    <3>4. CASE e.on \notin me.loc.proven
      <4>1. [on |-> e.on, arm |-> "metadata", says |-> "leak"] \in S BY <2>3, <2>4, <3>2, <3>4
      <4> QED BY <3>1, <4>1
    <3> QED BY <3>3, <3>4
  <2>10. Unclear' /\ me'.loc = me.loc /\ me'.at = "close" BY <1>c, <2>1, <2>5, <2>7 DEF IdentityTrustKnow, Unclear
  <2>11. IdentityTrustKnow' BY <1>k, <1>c, <2>6, <2>8, <2>10 DEF IdentityTrustKnow, Walks
  <2>12. \A a \in S, b \in me.said : a.says = "leak" /\ b.on = a.on /\ b.arm = a.arm => b.says # "clear"
    BY <1>c DEF IdentityTrustKnow, Unclear
  <2> QED BY <1>m, <2>1, <2>2, <2>6, <2>7, <2>9, <2>11, <2>12
<1>13. CASE IT!Connect
  <2>1. /\ me.at = "start" /\ Common' /\ Plays /\ me'.loc = me.loc /\ me'.said = {} /\ me'.todo = me.todo
        /\ \/ me'.at = "plan" /\ pg' = [pg EXCEPT !.st = "idle"] /\ pg'.st = "idle" /\ Whole(me'.todo)
           \/ me'.at = "done" /\ ~Counts' /\ pg' = pg
    BY <1>b, <1>t, <1>13, Connects
  <2>2. IdentityTrustKnow' BY <1>u, <1>c, <2>1, <1>w DEF IdentityTrustKnow, Unclear, Proven, Whole, Count
  <2>3. Counts' => \A e : IdentityTrustPending(e)' BY <2>1 DEF IdentityTrustPending
  <2> QED BY <2>1, <2>2, <2>3 DEF IdentityTrustInv
<1>14. CASE IT!Disconnect
  <2>1. /\ me.at = "close" /\ Common' /\ Plays /\ me'.at = "done"
        /\ me'.loc = me.loc /\ me'.said = me.said /\ me'.todo = me.todo /\ (Counts' => Counts)
    BY <1>b, <1>t, <1>14, Disconnects
  <2>2. (\A e : Done(e)' <=> Done(e)) /\ (Unclear' <=> Unclear) BY <1>u, <1>t, <1>c, <2>1, Quiet
  <2>3. IdentityTrustKnow' BY <1>u, <1>c, <2>1, <2>2, <1>w DEF IdentityTrustKnow, Proven, Whole, Count
  <2>4. \A e : ~IdentityTrustPending(e) BY <2>1 DEF IdentityTrustPending
  <2> QED BY <1>t, <2>1, <2>2, <2>3, <2>4 DEF IdentityTrustInv
<1> QED BY <1>1, <1>2, <1>3, <1>4, <1>5, <1>6, <1>7, <1>8, <1>9, <1>10, <1>11, <1>12, <1>13, <1>14 DEF IT!Next,
    IT!Check, IT!Run

\* So does a fault, whenever it strikes.
LEMMA IdentityTrustStruck ==
  ASSUME Common, IdentityTrustInv, world.guard = "identity-trust", Drop \/ Cancel
  PROVE  Common' /\ IdentityTrustInv'
<1>1. world' = world /\ fault = "none" BY DEF Drop, Cancel
<1>2. Truth'.exposed = Truth.exposed /\ Truth.blind \subseteq Truth'.blind /\ Truth.spurious \subseteq Truth'.spurious
  <2>1. Truth = IT!Truth /\ Truth' = IT!Truth' BY <1>1 DEF Truth
  <2>2. IT!Exposed' = IT!Exposed BY <1>1 DEF IT!Accepts, IT!AnyTenant, IT!Applicable, IT!EffectiveCheck, IT!Examined,
      IT!Exposed, IT!MayUpdateOwn,
           IT!Metadata, IT!Policies, IT!Tables, IT!Tenanted, IT!TrustsGuc, IT!UsesUserMetadata
  <2>3. IT!Blind \subseteq IT!Blind' BY <1>1, <2>2 DEF IT!Blind, IT!Policies
  <2>4. IT!Spurious \subseteq IT!Spurious' BY <1>1 DEF IT!EffectiveCheck, IT!Policies, IT!Spurious, IT!Tables
  <2> QED BY <2>1, <2>2, <2>3, <2>4 DEF IT!Truth
<1>3. /\ me' = me /\ fault' # "none" /\ Common'
      /\ \/ fault' = "lost" /\ pg'.st = "lost" /\ pg'.who = "nobody" /\ pg'.saves = <<>>
         \/ fault' = "cancelled" /\ pg.st = "open" /\ pg'.st = "aborted" /\ pg' = Failed
      /\ \A e : Done(e) => Done(e)'
      /\ \A k, x : Untold(k, x)' <=> Untold(k, x)
      /\ Unclear' <=> Unclear
  BY <1>2, Striking
<1>4. IdentityTrustKnow' BY <1>1, <1>3, TrustSame DEF IdentityTrustInv, IdentityTrustKnow, Todo, Proven, Whole, Count
<1>5. \A e : IdentityTrustPending(e) => IdentityTrustPending(e)' BY <1>1, <1>3 DEF IdentityTrustPending
<1> QED BY <1>2, <1>3, <1>4, <1>5 DEF IdentityTrustInv, Counts

\* Identity-trust begins so.
LEMMA IdentityTrustBegins == ASSUME IT!Init PROVE Common /\ IdentityTrustInv /\ world.guard = "identity-trust"
<1>1. Begins("identity-trust") /\ me.loc = [proven |-> {}]
  BY WorldAssumption DEF Names, Begins, Whole, Count, Closed, IT!Init, IT!Enter, IT!Entered, IT!Closed
<1>2. Common BY <1>1, Beginning DEF Names
<1>3. IdentityTrustKnow BY <1>1 DEF IdentityTrustKnow, Begins, Unclear, Proven
<1> QED BY <1>1, <1>2, <1>3 DEF IdentityTrustInv, IdentityTrustPending, Begins

\* A step of nobody keeps it.
LEMMA IdentityTrustStays ==
  ASSUME Common, IdentityTrustInv, world.guard = "identity-trust", UNCHANGED vars
  PROVE  Common' /\ IdentityTrustInv'
<1>1. world' = world /\ fault' = fault /\ pg' = pg /\ me' = me BY DEF vars
<1>2. Truth' = Truth BY <1>1, IdentityTrustSame
<1>3. Common' /\ (\A e : Done(e)' <=> Done(e)) /\ (Counts' <=> Counts) BY <1>1, <1>2, Resting
<1>4. IdentityTrustKnow' /\ (\A e : IdentityTrustPending(e)' <=> IdentityTrustPending(e))
  BY <1>1, <1>2 DEF IdentityTrustInv, IdentityTrustKnow, IdentityTrustPending, Unclear, IT!Examined, IT!TrustsGuc,
      Whole, Todo, IT!Metadata,
           Proven, IT!Tenanted, IT!Policies, Count, Elems, Lists, IT!UsesUserMetadata, IT!Tables, Queue
<1> QED BY <1>2, <1>3, <1>4 DEF IdentityTrustInv

\* At the end nothing is pending, and a question is a target and an arm.
LEMMA IdentityTrustEnds ==
  ASSUME Common, world.guard = "identity-trust", IdentityTrustInv, me.at = "done", Counts
  PROVE  /\ \A e \in Truth.exposed : e = Key(e) /\ Done(e)
         /\ Truth.provable \subseteq Truth.exposed
<1>1. \A e : ~IdentityTrustPending(e) BY DEF IdentityTrustPending
<1> QED BY <1>1, IdentityTrustPoints DEF IdentityTrustInv, Key

-----------------------------------------------------------------------------
(* default-privileges.                                                     *)
\* The table that is being made: in which schema, and by whom.
Probed == [on |-> Current, arm |-> me.loc.as]

\* The other role is tried only where there is one, and in the order of the code: a
\* table that was made is read, one that was not has had what it is due.
DefaultPrivilegesKnow ==
  /\ DOMAIN me.loc = {"as", "others", "scanned"}
  /\ Unclear
  /\ me.loc.as \in {"conn", "other"}
  /\ me.loc.as = "other" \/ me.loc.others => world.others
  /\ me.at \in {"start", "plan", "whoami", "acl"} => Whole(me.todo)
  /\ me.at \in {"start", "plan", "whoami", "acl", "next"} => me.loc.as = "conn"
  /\ me.at \in {"plan", "whoami", "acl", "next", "begin"} => pg.st \in {"idle", "lost"}
  /\ me.at \in {"role", "create", "read"} /\ fault = "none" => Live
  /\ me.at \in {"next", "begin", "role", "create", "read", "undo", "failed"} =>
       (~world.oldCatalog /\ fault # "lost" /\ world.others => me.loc.others)
  /\ me.at \in {"begin", "role", "create", "read", "undo", "failed"} => me.todo # <<>>
  /\ me.at = "role" => me.loc.as = "other"
  /\ me.at \in {"read", "undo"} => Target[me.loc.as] # "denied"
  /\ me.at = "failed" => \A e \in Truth.exposed : e = Probed => Done(e)

\* The schema is on the list, and at the one at hand the role has not been tried.
DefaultPrivilegesPending(e) ==
  \/ me.at \in {"start", "plan", "whoami", "acl"}
  \/ me.at = "next" /\ e.on \in Todo
  \/ /\ me.at \in {"begin", "role", "create", "read", "undo", "failed"} /\ e.on \in Todo
     /\ ~(e.on = Current /\ e.arm = "conn" /\ me.loc.as = "other")

\* Everything exposed is pending or done.
DefaultPrivilegesInv == DefaultPrivilegesKnow /\ (Counts => \A e \in Truth.exposed : DefaultPrivilegesPending(e) \/ Done(e))

\* What is exposed to default-privileges, and what of it is missed, misjudged or provable.
LEMMA DefaultPrivilegesPoints ==
  ASSUME world.guard = "default-privileges"
  PROVE  /\ \A e : e \in Truth.exposed <=>
              /\ e = [on |-> e.on, arm |-> e.arm] /\ e.on \in 1..Count /\ e.arm \in {"conn", "other"}
              /\ e.arm = "other" => world.others
              /\ world.targets[e.on][e.arm] = "public"
         /\ Truth.provable \subseteq Truth.exposed \ Truth.blind
         /\ \A e \in Truth.exposed : e.arm = "other" /\ (world.oldCatalog \/ fault = "lost") => e \in Truth.blind
         /\ \A e \in Truth.provable : e \in Truth.exposed /\ (e.arm = "other" => world.member)
         /\ \A e \in Truth.exposed : e = [on |-> e.on, arm |-> e.arm]
<1>1. Truth.exposed = DP!Exposed /\ Truth.blind = DP!Blind /\ Truth.provable = DP!Provable BY DEF Truth, DP!Truth
<1>2. \A e : e \in Truth.exposed <=>
              /\ e = [on |-> e.on, arm |-> e.arm] /\ e.on \in 1..Count /\ e.arm \in {"conn", "other"}
              /\ e.arm = "other" => world.others
              /\ world.targets[e.on][e.arm] = "public"
  BY <1>1 DEF DP!Exposed, Count
<1> QED BY <1>1, <1>2 DEF DP!Blind, DP!Provable

\* What is exposed to default-privileges depends on the database and the fault alone.
LEMMA DefaultPrivilegesSame ==
  ASSUME world.guard = "default-privileges", world' = world, fault' = fault
  PROVE  Truth' = Truth
<1>1. Truth = DP!Truth BY DEF Truth
<1>2. Truth' = DP!Truth' BY DEF Truth
<1>3. DP!Exposed' = DP!Exposed BY DEF DP!Exposed
<1>4. DP!Blind' = DP!Blind BY <1>3 DEF DP!Blind
<1>5. DP!Provable' = DP!Provable BY <1>3, <1>4 DEF DP!Provable
<1>6. DP!Spurious' = DP!Spurious BY DEF DP!Spurious
<1>7. DP!Fragile' = DP!Fragile BY DEF DP!Fragile
<1> QED BY <1>1, <1>2, <1>3, <1>4, <1>5, <1>6, <1>7 DEF DP!Truth

\* A step of default-privileges changes neither the database nor the fault.
LEMMA DefaultPrivilegesRest == ASSUME DP!Next PROVE world' = world /\ fault' = fault
BY DEF DP!AssumeCreator, DP!Attempt, DP!Begin, DP!Check, DP!Connect, DP!DefaultAcl, DP!Disconnect, DP!Do, DP!Next,
     DP!NextSchema, DP!ProbeAcl, DP!ProbeCreate, DP!ReadMitigation, DP!Run, DP!UndoProbe, DP!WhoAmI

\* A step of default-privileges keeps what it knows, and is one its runner expects.
LEMMA DefaultPrivilegesAnswers ==
  ASSUME Common, DefaultPrivilegesInv, world.guard = "default-privileges", DP!Next
  PROVE  Common' /\ DefaultPrivilegesInv' /\ Plays
<1>u. world' = world /\ fault' = fault BY DefaultPrivilegesRest
<1>t. Truth' = Truth BY <1>u, DefaultPrivilegesSame
<1>b. /\ DP!Connect <=> Connect
      /\ DP!Disconnect <=> Disconnect
  BY DEF DP!Closed, Closed, DP!Connect, Connect, DP!Disconnect, Disconnect, DP!Do, Do, DP!LeaksIn, LeaksIn, DP!To,
         To, DP!Verdict, Verdict
<1>o. /\ DP!Live <=> Live
      /\ DP!Failed = Failed
      /\ DP!Began(pg) = Began(pg)
      /\ DP!RolledBack(pg) = RolledBack(pg)
      /\ \A x : DP!AsRole(pg, x) = AsRole(pg, x)
      /\ \A x : DP!Made(pg, x) = Made(pg, x)
      /\ DP!Target = Target
      /\ DP!Current = Current
  BY DEF DP!Live, Live, DP!Failed, Failed, DP!Began, Began, DP!RolledBack, RolledBack, DP!AsRole, AsRole, DP!Made,
         Made, DP!Target, Target, DP!Current, Current, DP!Closed, Closed
<1>c. Session /\ Shape /\ Meant /\ DefaultPrivilegesKnow BY DEF Common, DefaultPrivilegesInv
<1>k. DOMAIN me.loc = {"as", "others", "scanned"} BY <1>c DEF DefaultPrivilegesKnow
<1>q. me.todo # <<>> =>
        /\ Current \in Todo /\ Current \in 1..Count /\ Queue(Tail(me.todo))
        /\ Elems(Tail(me.todo)) = Todo \ {Current}
  BY <1>c, Popping DEF Shape, Todo, Current
<1>x. Todo \subseteq 1..Count BY <1>c DEF Shape, Queue, Todo, Elems
\* Going on without an answer.
<1>s. ASSUME NEW at, NEW todo, Walks(at, todo, me.said), Queue(todo), Moved, me.at \notin {"start", "done"},
             at \notin {"start", "plan", "done"}, DefaultPrivilegesKnow',
             \A e \in Truth.exposed : Counts /\ DefaultPrivilegesPending(e) => DefaultPrivilegesPending(e)' \/ Done(e)
      PROVE  Common' /\ DefaultPrivilegesInv' /\ Plays
  <2>1. Shape' BY <1>u, <1>c, <1>s, Going
  <2>2. Meant' /\ \A e : Done(e)' <=> Done(e) BY <1>u, <1>t, <1>c, <1>s, Quiet DEF Walks
  <2>3. Session' BY <1>u, <1>c, <1>s, Moving DEF Walks
  <2>4. (Counts' => Counts) /\ Plays BY <1>s DEF Walks, Counts, Plays
  <2> QED BY <1>t, <1>s, <2>1, <2>2, <2>3, <2>4 DEF Common, DefaultPrivilegesInv
<1>e. /\ me' = DP!Ending(me, "skip") => Leaves
      /\ \A l : me' = DP!To(l) => Walks(l, me.todo, me.said) /\ me'.loc = me.loc
  BY <1>c DEF Shape, DP!Ending, DP!To, Leaves, Walks
\* Going on with several answers.
<1>m. ASSUME NEW at, NEW todo, NEW S, Walks(at, todo, me.said \cup S), Queue(todo), Moved, me.at \notin {"start", "done"},
             at \notin {"start", "plan", "done"}, DefaultPrivilegesKnow',
             \A a \in S : Meaning(a) /\ a.says # "clear",
             \A a \in S, b \in me.said : a.says = "leak" /\ b.on = a.on /\ b.arm = a.arm => b.says # "clear",
             \A e \in Truth.exposed : Counts /\ DefaultPrivilegesPending(e) =>
                \/ DefaultPrivilegesPending(e)' \/ Done(e)
                \/ e \in Truth.blind
                \/ \E a \in S : a.on = e.on /\ (fault = "none" /\ e \in Truth.provable => a.arm = e.arm /\ a.says = "leak")
      PROVE  Common' /\ DefaultPrivilegesInv' /\ Plays
  <2>1. Shape' BY <1>u, <1>c, <1>m, Going
  <2>2. /\ Meant'
        /\ \A e : Done(e) => Done(e)'
        /\ \A e : (\E a \in S : a.on = e.on) => Heard(e)'
        /\ \A e : (\E a \in S : a.on = e.on /\ a.arm = e.arm /\ a.says = "leak") => Done(e)'
    BY <1>u, <1>t, <1>c, <1>m, TellingAll DEF Walks
  <2>3. Session' BY <1>u, <1>c, <1>m, Moving DEF Walks
  <2>4. (Counts' => Counts) /\ Plays BY <1>m DEF Walks, Counts, Plays
  <2>5. \A e \in Truth.exposed : e \in Truth.blind => Done(e)' BY <1>u, <1>t, DefaultPrivilegesPoints DEF Done
  <2>6. ASSUME NEW e \in Truth.exposed, Counts, DefaultPrivilegesPending(e) PROVE DefaultPrivilegesPending(e)' \/ Done(e)'
    <3>1. CASE \E a \in S : a.on = e.on /\ (fault = "none" /\ e \in Truth.provable => a.arm = e.arm /\ a.says = "leak")
      <4>1. Heard(e)' BY <2>2, <3>1
      <4>2. fault = "none" /\ e \in Truth.provable => Done(e)' BY <2>2, <3>1
      <4>3. ~(fault = "none" /\ e \in Truth.provable) => Done(e)' BY <1>u, <1>t, <4>1 DEF Done
      <4> QED BY <4>2, <4>3
    <3> QED BY <1>m, <2>2, <2>5, <2>6, <3>1
  <2> QED BY <1>t, <1>m, <2>1, <2>2, <2>3, <2>4, <2>6 DEF Common, DefaultPrivilegesInv
<1>r. me.todo # <<>> => Target = world.targets[Current] /\ Current \in 1..Count BY <1>q DEF Target, Current
<1>y. /\ Failed.st \in {pg.st, IF pg.st = "open" THEN "aborted" ELSE pg.st}
      /\ AsRole(pg, "other").st = pg.st /\ Made(pg, "table").st = pg.st /\ (Live => Live \/ FALSE)
      /\ RolledBack(pg).st \in {"idle", "lost"} \/ RolledBack(pg).st = pg.st
  BY <1>c DEF Failed, AsRole, Made, RolledBack, Session, Proper, Sound
\* A step that says nothing and stays with the table.
<1>f. ASSUME NEW at \in {"whoami", "acl", "next", "begin", "role", "create", "read", "undo"}, Walks(at, me.todo, me.said), Moved,
             DOMAIN me'.loc = DOMAIN me.loc, me'.loc.as = me.loc.as,
             me.at \in {"plan", "whoami", "acl", "next", "begin", "role", "create", "read"},
             me.at \in {"plan", "whoami"} <=> at \in {"whoami", "acl"},
             me.at = "acl" <=> at = "next", me.at = "next" <=> at = "begin",
             me.at # "acl" => me'.loc.others = me.loc.others, me.at = "acl" => (me'.loc.others => world.others),
             at = "next" => (~world.oldCatalog /\ fault # "lost" /\ world.others => me'.loc.others),
             at \in {"whoami", "acl", "next", "begin"} => pg'.st \in {"idle", "lost"},
             at \in {"role", "create", "read"} /\ fault = "none" => Live',
             at = "begin" => me.todo # <<>>,
             at = "role" => me.loc.as = "other",
             at \in {"read", "undo"} => Target[me.loc.as] # "denied"
      PROVE  Common' /\ DefaultPrivilegesInv' /\ Plays
  <2>1. Todo' = Todo /\ Current' = Current /\ Target' = Target BY <1>u, <1>f DEF Walks, Todo, Current, Target
  <2>2. DefaultPrivilegesKnow'
    <3>1. Unclear' BY <1>c, <1>f DEF DefaultPrivilegesKnow, Walks, Unclear
    <3> QED BY <1>u, <1>c, <1>k, <1>f, <2>1, <3>1 DEF DefaultPrivilegesKnow, Walks, Whole, Count
  <2>3. \A e \in Truth.exposed : DefaultPrivilegesPending(e) => DefaultPrivilegesPending(e)'
    <3>1. CASE at \in {"whoami", "acl"} BY <1>f, <3>1 DEF DefaultPrivilegesPending, Walks
    <3>2. CASE at = "next"
      <4>1. me.at = "acl" BY <1>f, <3>2
      <4>2. \A e \in Truth.exposed : e.on \in Todo'
        <5>1. Whole(me.todo) BY <1>c, <4>1 DEF DefaultPrivilegesKnow
        <5> QED BY <1>c, <2>1, <5>1, DefaultPrivilegesPoints DEF Todo, Elems, Whole, Shape
      <4> QED BY <1>f, <3>2, <4>2 DEF DefaultPrivilegesPending, Walks
    <3>3. CASE at \in {"begin", "role", "create", "read", "undo"}
      <4>1. me.at \in {"next", "begin", "role", "create", "read"} BY <1>f, <3>3
      <4>2. at = "begin" => me.loc.as = "conn" BY <1>c, <1>f DEF DefaultPrivilegesKnow
      <4> QED BY <1>f, <2>1, <3>3, <4>1, <4>2 DEF DefaultPrivilegesPending, Walks
    <3> QED BY <1>f, <3>1, <3>2, <3>3
  <2> QED BY <1>s, <1>c, <1>f, <2>2, <2>3 DEF Shape
\* The table is done with: the other role's, or the next schema's.
<1>d. ASSUME NEW S, Moved, me.at \in {"begin", "undo", "failed"}, pg'.st \in {"idle", "lost"},
             \/ Walks("begin", me.todo, me.said \cup S) /\ me.loc.as = "conn" /\ me.loc.others /\ me'.loc.as = "other"
             \/ Walks("next", Tail(me.todo), me.said \cup S) /\ ~(me.loc.as = "conn" /\ me.loc.others) /\ me'.loc.as = "conn",
             DOMAIN me'.loc = DOMAIN me.loc, me'.loc.others = me.loc.others,
             \A a \in S : Meaning(a) /\ a.says # "clear",
             Probed \in Truth.exposed => Done(Probed) \/ Probed \in Truth.blind \/
               \E a \in S : a.on = Current /\ (fault = "none" /\ Probed \in Truth.provable => a.arm = me.loc.as /\ a.says = "leak")
      PROVE  Common' /\ DefaultPrivilegesInv' /\ Plays
  <2>1. me.todo # <<>> /\ Unclear /\ me.loc.as \in {"conn", "other"} /\ (me.loc.others => world.others)
        /\ (~world.oldCatalog /\ fault # "lost" /\ world.others => me.loc.others)
    BY <1>c, <1>d DEF DefaultPrivilegesKnow
  <2>2. Unclear' BY <1>d, <2>1 DEF Unclear, Walks
  <2>3. DefaultPrivilegesKnow' BY <1>u, <1>c, <1>k, <1>d, <2>1, <2>2 DEF DefaultPrivilegesKnow, Walks
  <2>4. ASSUME NEW e \in Truth.exposed, DefaultPrivilegesPending(e)
        PROVE  \/ DefaultPrivilegesPending(e)' \/ Done(e) \/ e \in Truth.blind
               \/ \E a \in S : a.on = e.on /\ (fault = "none" /\ e \in Truth.provable => a.arm = e.arm /\ a.says = "leak")
    <3>1. /\ e.on \in Todo /\ ~(e.on = Current /\ e.arm = "conn" /\ me.loc.as = "other")
          /\ e = [on |-> e.on, arm |-> e.arm] /\ e.arm \in {"conn", "other"} /\ (e.arm = "other" => world.others)
      BY <1>d, <2>4, DefaultPrivilegesPoints DEF DefaultPrivilegesPending
    <3>2. CASE e.on = Current /\ e.arm = me.loc.as
      <4>1. e = Probed BY <3>1, <3>2 DEF Probed
      <4> QED BY <1>d, <2>4, <3>2, <4>1
    <3>3. CASE e.on # Current
      <4>1. CASE Walks("begin", me.todo, me.said \cup S)
        <5>1. Todo' = Todo /\ Current' = Current BY <4>1 DEF Walks, Todo, Current
        <5> QED BY <3>1, <3>3, <4>1, <5>1 DEF DefaultPrivilegesPending, Walks
      <4>2. CASE Walks("next", Tail(me.todo), me.said \cup S)
        <5>1. Todo' = Todo \ {Current} BY <1>q, <2>1, <4>2 DEF Walks, Todo
        <5> QED BY <3>1, <3>3, <4>2, <5>1 DEF DefaultPrivilegesPending, Walks
      <4> QED BY <1>d, <4>1, <4>2
    <3>4. CASE e.on = Current /\ e.arm = "other" /\ me.loc.as = "conn"
      <4>1. CASE Walks("begin", me.todo, me.said \cup S)
        <5>1. Todo' = Todo /\ Current' = Current BY <4>1 DEF Walks, Todo, Current
        <5> QED BY <3>1, <3>4, <4>1, <5>1 DEF DefaultPrivilegesPending, Walks
      <4>2. CASE ~me.loc.others
        <5>1. world.oldCatalog \/ fault = "lost" BY <2>1, <3>1, <3>4, <4>2
        <5> QED BY <2>4, <3>4, <5>1, DefaultPrivilegesPoints
      <4> QED BY <1>d, <3>4, <4>1, <4>2
    <3> QED BY <2>1, <3>1, <3>2, <3>3, <3>4
  <2>5. \A a \in S, b \in me.said : a.says = "leak" /\ b.on = a.on /\ b.arm = a.arm => b.says # "clear"
    BY <2>1 DEF Unclear
  <2>6. Queue(me.todo) BY <1>c DEF Shape
  <2>7. CASE Walks("begin", me.todo, me.said \cup S) BY <1>m, <1>d, <2>3, <2>4, <2>5, <2>6, <2>7
  <2>8. CASE Walks("next", Tail(me.todo), me.said \cup S) BY <1>m, <1>q, <1>d, <2>1, <2>3, <2>4, <2>5, <2>8
  <2> QED BY <1>d, <2>7, <2>8
\* From where it stands, with one more answer or none.
<1>n. ASSUME NEW m, NEW S, NEW says, S = {} \/ S = {[on |-> Current, arm |-> me.loc.as, says |-> says]}, says \in {"leak", "note"},
             DOMAIN m = DOMAIN me, m.todo = me.todo, m.said = me.said \cup S, m.thrown = me.thrown, m.result = me.result, m.loc = me.loc,
             \/ me' = DP!NextProbe(m)
             \/ me' = [DP!NextProbe(m) EXCEPT !.loc.scanned = TRUE],
             Moved, me.at \in {"begin", "undo", "failed"}, pg'.st \in {"idle", "lost"},
             S # {} /\ says = "leak" => Probed \in Truth.exposed,
             Probed \in Truth.exposed => Done(Probed) \/ (S # {} /\ (says = "leak" \/ fault # "none" \/ Probed \notin Truth.provable))
      PROVE  Common' /\ DefaultPrivilegesInv' /\ Plays
  <2> DEFINE m1 == [m EXCEPT !.at = "begin", !.loc.as = "other"]
             m2 == [[m EXCEPT !.todo = Tail(@), !.at = "next"] EXCEPT !.loc.as = "conn"]
             m3 == [m1 EXCEPT !.loc.scanned = TRUE]
             m4 == [m2 EXCEPT !.loc.scanned = TRUE]
  <2>1. \/ me.loc.as = "conn" /\ me.loc.others /\ me' \in {m1, m3}
        \/ ~(me.loc.as = "conn" /\ me.loc.others) /\ me' \in {m2, m4}
    BY <1>n DEF DP!NextProbe, DP!Onward
  <2>2. /\ DOMAIN m1 = DOMAIN me /\ m1.at = "begin" /\ m1.todo = me.todo /\ m1.said = me.said \cup S /\ m1.thrown = me.thrown
        /\ m1.result = me.result /\ DOMAIN m1.loc = DOMAIN me.loc /\ m1.loc.as = "other" /\ m1.loc.others = me.loc.others
    BY <1>c, <1>k, <1>n DEF Shape
  <2>3. /\ DOMAIN m2 = DOMAIN me /\ m2.at = "next" /\ m2.todo = Tail(me.todo) /\ m2.said = me.said \cup S /\ m2.thrown = me.thrown
        /\ m2.result = me.result /\ DOMAIN m2.loc = DOMAIN me.loc /\ m2.loc.as = "conn" /\ m2.loc.others = me.loc.others
    BY <1>c, <1>k, <1>n DEF Shape
  <2> HIDE DEF m1, m2
  <2>4. /\ DOMAIN m3 = DOMAIN me /\ m3.at = "begin" /\ m3.todo = me.todo /\ m3.said = me.said \cup S /\ m3.thrown = me.thrown
        /\ m3.result = me.result /\ DOMAIN m3.loc = DOMAIN me.loc /\ m3.loc.as = "other" /\ m3.loc.others = me.loc.others
    BY <1>c, <1>k, <2>2 DEF Shape
  <2>5. /\ DOMAIN m4 = DOMAIN me /\ m4.at = "next" /\ m4.todo = Tail(me.todo) /\ m4.said = me.said \cup S /\ m4.thrown = me.thrown
        /\ m4.result = me.result /\ DOMAIN m4.loc = DOMAIN me.loc /\ m4.loc.as = "conn" /\ m4.loc.others = me.loc.others
    BY <1>c, <1>k, <2>3 DEF Shape
  <2> HIDE DEF m3, m4
  <2>6. /\ \/ Walks("begin", me.todo, me.said \cup S) /\ me.loc.as = "conn" /\ me.loc.others /\ me'.loc.as = "other"
           \/ Walks("next", Tail(me.todo), me.said \cup S) /\ ~(me.loc.as = "conn" /\ me.loc.others) /\ me'.loc.as = "conn"
        /\ DOMAIN me'.loc = DOMAIN me.loc /\ me'.loc.others = me.loc.others
    BY <2>1, <2>2, <2>3, <2>4, <2>5 DEF Walks
  <2>7. \A a \in S : Meaning(a) /\ a.says # "clear"
    <3>1. ASSUME NEW a \in S PROVE a = [on |-> Current, arm |-> me.loc.as, says |-> says] BY <1>n
    <3> QED BY <1>n, <3>1 DEF Meaning, Key, Probed
  <2>8. S # {} => \E a \in S : a.on = Current /\ a.arm = me.loc.as /\ a.says = says BY <1>n
  <2> QED BY <1>d, <1>n, <2>6, <2>7, <2>8
\* A table that could not be made is noted; then its transaction is rolled back.
<1>v. ASSUME me' = [DP!Said(me, Current, me.loc.as, "note") EXCEPT !.at = "failed"], pg' = Failed, me.at \in {"role", "create", "read"},
             fault = "none" => Probed \notin Truth.provable
      PROVE  Common' /\ DefaultPrivilegesInv' /\ Plays
  <2>1. Walks("failed", me.todo, me.said \cup {[on |-> Current, arm |-> me.loc.as, says |-> "note"]}) /\ me'.loc = me.loc
    BY <1>c, <1>v DEF DP!Said, Walks, Shape
  <2>2. Shape' BY <1>u, <1>c, <1>v, <2>1, Going DEF Shape
  <2>3. Meant' /\ Keeps /\ \A e : e.on = Current /\ (fault # "none" \/ e \notin Truth.provable) => Done(e)'
    BY <1>u, <1>t, <1>c, <2>1, Noting DEF Walks
  <2>4. Session' BY <1>u, <1>c, <1>v, <2>1, Moving DEF Moved, Walks
  <2>5. Todo' = Todo /\ Current' = Current /\ Target' = Target /\ Probed' = Probed BY <1>u, <2>1 DEF Walks, Todo,
      Current, Target, Probed
  <2>6. \A e \in Truth.exposed : e = Probed => Done(e)'
    <3>1. Probed.on = Current BY DEF Probed
    <3> QED BY <1>v, <2>3, <3>1
  <2>7. DefaultPrivilegesKnow' BY <1>u, <1>t, <1>c, <1>k, <1>v, <2>1, <2>3, <2>5, <2>6 DEF DefaultPrivilegesKnow,
      Walks, Keeps
  <2>8. \A e : DefaultPrivilegesPending(e) => DefaultPrivilegesPending(e)' BY <1>v, <2>1, <2>5
      DEF DefaultPrivilegesPending, Walks
  <2> QED BY <1>t, <1>c, <1>v, <2>1, <2>2, <2>3, <2>4, <2>7, <2>8 DEF Common, DefaultPrivilegesInv, Keeps, Counts,
      Walks, Plays
<1>1. CASE DP!ReadMitigation
  <2>1. me.at = "plan" /\ pg' \in {pg, Failed} /\ me' = DP!To("whoami") BY <1>1, <1>o DEF DP!ReadMitigation,
      DP!Attempt, DP!Do
  <2>2. Walks("whoami", me.todo, me.said) /\ me'.loc = me.loc /\ Moved BY <1>e, <2>1 DEF Moved
  <2>3. pg'.st \in {"idle", "lost"} BY <1>c, <1>y, <2>1 DEF DefaultPrivilegesKnow
  <2> QED BY <1>f, <2>1, <2>2, <2>3
<1>2. CASE DP!WhoAmI
  <2>1. me.at = "whoami" /\ pg' \in {pg, Failed} /\ me' = DP!To("acl") BY <1>2, <1>o DEF DP!WhoAmI, DP!Attempt, DP!Do
  <2>2. Walks("acl", me.todo, me.said) /\ me'.loc = me.loc /\ Moved BY <1>e, <2>1 DEF Moved
  <2>3. pg'.st \in {"idle", "lost"} BY <1>c, <1>y, <2>1 DEF DefaultPrivilegesKnow
  <2> QED BY <1>f, <2>1, <2>2, <2>3
<1>3. CASE DP!DefaultAcl
  <2> DEFINE others == world.others
             m1 == [DP!To("next") EXCEPT !.loc.others = others]
             m2 == DP!Said(DP!To("next"), 0, "acl", "note")
             a == [on |-> 0, arm |-> "acl", says |-> "note"]
  <2>1. /\ me.at = "acl"
        /\ \/ pg' = pg /\ Live /\ ~world.oldCatalog /\ me' = m1
           \/ pg' = Failed /\ (~Live \/ world.oldCatalog) /\ me' = m2
    BY <1>3, <1>o DEF DP!DefaultAcl, DP!Attempt, DP!Do
  <2>2. /\ pg.st \in {"idle", "lost"} /\ pg'.st \in {"idle", "lost"} /\ (fault # "lost" => Live)
    BY <1>c, <1>y, <2>1 DEF DefaultPrivilegesKnow, Session, Live
  <2>3. /\ DOMAIN m1 = DOMAIN me /\ m1.at = "next" /\ m1.todo = me.todo /\ m1.said = me.said /\ m1.thrown = me.thrown
        /\ m1.result = me.result /\ DOMAIN m1.loc = DOMAIN me.loc /\ m1.loc.as = me.loc.as /\ m1.loc.others = others
    <3> HIDE DEF others
    <3> QED BY <1>c, <1>k DEF DP!To, Shape
  <2>4. /\ DOMAIN m2 = DOMAIN me /\ m2.at = "next" /\ m2.todo = me.todo /\ m2.said = me.said \cup {a} /\ m2.thrown = me.thrown
        /\ m2.result = me.result /\ m2.loc = me.loc
    BY <1>c DEF DP!To, DP!Said, Shape
  <2> HIDE DEF m1, m2
  <2>5. CASE pg' = pg /\ Live /\ ~world.oldCatalog /\ me' = m1
    <3>1. Walks("next", me.todo, me.said) /\ Moved BY <2>3, <2>5 DEF Walks, Moved
    <3> QED BY <1>f, <2>1, <2>2, <2>3, <2>5, <3>1
  <2>6. CASE pg' = Failed /\ (~Live \/ world.oldCatalog) /\ me' = m2
    <3>1. PICK S : S = {a} OBVIOUS
    <3>2. Walks("next", me.todo, me.said \cup S) /\ me'.loc = me.loc /\ Moved BY <2>4, <2>6, <3>1 DEF Walks, Moved
    <3>3. \A x \in S : Meaning(x) /\ x.says # "clear" /\ x.says # "leak" BY <3>1 DEF Meaning
    <3>4. Unclear' BY <1>c, <3>2, <3>3 DEF DefaultPrivilegesKnow, Unclear, Walks
    <3>5. DefaultPrivilegesKnow' BY <1>u, <1>c, <2>1, <2>2, <2>6, <3>2, <3>4 DEF DefaultPrivilegesKnow, Walks
    <3>6. \A e \in Truth.exposed : DefaultPrivilegesPending(e)'
      <4>1. Whole(me.todo) /\ Queue(me.todo) BY <1>c, <2>1 DEF DefaultPrivilegesKnow, Shape
      <4>2. \A e \in Truth.exposed : e.on \in Todo BY <1>c, <4>1, DefaultPrivilegesPoints DEF Todo, Elems, Whole,
          Shape
      <4>3. Todo' = Todo BY <3>2 DEF Todo, Walks
      <4> QED BY <3>2, <4>2, <4>3 DEF DefaultPrivilegesPending, Walks
    <3> QED BY <1>m, <1>c, <2>1, <3>2, <3>3, <3>5, <3>6 DEF Shape
  <2> QED BY <2>1, <2>5, <2>6
<1>4. CASE DP!NextSchema
  <2>1. /\ me.at = "next" /\ pg' = pg
        /\ \/ me.todo # <<>> /\ me' = DP!To("begin")
           \/ me.todo = <<>> /\ me' = DP!To("close")
           \/ me.todo = <<>> /\ me' = DP!Ending(me, "skip")
    BY <1>4, <1>o DEF DP!NextSchema, DP!Do
  <2>2. CASE me.todo # <<>> /\ me' = DP!To("begin")
    <3>1. Walks("begin", me.todo, me.said) /\ me'.loc = me.loc /\ Moved BY <1>e, <2>1, <2>2 DEF Moved
    <3>2. pg'.st \in {"idle", "lost"} BY <1>c, <2>1 DEF DefaultPrivilegesKnow
    <3> QED BY <1>f, <2>1, <2>2, <3>1, <3>2
  <2>3. CASE me.todo = <<>> /\ me' = DP!To("close")
    <3>1. Walks("close", me.todo, me.said) /\ me'.loc = me.loc BY <1>e, <2>3
    <3>2. DefaultPrivilegesKnow' BY <1>u, <1>c, <2>1, <3>1 DEF DefaultPrivilegesKnow, Walks, Unclear
    <3>3. \A e : ~DefaultPrivilegesPending(e) BY <2>1, <2>3 DEF DefaultPrivilegesPending, Todo, Elems
    <3> QED BY <1>s, <1>c, <2>1, <3>1, <3>2, <3>3 DEF Moved, Shape
  <2>4. CASE me.todo = <<>> /\ me' = DP!Ending(me, "skip")
    <3>1. PICK S : S = {} OBVIOUS
    <3>2. /\ DOMAIN me' = DOMAIN me /\ me'.at = "close" /\ me'.todo = me.todo /\ me'.said = me.said \cup S
          /\ me'.thrown = me.thrown /\ me'.result = "skip" /\ me'.loc = me.loc
      BY <1>c, <2>4, <3>1 DEF DP!Ending, Shape
    <3>5. Moved BY <2>1 DEF Moved
    <3>6. (\A a \in S : Meaning(a) /\ a.says # "clear") /\ me.at \notin {"start", "done"} BY <2>1, <3>1
    <3>3. Common' /\ ~Counts' /\ Plays /\ (Unclear => Unclear')
      <4> HIDE DEF Common
      <4> QED BY <1>u, <1>t, <3>1, <3>2, <3>5, <3>6, Dropping
    <3>4. DefaultPrivilegesKnow' BY <1>u, <1>c, <2>1, <3>2, <3>3 DEF DefaultPrivilegesKnow
    <3> QED BY <3>3, <3>4 DEF DefaultPrivilegesInv
  <2> QED BY <2>1, <2>2, <2>3, <2>4
<1>5. CASE DP!Begin
  <2>1. /\ me.at = "begin"
        /\ \/ Live /\ pg' = Began(pg) /\ me' = DP!To(IF me.loc.as = "conn" THEN "create" ELSE "role")
           \/ ~Live /\ pg' = Failed /\ me' = DP!NextProbe(DP!Said(me, Current, me.loc.as, "note"))
    BY <1>5, <1>b, <1>o DEF DP!Begin, DP!Unproven, DP!Attempt, DP!Do
  <2>2. me.todo # <<>> /\ pg.st \in {"idle", "lost"} /\ me.loc.as \in {"conn", "other"} BY <1>c, <2>1
      DEF DefaultPrivilegesKnow
  <2>3. CASE Live /\ pg' = Began(pg) /\ me' = DP!To(IF me.loc.as = "conn" THEN "create" ELSE "role")
    <3>1. PICK at \in {"create", "role"} : at = (IF me.loc.as = "conn" THEN "create" ELSE "role") OBVIOUS
    <3>2. me' = DP!To(at) BY <2>3, <3>1
    <3>3. Walks(at, me.todo, me.said) /\ me'.loc = me.loc /\ Moved BY <1>e, <2>3, <3>2 DEF Moved
    <3>4. Live' BY <1>c, <2>3 DEF Began, Live, Session, Proper, Sound
    <3>5. at = "role" => me.loc.as = "other" BY <2>2, <3>1
    <3> QED BY <1>f, <2>1, <2>2, <3>3, <3>4, <3>5
  <2>4. CASE ~Live /\ pg' = Failed /\ me' = DP!NextProbe(DP!Said(me, Current, me.loc.as, "note"))
    <3>1. PICK S : S = {[on |-> Current, arm |-> me.loc.as, says |-> "note"]} OBVIOUS
    <3>2. PICK m : m = DP!Said(me, Current, me.loc.as, "note") OBVIOUS
    <3>3. /\ DOMAIN m = DOMAIN me /\ m.todo = me.todo /\ m.said = me.said \cup S /\ m.thrown = me.thrown
          /\ m.result = me.result /\ m.loc = me.loc
      BY <1>c, <3>1, <3>2 DEF DP!Said, Shape
    <3>4. fault # "none" /\ pg'.st \in {"idle", "lost"} BY <1>c, <1>y, <2>2, <2>4 DEF Live, Session
    <3>5. S # {} BY <3>1
    <3> QED BY <1>n, <2>1, <2>4, <3>1, <3>2, <3>3, <3>4, <3>5 DEF Moved
  <2> QED BY <2>1, <2>3, <2>4
<1>6. CASE DP!AssumeCreator
  <2>1. /\ me.at = "role"
        /\ \/ Live /\ pg' = AsRole(pg, "other") /\ me' = DP!To("create")
           \/ (~Live \/ ~world.member) /\ pg' = Failed /\ me' = [DP!Said(me, Current, me.loc.as, "note") EXCEPT !.at = "failed"]
    BY <1>6, <1>b, <1>o DEF DP!AssumeCreator, DP!Unproven, DP!Attempt, DP!Do
  <2>2. me.loc.as = "other" /\ (fault = "none" => Live) BY <1>c, <2>1 DEF DefaultPrivilegesKnow
  <2>3. CASE Live /\ pg' = AsRole(pg, "other") /\ me' = DP!To("create")
    <3>1. Walks("create", me.todo, me.said) /\ me'.loc = me.loc /\ Moved BY <1>e, <2>3 DEF Moved, Roles
    <3>2. Live' BY <1>y, <2>3 DEF Live
    <3> QED BY <1>f, <2>1, <3>1, <3>2
  <2>4. CASE (~Live \/ ~world.member) /\ pg' = Failed /\ me' = [DP!Said(me, Current, me.loc.as, "note") EXCEPT !.at = "failed"]
    <3>1. fault = "none" => Probed \notin Truth.provable
      <4>1. Probed.arm = "other" BY <2>2 DEF Probed
      <4> QED BY <2>2, <2>4, <4>1, DefaultPrivilegesPoints
    <3> QED BY <1>v, <2>1, <2>4, <3>1
  <2> QED BY <2>1, <2>3, <2>4
<1>7. CASE DP!ProbeCreate
  <2>1. /\ me.at = "create"
        /\ \/ Live /\ Target[me.loc.as] # "denied" /\ pg' = Made(pg, "table") /\ me' = DP!To("read")
           \/ /\ ~Live \/ Target[me.loc.as] = "denied"
              /\ pg' = Failed /\ me' = [DP!Said(me, Current, me.loc.as, "note") EXCEPT !.at = "failed"]
    BY <1>7, <1>b, <1>o DEF DP!ProbeCreate, DP!Makes, DP!Unproven, DP!Attempt, DP!Do
  <2>2. (fault = "none" => Live) /\ me.todo # <<>> BY <1>c, <2>1 DEF DefaultPrivilegesKnow
  <2>3. CASE Live /\ Target[me.loc.as] # "denied" /\ pg' = Made(pg, "table") /\ me' = DP!To("read")
    <3>1. Walks("read", me.todo, me.said) /\ me'.loc = me.loc /\ Moved BY <1>e, <2>3 DEF Moved
    <3>2. Live' BY <1>y, <2>3 DEF Live
    <3> QED BY <1>f, <2>1, <2>3, <3>1, <3>2
  <2>4. CASE /\ ~Live \/ Target[me.loc.as] = "denied"
             /\ pg' = Failed /\ me' = [DP!Said(me, Current, me.loc.as, "note") EXCEPT !.at = "failed"]
    <3>1. fault = "none" => Probed \notin Truth.provable
      <4>1. Probed.on = Current /\ Probed.arm = me.loc.as BY DEF Probed
      <4> QED BY <1>r, <2>2, <2>4, <4>1, DefaultPrivilegesPoints
    <3> QED BY <1>v, <2>1, <2>4, <3>1
  <2> QED BY <2>1, <2>3, <2>4
<1>8. CASE DP!ProbeAcl
  <2>1. /\ me.at = "read"
        /\ \/ pg' = pg /\ me' = DP!To("undo")
           \/ ~Live /\ pg' = Failed /\ me' = [DP!Said(me, Current, me.loc.as, "note") EXCEPT !.at = "failed"]
    BY <1>8, <1>b, <1>o DEF DP!ProbeAcl, DP!Unproven, DP!Attempt, DP!Do
  <2>2. (fault = "none" => Live) /\ Target[me.loc.as] # "denied" BY <1>c, <2>1 DEF DefaultPrivilegesKnow
  <2>3. CASE pg' = pg /\ me' = DP!To("undo")
    <3>1. Walks("undo", me.todo, me.said) /\ me'.loc = me.loc /\ Moved BY <1>e, <2>3 DEF Moved
    <3> QED BY <1>f, <2>1, <2>2, <3>1
  <2> QED BY <1>v, <2>1, <2>2, <2>3
<1>9. CASE DP!UndoProbe
  <2> DEFINE says == DP!ClassifyInherited(Target[me.loc.as])
             base == IF says = "silent" THEN me ELSE DP!Said(me, Current, me.loc.as, says)
  <2>1. /\ pg' = RolledBack(pg)
        /\ \/ me.at = "undo" /\ me' = [DP!NextProbe(base) EXCEPT !.loc.scanned = TRUE]
           \/ me.at = "failed" /\ me' = DP!NextProbe(me)
    BY <1>9, <1>b, <1>o DEF DP!UndoProbe, DP!Makes, DP!Concluded, DP!Do
  <2>2. pg'.st \in {"idle", "lost"} /\ Moved
    BY <1>c, <2>1 DEF Moved, RolledBack, Session, Proper, Sound
  <2>3. CASE me.at = "failed" /\ me' = DP!NextProbe(me)
    <3>1. PICK S : S = {} OBVIOUS
    <3>2. me.said \cup S = me.said BY <3>1
    <3>3. PICK says0 \in {"note"} : TRUE OBVIOUS
    <3>4. Probed \in Truth.exposed => Done(Probed) BY <1>c, <2>3 DEF DefaultPrivilegesKnow
    <3> QED BY <1>n, <2>2, <2>3, <3>1, <3>2, <3>3, <3>4
  <2>4. CASE me.at = "undo" /\ me' = [DP!NextProbe(base) EXCEPT !.loc.scanned = TRUE]
    <3>1. me.todo # <<>> /\ Target[me.loc.as] # "denied" BY <1>c, <2>4 DEF DefaultPrivilegesKnow
    <3>2. Probed \in Truth.exposed <=> says = "leak"
      <4>1. Probed = [on |-> Current, arm |-> me.loc.as] /\ Probed.on = Current /\ Probed.arm = me.loc.as
        BY DEF Probed
      <4>2. me.loc.as \in {"conn", "other"} /\ (me.loc.as = "other" => world.others) BY <1>c DEF DefaultPrivilegesKnow
      <4> QED BY <1>r, <3>1, <4>1, <4>2, DefaultPrivilegesPoints DEF DP!ClassifyInherited
    <3>3. says \in {"leak", "note", "silent"} BY DEF DP!ClassifyInherited
    <3> HIDE DEF says
    <3>4. PICK S : S = IF says = "silent" THEN {} ELSE {[on |-> Current, arm |-> me.loc.as, says |-> says]} OBVIOUS
    <3>5. PICK m : m = base OBVIOUS
    <3>6. /\ DOMAIN m = DOMAIN me /\ m.todo = me.todo /\ m.said = me.said \cup S /\ m.thrown = me.thrown
          /\ m.result = me.result /\ m.loc = me.loc
      <4>1. CASE says = "silent" BY <3>4, <3>5, <4>1
      <4>2. CASE says # "silent" BY <1>c, <3>4, <3>5, <4>2 DEF DP!Said, Shape
      <4> QED BY <4>1, <4>2
    <3>7. CASE says = "silent"
      <4>1. PICK says0 \in {"note"} : TRUE OBVIOUS
      <4> HIDE DEF base
      <4> QED BY <1>n, <2>2, <2>4, <3>2, <3>4, <3>5, <3>6, <3>7, <4>1
    <3>8. CASE says # "silent"
      <4>1. says \in {"leak", "note"} /\ S # {} /\ S = {[on |-> Current, arm |-> me.loc.as, says |-> says]}
        BY <3>3, <3>4, <3>8
      <4> HIDE DEF base
      <4>2. PICK says0 : says0 = says OBVIOUS
      <4> QED BY <1>n, <2>2, <2>4, <3>2, <3>5, <3>6, <4>1, <4>2
    <3> QED BY <3>7, <3>8
  <2> QED BY <2>1, <2>3, <2>4
<1>10. CASE DP!Connect
  <2>1. /\ me.at = "start" /\ Common' /\ Plays /\ me'.loc = me.loc /\ me'.said = {} /\ me'.todo = me.todo
        /\ \/ me'.at = "plan" /\ pg' = [pg EXCEPT !.st = "idle"] /\ pg'.st = "idle" /\ Whole(me'.todo)
           \/ me'.at = "done" /\ ~Counts' /\ pg' = pg
    BY <1>b, <1>t, <1>10, Connects
  <2>2. DefaultPrivilegesKnow' BY <1>u, <1>c, <2>1 DEF DefaultPrivilegesKnow, Unclear, Whole, Count
  <2>3. Counts' => \A e : DefaultPrivilegesPending(e)' BY <2>1 DEF DefaultPrivilegesPending
  <2> QED BY <2>1, <2>2, <2>3 DEF DefaultPrivilegesInv
<1>11. CASE DP!Disconnect
  <2>1. /\ me.at = "close" /\ Common' /\ Plays /\ me'.at = "done"
        /\ me'.loc = me.loc /\ me'.said = me.said /\ me'.todo = me.todo /\ (Counts' => Counts)
    BY <1>b, <1>t, <1>11, Disconnects
  <2>2. (\A e : Done(e)' <=> Done(e)) /\ (Unclear' <=> Unclear) BY <1>u, <1>t, <1>c, <2>1, Quiet
  <2>3. DefaultPrivilegesKnow' BY <1>u, <1>c, <2>1, <2>2 DEF DefaultPrivilegesKnow, Whole, Count
  <2>4. \A e : ~DefaultPrivilegesPending(e) BY <2>1 DEF DefaultPrivilegesPending
  <2> QED BY <1>t, <2>1, <2>2, <2>3, <2>4 DEF DefaultPrivilegesInv
<1> QED BY <1>1, <1>2, <1>3, <1>4, <1>5, <1>6, <1>7, <1>8, <1>9, <1>10, <1>11 DEF DP!Next, DP!Check, DP!Run

\* So does a fault, whenever it strikes.
LEMMA DefaultPrivilegesStruck ==
  ASSUME Common, DefaultPrivilegesInv, world.guard = "default-privileges", Drop \/ Cancel
  PROVE  Common' /\ DefaultPrivilegesInv'
<1>1. world' = world /\ fault = "none" BY DEF Drop, Cancel
<1>2. Truth'.exposed = Truth.exposed /\ Truth.blind \subseteq Truth'.blind /\ Truth.spurious \subseteq Truth'.spurious
  <2>1. Truth = DP!Truth /\ Truth' = DP!Truth' BY <1>1 DEF Truth
  <2>2. DP!Exposed' = DP!Exposed BY <1>1 DEF DP!Exposed
  <2>3. DP!Blind \subseteq DP!Blind' BY <1>1, <2>2 DEF DP!Blind
  <2>4. DP!Spurious \subseteq DP!Spurious' BY <1>1 DEF DP!Spurious
  <2> QED BY <2>1, <2>2, <2>3, <2>4 DEF DP!Truth
<1>3. /\ me' = me /\ fault' # "none" /\ Common'
      /\ \/ fault' = "lost" /\ pg'.st = "lost" /\ pg'.who = "nobody" /\ pg'.saves = <<>>
         \/ fault' = "cancelled" /\ pg.st = "open" /\ pg'.st = "aborted" /\ pg' = Failed
      /\ \A e : Done(e) => Done(e)'
      /\ \A k, x : Untold(k, x)' <=> Untold(k, x)
      /\ Unclear' <=> Unclear
  BY <1>2, Striking
<1>4. DefaultPrivilegesKnow' BY <1>1, <1>3, <1>2 DEF DefaultPrivilegesInv, DefaultPrivilegesKnow, Todo, Probed,
    Current, Target, Live, Whole, Count
<1>5. \A e : DefaultPrivilegesPending(e) => DefaultPrivilegesPending(e)' BY <1>1, <1>3 DEF DefaultPrivilegesPending,
    Todo, Current
<1> QED BY <1>2, <1>3, <1>4, <1>5 DEF DefaultPrivilegesInv, Counts

\* Default-privileges begins so.
LEMMA DefaultPrivilegesBegins == ASSUME DP!Init PROVE Common /\ DefaultPrivilegesInv /\ world.guard = "default-privileges"
<1>1. Begins("default-privileges") /\ me.loc = [as |-> "conn", others |-> FALSE, scanned |-> FALSE]
  BY WorldAssumption DEF Names, Begins, Whole, Count, Closed, DP!Init, DP!Enter, DP!Entered, DP!Closed
<1>2. Common BY <1>1, Beginning DEF Names
<1>3. DefaultPrivilegesKnow BY <1>1 DEF DefaultPrivilegesKnow, Begins, Unclear
<1> QED BY <1>1, <1>2, <1>3 DEF DefaultPrivilegesInv, DefaultPrivilegesPending, Begins

\* A step of nobody keeps it.
LEMMA DefaultPrivilegesStays ==
  ASSUME Common, DefaultPrivilegesInv, world.guard = "default-privileges", UNCHANGED vars
  PROVE  Common' /\ DefaultPrivilegesInv'
<1>1. world' = world /\ fault' = fault /\ pg' = pg /\ me' = me BY DEF vars
<1>2. Truth' = Truth BY <1>1, DefaultPrivilegesSame
<1>3. Common' /\ (\A e : Done(e)' <=> Done(e)) /\ (Counts' <=> Counts) BY <1>1, <1>2, Resting
<1>4. DefaultPrivilegesKnow' /\ (\A e : DefaultPrivilegesPending(e)' <=> DefaultPrivilegesPending(e))
  BY <1>1, <1>2 DEF DefaultPrivilegesInv, DefaultPrivilegesKnow, DefaultPrivilegesPending, Unclear, Whole, Live,
      Target, Probed, Done, Todo, Current,
           Count, Heard, Found, Elems, Lists, Queue
<1> QED BY <1>2, <1>3, <1>4 DEF DefaultPrivilegesInv

\* At the end nothing is pending, and a question is a target and an arm.
LEMMA DefaultPrivilegesEnds ==
  ASSUME Common, world.guard = "default-privileges", DefaultPrivilegesInv, me.at = "done", Counts
  PROVE  /\ \A e \in Truth.exposed : e = Key(e) /\ Done(e)
         /\ Truth.provable \subseteq Truth.exposed
<1>1. \A e : ~DefaultPrivilegesPending(e) BY DEF DefaultPrivilegesPending
<1> QED BY <1>1, DefaultPrivilegesPoints DEF DefaultPrivilegesInv, Key

-----------------------------------------------------------------------------
(* cross-tenant-fk.                                                        *)
\* The foreign key at hand.
KeyAsked == [on |-> Current, arm |-> "key"]

\* The keys on the list have no answer yet, the one at hand has passed every question
\* before the place, and the outcome of the probe is that of the database.
CrossTenantFkKnow ==
  /\ DOMAIN me.loc = {"probe", "gone"}
  /\ me.loc.gone => world.vanish
  /\ me.at \in {"plan", "next", "existing", "target", "other", "begin"} => pg.st \in {"idle", "lost"}
  /\ me.at \in {"role", "become", "own", "repoint"} /\ fault = "none" => Live
  /\ me.at \in {"next", "existing", "target", "other", "begin", "role", "become", "own", "repoint", "undo"} =>
       Todo \subseteq FK!Candidates /\ \A k \in Todo : Untold(k, "key")
  /\ me.at \in {"existing", "target", "other", "begin", "role", "become", "own", "repoint", "undo"} =>
       me.todo # <<>> /\ ~Target.composite
  /\ me.at = "target" /\ Target.existing = "some" => pg.st = "lost"
  /\ me.at \in {"other", "begin", "role", "become", "own", "repoint", "undo"} => Target.existing # "some" /\ Target.parent
  /\ me.at \in {"begin", "role", "become", "own", "repoint", "undo"} => Target.second
  /\ me.at \in {"own", "repoint"} /\ world.hook = "own" /\ fault = "none" => pg.who = "B"
  /\ me.at = "repoint" => Target.own \in {"all", "rows"}
  /\ me.at = "undo" => /\ me.loc.probe \in {"landed", "unknown", "blocked", "nomatch"}
                       /\ me.loc.probe = "landed" => KeyAsked \in Truth.exposed
                       /\ me.loc.probe \in {"blocked", "nomatch"} => KeyAsked \notin Truth.exposed \ Truth.blind
                       /\ fault = "none" /\ KeyAsked \in Truth.provable => me.loc.probe = "landed"
  /\ me.at \in {"start", "plan", "next", "existing", "target", "other", "begin", "role", "become", "own", "repoint"} =>
       me.loc.probe = "unknown"

\* The key is on the list, or the list is still to be made.
CrossTenantFkPending(e) ==
  \/ me.at \in {"start", "plan"}
  \/ me.at \in {"next", "existing", "target", "other", "begin", "role", "become", "own", "repoint", "undo"} /\ e.on \in Todo

\* Everything exposed is pending or done.
CrossTenantFkInv == CrossTenantFkKnow /\ (Counts => \A e \in Truth.exposed : CrossTenantFkPending(e) \/ Done(e))

\* What is exposed to cross-tenant-fk, and what of it is missed, misjudged or provable.
LEMMA CrossTenantFkPoints ==
  ASSUME world.guard = "cross-tenant-fk"
  PROVE  /\ \A e : e \in Truth.exposed <=>
              e = [on |-> e.on, arm |-> "key"] /\ e.on \in FK!Candidates /\ FK!Crosses(world.targets[e.on])
         /\ \A e : e \in Truth.blind <=> e \in Truth.exposed /\ ~world.member /\ world.targets[e.on].existing # "some"
         /\ \A e : e \in Truth.provable <=>
              /\ e \in Truth.exposed /\ ~world.targets[e.on].composite
              /\ \/ world.targets[e.on].existing = "some"
                 \/ /\ world.member /\ ~world.vanish
                    /\ world.hook = "own" \/ (world.hook = "other" /\ world.targets[e.on].own = "all")
         /\ FK!Candidates \subseteq 1..Count
<1>1. Truth.exposed = FK!Exposed /\ Truth.blind = FK!Blind /\ Truth.provable = FK!Provable BY DEF Truth, FK!Truth
<1>2. \A e : e \in Truth.exposed <=>
              e = [on |-> e.on, arm |-> "key"] /\ e.on \in FK!Candidates /\ FK!Crosses(world.targets[e.on])
  BY <1>1 DEF FK!Exposed
<1> QED BY <1>1, <1>2 DEF FK!Blind, FK!Provable, FK!Candidates, Count

\* What is exposed to cross-tenant-fk depends on the database and the fault alone.
LEMMA CrossTenantFkSame ==
  ASSUME world.guard = "cross-tenant-fk", world' = world, fault' = fault
  PROVE  Truth' = Truth
<1>1. Truth = FK!Truth BY DEF Truth
<1>2. Truth' = FK!Truth' BY DEF Truth
<1>3. FK!Exposed' = FK!Exposed BY DEF FK!CandidateFk, FK!Candidates, FK!Crosses, FK!Exposed
<1>4. FK!Blind' = FK!Blind BY <1>3 DEF FK!Blind
<1>5. FK!Provable' = FK!Provable BY <1>3 DEF FK!Provable
<1>6. FK!Spurious' = FK!Spurious BY DEF FK!Spurious
<1>7. FK!Fragile' = FK!Fragile BY DEF FK!Fragile
<1> QED BY <1>1, <1>2, <1>3, <1>4, <1>5, <1>6, <1>7 DEF FK!Truth

\* A step of cross-tenant-fk changes neither the database nor the fault.
LEMMA CrossTenantFkRest == ASSUME FK!Next PROVE world' = world /\ fault' = fault
BY DEF FK!Attempt, FK!Await, FK!Begin, FK!Check, FK!Connect, FK!Disconnect, FK!Do, FK!ExistingRows, FK!Impersonate,
     FK!Next, FK!NextKey, FK!OtherChildTenant, FK!OwnRows, FK!ParentTarget, FK!PlanKeys, FK!Repoint, FK!RollBack,
     FK!Run, FK!UndoProbe, FK!Vanish

\* A step of cross-tenant-fk keeps what it knows, and is one its runner expects.
LEMMA CrossTenantFkAnswers ==
  ASSUME Common, CrossTenantFkInv, world.guard = "cross-tenant-fk", FK!Next
  PROVE  Common' /\ CrossTenantFkInv' /\ Plays
<1>u. world' = world /\ fault' = fault BY CrossTenantFkRest
<1>t. Truth' = Truth BY <1>u, CrossTenantFkSame
<1>b. /\ FK!Connect <=> Connect
      /\ FK!Disconnect <=> Disconnect
      /\ FK!RollBack("close") <=> RollBack("close")
  BY DEF FK!Closed, Closed, FK!Connect, Connect, FK!Disconnect, Disconnect, FK!Do, Do, FK!LeaksIn, LeaksIn,
         FK!RollBack, RollBack, FK!RolledBack, RolledBack, FK!To, To, FK!Verdict, Verdict
<1>o. /\ FK!Live <=> Live
      /\ FK!Failed = Failed
      /\ FK!Began(pg) = Began(pg)
      /\ FK!RolledBack(pg) = RolledBack(pg)
      /\ \A x : FK!AsRole(pg, x) = AsRole(pg, x)
      /\ \A x : FK!Acting(pg, x) = Acting(pg, x)
      /\ \A S : FK!Kept(S) = Kept(S)
      /\ FK!Target = Target
      /\ FK!Current = Current
  BY DEF FK!Live, Live, FK!Failed, Failed, FK!Began, Began, FK!RolledBack, RolledBack, FK!AsRole, AsRole, FK!Acting,
         Acting, FK!Kept, Kept, FK!Target, Target, FK!Current, Current, FK!Closed, Closed
<1>c. Session /\ Shape /\ Meant /\ CrossTenantFkKnow BY DEF Common, CrossTenantFkInv
<1>k. DOMAIN me.loc = {"probe", "gone"} BY <1>c DEF CrossTenantFkKnow
<1>q. me.todo # <<>> =>
        /\ Current \in Todo /\ Current \in 1..Count /\ Queue(Tail(me.todo))
        /\ Elems(Tail(me.todo)) = Todo \ {Current}
  BY <1>c, Popping DEF Shape, Todo, Current
<1>x. Todo \subseteq 1..Count BY <1>c DEF Shape, Queue, Todo, Elems
\* Leaving.
<1>l. ASSUME Leaves, me.at \notin {"start", "done"}, pg' \in {pg, Failed} PROVE Common' /\ CrossTenantFkInv' /\ Plays
  <2>1. Shape' /\ Meant' /\ ~Counts' /\ Plays BY <1>u, <1>t, <1>l, Leaving
  <2>2. Session' BY <1>u, <1>c, <1>l, Moving DEF Moved, Leaves
  <2>4. (Unclear' <=> Unclear) /\ (\A k, x : Untold(k, x)' <=> Untold(k, x)) BY <1>u, <1>t, <1>c, <1>l, Quiet
      DEF Leaves
  <2>5. pg'.st \in {pg.st, IF pg.st = "open" THEN "aborted" ELSE pg.st} BY <1>c, <1>l DEF Failed, Session, Proper,
      Sound
  <2>3. CrossTenantFkKnow'
    <3>1. me'.at \in {"finally", "close"} /\ me'.todo = me.todo /\ me'.said = me.said /\ me'.loc = me.loc /\ DOMAIN me' = DOMAIN me
      BY <1>l DEF Leaves
    <3> QED BY <1>u, <1>c, <1>l, <2>1, <2>4, <2>5, <3>1 DEF CrossTenantFkKnow
  <2> QED BY <2>1, <2>2, <2>3 DEF Common, CrossTenantFkInv
\* Going on without an answer.
<1>s. ASSUME NEW at, NEW todo, Walks(at, todo, me.said), Queue(todo), Moved, me.at \notin {"start", "done"},
             at \notin {"start", "plan", "done"}, CrossTenantFkKnow',
             \A e \in Truth.exposed : Counts /\ CrossTenantFkPending(e) => CrossTenantFkPending(e)' \/ Done(e)
      PROVE  Common' /\ CrossTenantFkInv' /\ Plays
  <2>1. Shape' BY <1>u, <1>c, <1>s, Going
  <2>2. Meant' /\ \A e : Done(e)' <=> Done(e) BY <1>u, <1>t, <1>c, <1>s, Quiet DEF Walks
  <2>3. Session' BY <1>u, <1>c, <1>s, Moving DEF Walks
  <2>4. (Counts' => Counts) /\ Plays BY <1>s DEF Walks, Counts, Plays
  <2> QED BY <1>t, <1>s, <2>1, <2>2, <2>3, <2>4 DEF Common, CrossTenantFkInv
<1>e. /\ me' = FK!Thrown => Leaves
      /\ me' = FK!Ending(me, "skip") => Leaves
      /\ \A l : me' = FK!To(l) => Walks(l, me.todo, me.said) /\ me'.loc = me.loc
  BY <1>c DEF Shape, FK!Thrown, FK!Ending, FK!To, Leaves, Walks
<1>w. FK!Candidates' = FK!Candidates BY <1>u DEF FK!Candidates, FK!CandidateFk
<1>j. me'.todo = me.todo /\ me'.said = me.said =>
        /\ Todo' = Todo /\ Current' = Current /\ Target' = Target /\ KeyAsked' = KeyAsked
        /\ \A k, x : Untold(k, x)' <=> Untold(k, x)
  BY <1>u DEF Todo, Current, Target, KeyAsked, Untold
<1>r. me.todo # <<>> => Target = world.targets[Current] /\ Current \in 1..Count BY <1>q DEF Target, Current
\* An answer about the target at hand.
<1>a. ASSUME NEW says, says \in {"leak", "note", "clear"}, Moved, me.at \in {"next", "existing", "target", "other", "begin", "undo"}, me.todo # <<>>,
             Walks("next", Tail(me.todo), me.said \cup {[on |-> Current, arm |-> "key", says |-> says]}),
             DOMAIN me'.loc = DOMAIN me.loc, me'.loc.probe = "unknown", me'.loc.gone = me.loc.gone, pg'.st \in {"idle", "lost"}, says = "leak" => [on |-> Current, arm |-> "key"] \in Truth.exposed \cup Truth.spurious,
             [on |-> Current, arm |-> "key"] \in Truth.exposed =>
                says = "leak" \/ (says = "note" /\ (fault # "none" \/ [on |-> Current, arm |-> "key"] \notin Truth.provable))
                              \/ [on |-> Current, arm |-> "key"] \in Truth.blind
      PROVE  Common' /\ CrossTenantFkInv' /\ Plays
  <2>1. Shape' BY <1>u, <1>c, <1>q, <1>a, Going
  <2> DEFINE e0 == [on |-> Current, arm |-> "key"]
  <2>0. Untold(Current, "key") BY <1>c, <1>q, <1>a DEF CrossTenantFkKnow
  <2>2. /\ Meant'
        /\ \A e : Done(e) => Done(e)'
        /\ \A e : e.on = Current /\ e.arm = "key" /\ says = "leak" => Done(e)'
        /\ \A e : e.on = Current /\ says # "clear" /\ (fault # "none" \/ e \notin Truth.provable) => Done(e)'
        /\ \A k, x : (k # Current \/ x # "key" \/ says = "note") /\ Untold(k, x) => Untold(k, x)'
        /\ says # "clear" /\ Unclear => Unclear'
    BY <1>u, <1>t, <1>c, <1>a, <2>0, Telling DEF Walks
  <2>3. Session' BY <1>u, <1>c, <1>a, Moving DEF Walks
  <2>4. (Counts' => Counts) /\ Plays BY <1>a DEF Walks, Counts, Plays
  <2>5. Todo' = Todo \ {Current} BY <1>q, <1>a DEF Walks, Todo
  <2>6. CrossTenantFkKnow' BY <1>u, <1>c, <1>k, <1>a, <2>2, <2>5, <1>w DEF CrossTenantFkKnow, Walks
  <2>7. ASSUME NEW e \in Truth.exposed, CrossTenantFkPending(e) PROVE CrossTenantFkPending(e)' \/ Done(e)'
    <3>1. e.on \in Todo BY <1>a, <2>7 DEF CrossTenantFkPending
    <3>2. CASE e.on = Current
      <4>1. e = e0 BY <3>2, CrossTenantFkPoints
      <4>2. e \in Truth.blind => Done(e)' BY <1>u, <1>t, <4>1, CrossTenantFkPoints DEF Done
      <4> QED BY <1>a, <2>2, <3>2, <4>1, <4>2
    <3>3. CASE e.on # Current BY <1>a, <2>5, <3>1, <3>3 DEF CrossTenantFkPending, Walks
    <3> QED BY <3>2, <3>3
  <2> QED BY <1>t, <2>1, <2>2, <2>3, <2>4, <2>6, <2>7 DEF Common, CrossTenantFkInv
\* Going on with the key.
<1>f. ASSUME NEW at \in {"existing", "target", "other", "begin", "role", "become", "own", "repoint", "undo"},
             Walks(at, me.todo, me.said), Moved, me.at \notin {"start", "plan", "done"}, me.at \in {"next", "existing", "target", "other", "begin", "role", "become", "own", "repoint"}, CrossTenantFkKnow'
      PROVE  Common' /\ CrossTenantFkInv' /\ Plays
  <2>1. Todo' = Todo BY <1>j, <1>f DEF Walks
  <2>2. \A e : CrossTenantFkPending(e) => CrossTenantFkPending(e)' BY <1>f, <2>1 DEF CrossTenantFkPending, Walks
  <2> QED BY <1>s, <1>c, <1>f, <2>2 DEF Shape
<1>w0. \A says : me' = FK!Answered(says) =>
          /\ Walks("next", Tail(me.todo), me.said \cup {[on |-> Current, arm |-> "key", says |-> says]})
          /\ DOMAIN me'.loc = DOMAIN me.loc /\ me'.loc.probe = "unknown" /\ me'.loc.gone = me.loc.gone
  <2>1. TAKE says
  <2> DEFINE m == FK!Onward(FK!Said(me, Current, "key", says))
  <2>2. FK!Answered(says) = [m EXCEPT !.loc.probe = "unknown"] BY <1>o DEF FK!Answered
  <2>3. /\ DOMAIN m = DOMAIN me /\ m.at = "next" /\ m.todo = Tail(me.todo)
        /\ m.said = me.said \cup {[on |-> Current, arm |-> "key", says |-> says]}
        /\ m.thrown = me.thrown /\ m.result = me.result /\ m.loc = me.loc
    BY <1>c DEF FK!Onward, FK!Said, Shape
  <2> HIDE DEF m
  <2> QED BY <1>c, <1>k, <2>2, <2>3 DEF Walks, Shape
\* A note about the key, the connection being gone or the key one that cannot be proven.
<1>n. ASSUME me' = FK!Answered("note"), me.at \in {"next", "existing", "target", "other", "begin", "undo"}, me.todo # <<>>,
             Moved, pg'.st \in {"idle", "lost"}, fault # "none" \/ KeyAsked \notin Truth.provable
      PROVE  Common' /\ CrossTenantFkInv' /\ Plays
  <2>1. /\ Walks("next", Tail(me.todo), me.said \cup {[on |-> Current, arm |-> "key", says |-> "note"]})
        /\ DOMAIN me'.loc = DOMAIN me.loc /\ me'.loc.probe = "unknown" /\ me'.loc.gone = me.loc.gone
    BY <1>w0, <1>n
  <2>2. KeyAsked = [on |-> Current, arm |-> "key"] BY DEF KeyAsked
  <2> QED BY <1>a, <1>n, <2>1, <2>2
<1>1. CASE FK!PlanKeys
  <2>1. /\ me.at = "plan"
        /\ \/ pg' = pg /\ me' = FK!Ending(me, "skip")
           \/ pg' = pg /\ me' = [FK!To("next") EXCEPT !.todo = Kept(FK!Candidates)]
           \/ pg' = Failed /\ me' = FK!Thrown
    BY <1>1, <1>o, Zenon DEF FK!PlanKeys, FK!Await, FK!Do
  <2>2. CASE pg' = pg /\ me' = [FK!To("next") EXCEPT !.todo = Kept(FK!Candidates)]
    <3>1. Whole(me.todo) /\ me.said = {} BY <1>c, <2>1 DEF Shape
    <3>2. FK!Candidates \subseteq 1..Count BY CrossTenantFkPoints
    <3>9. Queue(Kept(FK!Candidates)) /\ Elems(Kept(FK!Candidates)) = (1..Count) \cap FK!Candidates
      BY <1>c, <3>1, Keeping DEF Shape
    <3>3. Queue(Kept(FK!Candidates)) /\ Elems(Kept(FK!Candidates)) = FK!Candidates BY <3>2, <3>9
    <3>4. Walks("next", Kept(FK!Candidates), me.said) /\ me'.loc = me.loc BY <1>c, <2>2 DEF FK!To, Walks, Shape
    <3>5. Todo' = FK!Candidates BY <3>3, <3>4 DEF Todo, Walks
    <3>6. \A k : Untold(k, "key")' BY <3>1, <3>4 DEF Untold, Walks
    <3>7. CrossTenantFkKnow' BY <1>u, <1>w, <1>c, <2>1, <2>2, <3>4, <3>5, <3>6 DEF CrossTenantFkKnow, Walks
    <3>8. \A e \in Truth.exposed : CrossTenantFkPending(e)' BY <3>4, <3>5, CrossTenantFkPoints
        DEF CrossTenantFkPending, Walks
    <3> QED BY <1>s, <2>1, <2>2, <3>3, <3>4, <3>7, <3>8 DEF Moved
  <2> QED BY <1>e, <1>l, <2>1, <2>2
<1>2. CASE FK!NextKey
  <2>1. /\ me.at = "next" /\ pg' = pg
        /\ \/ me.todo = <<>> /\ me' = FK!To("close")
           \/ me.todo # <<>> /\ Target.composite /\ me' = FK!Answered("note")
           \/ me.todo # <<>> /\ ~Target.composite /\ me' = FK!To("existing")
    BY <1>2, <1>o DEF FK!NextKey, FK!Do
  <2>2. Moved /\ pg'.st \in {"idle", "lost"} BY <1>c, <2>1 DEF CrossTenantFkKnow, Moved
  <2>3. CASE me.todo = <<>> /\ me' = FK!To("close")
    <3>1. Walks("close", me.todo, me.said) /\ me'.loc = me.loc BY <1>e, <2>3
    <3>2. CrossTenantFkKnow' BY <1>u, <1>c, <2>1, <3>1 DEF CrossTenantFkKnow, Walks
    <3>3. \A e : ~CrossTenantFkPending(e) BY <2>1, <2>3 DEF CrossTenantFkPending, Todo, Elems
    <3> QED BY <1>s, <1>c, <2>1, <2>2, <3>1, <3>2, <3>3 DEF Shape
  <2>4. CASE me.todo # <<>> /\ Target.composite /\ me' = FK!Answered("note")
    <3>1. KeyAsked \notin Truth.provable BY <1>r, <2>4, CrossTenantFkPoints DEF KeyAsked
    <3> QED BY <1>n, <2>1, <2>2, <2>4, <3>1
  <2>5. CASE me.todo # <<>> /\ ~Target.composite /\ me' = FK!To("existing")
    <3>1. Walks("existing", me.todo, me.said) /\ me'.loc = me.loc BY <1>e, <2>5
    <3>2. CrossTenantFkKnow' BY <1>u, <1>c, <1>w, <1>j, <2>1, <2>2, <2>5, <3>1 DEF CrossTenantFkKnow, Walks
    <3> QED BY <1>f, <2>1, <2>2, <3>1, <3>2
  <2> QED BY <2>1, <2>3, <2>4, <2>5
<1>3. CASE FK!ExistingRows
  <2> DEFINE a == [on |-> Current, arm |-> "existing", says |-> "note"]
  <2>1. /\ me.at = "existing"
        /\ \/ pg' = pg /\ Live /\ Target.existing = "some" /\ me' = FK!Answered("leak")
           \/ pg' = pg /\ Live /\ Target.existing # "some" /\ me' = FK!To("target")
           \/ pg' = Failed /\ (~Live \/ Target.existing = "error") /\ me' = FK!Said(FK!To("target"), Current, "existing", "note")
    BY <1>3, <1>o DEF FK!ExistingRows, FK!Attempt, FK!Do
  <2>2. Moved /\ pg'.st \in {"idle", "lost"} /\ me.todo # <<>> /\ (~Live => pg'.st = "lost")
    BY <1>c, <2>1 DEF CrossTenantFkKnow, Moved, Failed, Live, Session, Proper, Sound
  <2>3. CASE pg' = pg /\ Target.existing = "some" /\ me' = FK!Answered("leak")
    <3>1. /\ Walks("next", Tail(me.todo), me.said \cup {[on |-> Current, arm |-> "key", says |-> "leak"]})
          /\ DOMAIN me'.loc = DOMAIN me.loc /\ me'.loc.probe = "unknown" /\ me'.loc.gone = me.loc.gone
      BY <1>w0, <2>3
    <3>2. Current \in FK!Candidates BY <1>c, <1>q, <2>1, <2>2 DEF CrossTenantFkKnow
    <3>3. [on |-> Current, arm |-> "key"] \in Truth.exposed BY <1>r, <2>2, <2>3, <3>2, CrossTenantFkPoints
        DEF FK!Crosses
    <3> QED BY <1>a, <2>1, <2>2, <3>1, <3>3
  <2>4. CASE pg' = pg /\ Target.existing # "some" /\ me' = FK!To("target")
    <3>1. Walks("target", me.todo, me.said) /\ me'.loc = me.loc BY <1>e, <2>4
    <3>2. CrossTenantFkKnow' BY <1>u, <1>c, <1>w, <1>j, <2>1, <2>2, <2>4, <3>1 DEF CrossTenantFkKnow, Walks
    <3> QED BY <1>f, <2>1, <2>2, <3>1, <3>2
  <2>5. CASE pg' = Failed /\ (~Live \/ Target.existing = "error") /\ me' = FK!Said(FK!To("target"), Current, "existing", "note")
    <3>1. Walks("target", me.todo, me.said \cup {a}) /\ me'.loc = me.loc BY <1>c, <2>5 DEF FK!To, FK!Said, Walks,
        Shape
    <3>2. Shape' BY <1>u, <1>c, <2>1, <3>1, Going DEF Shape
    <3>3. Meant' /\ Keeps BY <1>u, <1>t, <1>c, <3>1, Noting DEF Walks
    <3>4. Session' BY <1>u, <1>c, <2>1, <2>2, <3>1, Moving DEF Walks
    <3>5. Todo' = Todo /\ Target' = Target BY <1>u, <3>1 DEF Walks, Todo, Target
    <3>6. Target.existing = "error" => Target.existing # "some" OBVIOUS
    <3>7. CrossTenantFkKnow' BY <1>u, <1>c, <1>w, <2>1, <2>2, <2>5, <3>1, <3>3, <3>5 DEF CrossTenantFkKnow, Walks,
        Keeps
    <3>8. \A e : CrossTenantFkPending(e) => CrossTenantFkPending(e)' BY <2>1, <3>1, <3>5 DEF CrossTenantFkPending,
        Walks
    <3> HIDE DEF a
    <3> QED BY <1>t, <1>c, <2>1, <3>1, <3>2, <3>3, <3>4, <3>7, <3>8 DEF Common, CrossTenantFkInv, Keeps, Counts,
        Walks, Plays
  <2> QED BY <2>1, <2>3, <2>4, <2>5
<1>4. CASE FK!ParentTarget
  <2>1. /\ me.at = "target"
        /\ \/ pg' = pg /\ Live /\ Target.parent /\ me' = FK!To("other")
           \/ pg' = pg /\ Live /\ ~Target.parent /\ me' = FK!Answered("note")
           \/ pg' = Failed /\ ~Live /\ me' = FK!Answered("note")
    BY <1>4, <1>o DEF FK!ParentTarget, FK!Attempt, FK!Do
  <2>2. Moved /\ pg'.st \in {"idle", "lost"} /\ me.todo # <<>> /\ (~Live => fault # "none") /\ (Live => pg.st # "lost")
    BY <1>c, <2>1 DEF CrossTenantFkKnow, Moved, Failed, Live, Session, Proper, Sound
  <2>3. CASE pg' = pg /\ Live /\ Target.parent /\ me' = FK!To("other")
    <3>1. Walks("other", me.todo, me.said) /\ me'.loc = me.loc BY <1>e, <2>3
    <3>2. CrossTenantFkKnow' BY <1>u, <1>c, <1>w, <1>j, <2>1, <2>2, <2>3, <3>1 DEF CrossTenantFkKnow, Walks
    <3> QED BY <1>f, <2>1, <2>2, <3>1, <3>2
  <2>4. CASE Live /\ ~Target.parent /\ me' = FK!Answered("note")
    <3>1. Target.existing # "some" BY <1>c, <2>1, <2>2, <2>4 DEF CrossTenantFkKnow
    <3>2. KeyAsked \notin Truth.exposed BY <1>r, <2>2, <2>4, <3>1, CrossTenantFkPoints DEF FK!Crosses, KeyAsked
    <3> QED BY <1>n, <2>1, <2>2, <2>4, <3>2, CrossTenantFkPoints
  <2> QED BY <1>n, <2>1, <2>2, <2>3, <2>4
<1>5. CASE FK!OtherChildTenant
  <2>1. /\ me.at = "other"
        /\ \/ pg' = pg /\ Live /\ Target.second /\ me' = FK!To("begin")
           \/ pg' = pg /\ Live /\ ~Target.second /\ me' = FK!Answered("note")
           \/ pg' = Failed /\ ~Live /\ me' = FK!Answered("note")
    BY <1>5, <1>o DEF FK!OtherChildTenant, FK!Attempt, FK!Do
  <2>2. Moved /\ pg'.st \in {"idle", "lost"} /\ me.todo # <<>> /\ (~Live => fault # "none") /\ (Live => pg.st # "lost")
    BY <1>c, <2>1 DEF CrossTenantFkKnow, Moved, Failed, Live, Session, Proper, Sound
  <2>3. CASE pg' = pg /\ Live /\ Target.second /\ me' = FK!To("begin")
    <3>1. Walks("begin", me.todo, me.said) /\ me'.loc = me.loc BY <1>e, <2>3
    <3>2. CrossTenantFkKnow' BY <1>u, <1>c, <1>w, <1>j, <2>1, <2>2, <2>3, <3>1 DEF CrossTenantFkKnow, Walks
    <3> QED BY <1>f, <2>1, <2>2, <3>1, <3>2
  <2>4. CASE Live /\ ~Target.second /\ me' = FK!Answered("note")
    <3>1. Target.existing # "some" BY <1>c, <2>1, <2>2, <2>4 DEF CrossTenantFkKnow
    <3>2. KeyAsked \notin Truth.exposed BY <1>r, <2>2, <2>4, <3>1, CrossTenantFkPoints DEF FK!Crosses, KeyAsked
    <3> QED BY <1>n, <2>1, <2>2, <2>4, <3>2, CrossTenantFkPoints
  <2> QED BY <1>n, <2>1, <2>2, <2>3, <2>4
<1>6. CASE FK!Vanish
  <2> DEFINE m == [me EXCEPT !.loc.gone = TRUE]
  <2>1. me.at \in {"begin", "role", "become", "own", "repoint"} /\ world.vanish /\ pg' = pg /\ me' = m
    BY <1>6, <1>o DEF FK!Vanish, FK!Do
  <2>2. /\ DOMAIN m = DOMAIN me /\ m.at = me.at /\ m.todo = me.todo /\ m.said = me.said /\ m.thrown = me.thrown
        /\ m.result = me.result /\ DOMAIN m.loc = DOMAIN me.loc /\ m.loc.probe = me.loc.probe
    BY <1>c, <1>k DEF Shape
  <2> HIDE DEF m
  <2>3. PICK at : at = me.at OBVIOUS
  <2>4. Walks(at, me.todo, me.said) /\ DOMAIN me'.loc = DOMAIN me.loc /\ me'.loc.probe = me.loc.probe /\ Moved
    BY <2>1, <2>2, <2>3 DEF Walks, Moved
  <2>5. Live' <=> Live BY <2>1 DEF Live
  <2>6. CrossTenantFkKnow' BY <1>u, <1>c, <1>w, <1>j, <2>1, <2>3, <2>4, <2>5 DEF CrossTenantFkKnow, Walks
  <2> QED BY <1>f, <2>1, <2>3, <2>4, <2>6
<1>7. CASE FK!Begin
  <2>1. /\ me.at = "begin"
        /\ \/ Live /\ pg' = Began(pg) /\ me' = FK!To("role")
           \/ pg' = Failed /\ ~Live /\ me' = FK!Answered("note")
    BY <1>7, <1>b, <1>o DEF FK!Begin, FK!Attempt, FK!Do
  <2>2. Moved /\ me.todo # <<>> /\ (~Live => fault # "none" /\ Failed.st \in {"idle", "lost"})
    BY <1>c, <2>1 DEF CrossTenantFkKnow, Moved, Failed, Live, Session, Proper, Sound
  <2>3. CASE Live /\ pg' = Began(pg) /\ me' = FK!To("role")
    <3>1. Walks("role", me.todo, me.said) /\ me'.loc = me.loc BY <1>e, <2>3
    <3>2. Live' BY <1>c, <2>3 DEF Began, Live, Session, Proper, Sound
    <3>3. CrossTenantFkKnow' BY <1>u, <1>c, <1>w, <1>j, <2>1, <2>2, <2>3, <3>1, <3>2 DEF CrossTenantFkKnow, Walks
    <3> QED BY <1>f, <2>1, <2>2, <3>1, <3>3
  <2> QED BY <1>n, <2>1, <2>2, <2>3
\* An error, or nothing to change: the probe is undone with what it came to.
<1>p. ASSUME NEW probe \in {"landed", "unknown", "blocked", "nomatch"}, Walks("undo", me.todo, me.said), Moved,
             DOMAIN me'.loc = DOMAIN me.loc, me'.loc.probe = probe, me'.loc.gone = me.loc.gone,
             me.at \in {"role", "become", "own", "repoint"},
             probe = "landed" => KeyAsked \in Truth.exposed,
             probe \in {"blocked", "nomatch"} => KeyAsked \notin Truth.exposed \ Truth.blind,
             fault = "none" /\ KeyAsked \in Truth.provable => probe = "landed"
      PROVE  Common' /\ CrossTenantFkInv' /\ Plays
  <2>1. CrossTenantFkKnow' BY <1>u, <1>t, <1>c, <1>k, <1>w, <1>j, <1>p DEF CrossTenantFkKnow, Walks
  <2> QED BY <1>f, <1>p, <2>1
<1>v. \A probe : me' = [FK!To("undo") EXCEPT !.loc.probe = probe] =>
        /\ Walks("undo", me.todo, me.said) /\ DOMAIN me'.loc = DOMAIN me.loc
        /\ me'.loc.probe = probe /\ me'.loc.gone = me.loc.gone
  <2>0. TAKE probe
  <2>1. PICK m : m = FK!To("undo") OBVIOUS
  <2>2. /\ DOMAIN m = DOMAIN me /\ m.at = "undo" /\ m.todo = me.todo /\ m.said = me.said
        /\ m.thrown = me.thrown /\ m.result = me.result /\ m.loc = me.loc
    BY <1>c, <2>1 DEF FK!To, Shape
  <2> QED BY <1>c, <1>k, <2>1, <2>2 DEF Walks, Shape
\* What is known of the key once the probe runs.
<1>z. me.at \in {"role", "become", "own", "repoint"} =>
        /\ me.todo # <<>> /\ me.loc.probe = "unknown" /\ (fault = "none" => Live)
        /\ KeyAsked \in Truth.exposed <=> Target.own \in {"rows", "all"} /\ Target.write = "lands"
        /\ KeyAsked \in Truth.blind <=> KeyAsked \in Truth.exposed /\ ~world.member
        /\ KeyAsked \in Truth.provable =>
             /\ KeyAsked \in Truth.exposed /\ world.member /\ ~world.vanish
             /\ world.hook = "own" \/ (world.hook = "other" /\ Target.own = "all")
  <2>1. SUFFICES ASSUME me.at \in {"role", "become", "own", "repoint"}
                 PROVE  /\ me.todo # <<>> /\ me.loc.probe = "unknown" /\ (fault = "none" => Live)
                        /\ KeyAsked \in Truth.exposed <=> Target.own \in {"rows", "all"} /\ Target.write = "lands"
                        /\ KeyAsked \in Truth.blind <=> KeyAsked \in Truth.exposed /\ ~world.member
                        /\ KeyAsked \in Truth.provable =>
                             /\ KeyAsked \in Truth.exposed /\ world.member /\ ~world.vanish
                             /\ world.hook = "own" \/ (world.hook = "other" /\ Target.own = "all")
    OBVIOUS
  <2>2. /\ me.todo # <<>> /\ me.loc.probe = "unknown" /\ (fault = "none" => Live)
        /\ Target.existing # "some" /\ Target.parent /\ Target.second /\ Todo \subseteq FK!Candidates
    BY <1>c, <2>1 DEF CrossTenantFkKnow
  <2>3. KeyAsked = [on |-> KeyAsked.on, arm |-> "key"] /\ KeyAsked.on = Current /\ Current \in FK!Candidates
    BY <1>q, <2>2 DEF KeyAsked
  <2> QED BY <1>r, <2>2, <2>3, CrossTenantFkPoints DEF FK!Crosses
<1>8. CASE FK!Impersonate
  <2> DEFINE who == IF world.hook = "other" THEN pg.who ELSE "B"
  <2>1. \/ /\ me.at = "role"
           /\ \/ Live /\ world.member /\ pg' = AsRole(pg, "app") /\ me' = FK!To("become")
              \/ (~Live \/ ~world.member) /\ pg' = Failed /\ me' = FK!Caught(TRUE)
        \/ /\ me.at = "become"
           /\ \/ Live /\ world.hook # "fails" /\ pg' = Acting(pg, who) /\ me' = FK!To("own")
              \/ (~Live \/ world.hook = "fails") /\ pg' = Failed /\ me' = FK!Caught(FALSE)
    <3>1. \/ FK!Attempt("role", ~world.member, FK!AsRole(pg, "app"), FK!To("become"), FK!Caught(TRUE))
          \/ FK!Attempt("become", world.hook = "fails", FK!Acting(pg, who), FK!To("own"), FK!Caught(FALSE))
      BY <1>8, Zenon DEF FK!Impersonate
    <3>2. CASE FK!Attempt("role", ~world.member, FK!AsRole(pg, "app"), FK!To("become"), FK!Caught(TRUE))
      BY <1>b, <1>o, <3>2, Zenon DEF FK!Attempt, FK!Do
    <3>3. CASE FK!Attempt("become", world.hook = "fails", FK!Acting(pg, who), FK!To("own"), FK!Caught(FALSE))
      <4> HIDE DEF who
      <4> QED BY <1>b, <1>o, <3>3, Zenon DEF FK!Attempt, FK!Do
    <3> QED BY <3>1, <3>2, <3>3
  <2>2. CASE me.at = "role" /\ Live /\ pg' = AsRole(pg, "app") /\ me' = FK!To("become")
    <3>1. Walks("become", me.todo, me.said) /\ me'.loc = me.loc /\ Moved BY <1>e, <2>2 DEF Moved, Roles
    <3>2. Live' BY <1>c, <2>2 DEF AsRole, Live, Session, Proper, Sound
    <3>3. CrossTenantFkKnow' BY <1>u, <1>c, <1>w, <1>j, <2>2, <3>1, <3>2 DEF CrossTenantFkKnow, Walks
    <3> QED BY <1>f, <2>2, <3>1, <3>3
  <2>3. CASE me.at = "role" /\ (~Live \/ ~world.member) /\ pg' = Failed /\ me' = FK!Caught(TRUE)
    <3>1. PICK probe : probe = IF Live THEN "blocked" ELSE "unknown" OBVIOUS
    <3>2. me' = [FK!To("undo") EXCEPT !.loc.probe = probe] BY <1>o, <2>3, <3>1 DEF FK!Caught
    <3>3. /\ probe \in {"blocked", "unknown"} /\ (probe = "blocked" => ~world.member) /\ Moved
      BY <2>3, <3>1 DEF Moved
    <3>4. fault = "none" => KeyAsked \notin Truth.provable BY <1>z, <2>3
    <3> QED BY <1>p, <1>v, <1>z, <2>3, <3>2, <3>3, <3>4
  <2>4. CASE me.at = "become" /\ Live /\ pg' = Acting(pg, who) /\ me' = FK!To("own")
    <3>1. Walks("own", me.todo, me.said) /\ me'.loc = me.loc /\ Moved BY <1>e, <2>4 DEF Moved
    <3>2. Live' /\ (world.hook = "own" => pg'.who = "B") BY <1>c, <2>4 DEF Acting, Live, Session, Proper, Sound
    <3>3. CrossTenantFkKnow' BY <1>u, <1>c, <1>w, <1>j, <2>4, <3>1, <3>2 DEF CrossTenantFkKnow, Walks
    <3> QED BY <1>f, <2>4, <3>1, <3>3
  <2>5. CASE me.at = "become" /\ (~Live \/ world.hook = "fails") /\ pg' = Failed /\ me' = FK!Caught(FALSE)
    <3>1. PICK probe : probe = "unknown" OBVIOUS
    <3>2. me' = [FK!To("undo") EXCEPT !.loc.probe = probe] BY <2>5, <3>1 DEF FK!Caught
    <3>4. fault = "none" => KeyAsked \notin Truth.provable BY <1>z, <2>5
    <3> QED BY <1>p, <1>v, <2>5, <3>1, <3>2, <3>4 DEF Moved
  <2> QED BY <2>1, <2>2, <2>3, <2>4, <2>5
<1>9. CASE FK!OwnRows
  <2> DEFINE sees == Target.own = "all" \/ (Target.own = "rows" /\ pg.who = "B")
  <2>1. /\ me.at = "own"
        /\ \/ Live /\ Target.own # "denied" /\ sees /\ pg' = pg /\ me' = FK!To("repoint")
           \/ Live /\ ~sees /\ pg' = pg /\ me' = FK!To("undo")
           \/ (~Live \/ Target.own = "denied") /\ pg' = Failed /\ me' = FK!To("undo")
    BY <1>9, <1>o DEF FK!OwnRows, FK!Attempt, FK!Do
  <2>2. world.hook = "own" /\ fault = "none" => pg.who = "B" BY <1>c, <2>1 DEF CrossTenantFkKnow
  <2>3. CASE Live /\ sees /\ pg' = pg /\ me' = FK!To("repoint")
    <3>1. Walks("repoint", me.todo, me.said) /\ me'.loc = me.loc /\ Moved BY <1>e, <2>3 DEF Moved
    <3>2. Live' /\ pg'.who = pg.who /\ Target.own \in {"all", "rows"} BY <2>3 DEF Live
    <3>3. CrossTenantFkKnow' BY <1>u, <1>c, <1>w, <1>j, <2>1, <2>2, <3>1, <3>2 DEF CrossTenantFkKnow, Walks
    <3> QED BY <1>f, <2>1, <3>1, <3>3
  <2>4. CASE (~Live \/ ~sees \/ Target.own = "denied") /\ pg' \in {pg, Failed} /\ me' = FK!To("undo")
    <3>1. Walks("undo", me.todo, me.said) /\ me'.loc = me.loc /\ Moved BY <1>e, <2>4 DEF Moved
    <3>2. fault = "none" => KeyAsked \notin Truth.provable BY <1>z, <2>1, <2>2, <2>4
    <3>3. PICK probe : probe = "unknown" OBVIOUS
    <3> QED BY <1>p, <1>z, <2>1, <3>1, <3>2, <3>3
  <2> QED BY <2>1, <2>3, <2>4
<1>10. CASE FK!Repoint
  <2> DEFINE lands == Target.write = "lands" /\ ~me.loc.gone
  <2>1. /\ me.at = "repoint"
        /\ \/ /\ Live /\ (lands \/ Target.write = "none") /\ pg' = pg
              /\ me' = [FK!To("undo") EXCEPT !.loc.probe = IF lands THEN "landed" ELSE "nomatch"]
           \/ (~Live \/ ~(lands \/ Target.write = "none")) /\ pg' = Failed /\ me' = FK!Caught(Target.write = "denied")
    BY <1>10, <1>o DEF FK!Repoint, FK!Attempt, FK!Do
  <2>2. Target.own \in {"all", "rows"} /\ (me.loc.gone => world.vanish) BY <1>c, <2>1 DEF CrossTenantFkKnow
  <2>3. CASE /\ Live /\ (lands \/ Target.write = "none") /\ pg' = pg
             /\ me' = [FK!To("undo") EXCEPT !.loc.probe = IF lands THEN "landed" ELSE "nomatch"]
    <3>1. PICK probe : probe = IF lands THEN "landed" ELSE "nomatch" OBVIOUS
    <3>2. me' = [FK!To("undo") EXCEPT !.loc.probe = probe] /\ Moved BY <2>3, <3>1 DEF Moved
    <3>3. probe \in {"landed", "nomatch"} /\ (probe = "landed" <=> Target.write = "lands")
      BY <2>3, <3>1
    <3>4. (probe = "landed" => KeyAsked \in Truth.exposed) /\ (probe = "nomatch" => KeyAsked \notin Truth.exposed)
          /\ (KeyAsked \in Truth.provable => KeyAsked \in Truth.exposed)
      BY <1>z, <2>1, <2>2, <3>3
    <3> QED BY <1>p, <1>v, <2>1, <3>2, <3>3, <3>4
  <2>4. CASE (~Live \/ ~(lands \/ Target.write = "none")) /\ pg' = Failed /\ me' = FK!Caught(Target.write = "denied")
    <3>1. PICK probe : probe = IF Target.write = "denied" /\ Live THEN "blocked" ELSE "unknown" OBVIOUS
    <3>2. me' = [FK!To("undo") EXCEPT !.loc.probe = probe] /\ Moved BY <1>o, <2>4, <3>1 DEF FK!Caught, Moved
    <3>3. probe \in {"blocked", "unknown"} /\ (probe = "blocked" => Target.write = "denied") BY <3>1
    <3>4. KeyAsked \in Truth.provable => world.member /\ ~world.vanish /\ Target.write = "lands" BY <1>z, <2>1
    <3>5. fault = "none" => KeyAsked \notin Truth.provable BY <1>z, <2>1, <2>2, <2>4, <3>4
    <3>6. probe = "blocked" => KeyAsked \notin Truth.exposed BY <1>z, <2>1, <3>3
    <3> QED BY <1>p, <1>v, <2>1, <3>2, <3>3, <3>5, <3>6
  <2> QED BY <2>1, <2>3, <2>4
<1>11. CASE FK!UndoProbe
  <2> DEFINE says == FK!ClassifyFk(me.loc.probe)
  <2>1. me.at = "undo" /\ pg' = RolledBack(pg) /\ me' = FK!Answered(says) BY <1>11, <1>b, <1>o DEF FK!UndoProbe, FK!Do
  <2>2. /\ me.todo # <<>> /\ me.loc.probe \in {"landed", "unknown", "blocked", "nomatch"}
        /\ me.loc.probe = "landed" => KeyAsked \in Truth.exposed
        /\ me.loc.probe \in {"blocked", "nomatch"} => KeyAsked \notin Truth.exposed \ Truth.blind
        /\ fault = "none" /\ KeyAsked \in Truth.provable => me.loc.probe = "landed"
    BY <1>c, <2>1 DEF CrossTenantFkKnow
  <2>3. says = (IF me.loc.probe = "landed" THEN "leak" ELSE IF me.loc.probe = "unknown" THEN "note" ELSE "clear")
    BY <2>2 DEF FK!ClassifyFk
  <2> HIDE DEF says
  <2>4. PICK s : s = says OBVIOUS
  <2>5. /\ Walks("next", Tail(me.todo), me.said \cup {[on |-> Current, arm |-> "key", says |-> s]})
        /\ DOMAIN me'.loc = DOMAIN me.loc /\ me'.loc.probe = "unknown" /\ me'.loc.gone = me.loc.gone
    BY <1>w0, <2>1, <2>4
  <2>6. pg'.st \in {"idle", "lost"} /\ Moved BY <1>c, <2>1 DEF Moved, RolledBack, Session, Proper, Sound
  <2>7. KeyAsked = [on |-> Current, arm |-> "key"] BY DEF KeyAsked
  <2>8. s \in {"leak", "note", "clear"} /\ (s = "leak" => KeyAsked \in Truth.exposed) /\ (s = "clear" => KeyAsked \notin Truth.exposed \ Truth.blind)
        /\ (KeyAsked \in Truth.exposed => s = "leak" \/ (s = "note" /\ (fault # "none" \/ KeyAsked \notin Truth.provable)) \/ KeyAsked \in Truth.blind)
    BY <2>2, <2>3, <2>4
  <2> QED BY <1>a, <2>1, <2>2, <2>5, <2>6, <2>7, <2>8
<1>12. CASE FK!RollBack("close")
  <2>1. /\ me.at = "finally" /\ Common' /\ Plays /\ me'.at = (IF me.thrown THEN "close" ELSE "close")
        /\ me'.thrown = me.thrown /\ me'.result = me.result
        /\ me'.loc = me.loc /\ me'.said = me.said /\ me'.todo = me.todo /\ (Counts' <=> Counts)
        /\ pg' \in {pg, RolledBack(pg)} /\ (pg.st \notin {"open", "aborted"} => pg' = pg)
    BY <1>b, <1>t, <1>12, RollsBack
  <2>2. (\A e : Done(e)' <=> Done(e)) /\ (Unclear' <=> Unclear) BY <1>u, <1>t, <1>c, <2>1, Quiet
  <2>3. CrossTenantFkKnow' BY <1>u, <1>c, <2>1, <2>2 DEF CrossTenantFkKnow
  <2>4. \A e \in Truth.exposed : CrossTenantFkPending(e) /\ Counts => CrossTenantFkPending(e)' BY <1>u, <2>1
      DEF CrossTenantFkPending
  <2> QED BY <1>t, <2>1, <2>2, <2>3, <2>4 DEF CrossTenantFkInv
<1>13. CASE FK!Connect
  <2>1. /\ me.at = "start" /\ Common' /\ Plays /\ me'.loc = me.loc /\ me'.said = {} /\ me'.todo = me.todo
        /\ \/ me'.at = "plan" /\ pg' = [pg EXCEPT !.st = "idle"] /\ pg'.st = "idle" /\ Whole(me'.todo)
           \/ me'.at = "done" /\ ~Counts' /\ pg' = pg
    BY <1>b, <1>t, <1>13, Connects
  <2>2. CrossTenantFkKnow' BY <1>u, <1>c, <2>1 DEF CrossTenantFkKnow, Unclear, Untold
  <2>3. Counts' => \A e : CrossTenantFkPending(e)' BY <2>1 DEF CrossTenantFkPending
  <2> QED BY <2>1, <2>2, <2>3 DEF CrossTenantFkInv
<1>14. CASE FK!Disconnect
  <2>1. /\ me.at = "close" /\ Common' /\ Plays /\ me'.at = "done"
        /\ me'.loc = me.loc /\ me'.said = me.said /\ me'.todo = me.todo /\ (Counts' => Counts)
    BY <1>b, <1>t, <1>14, Disconnects
  <2>2. (\A e : Done(e)' <=> Done(e)) /\ (Unclear' <=> Unclear) BY <1>u, <1>t, <1>c, <2>1, Quiet
  <2>3. CrossTenantFkKnow' BY <1>u, <1>c, <2>1, <2>2 DEF CrossTenantFkKnow
  <2>4. \A e : ~CrossTenantFkPending(e) BY <2>1 DEF CrossTenantFkPending
  <2> QED BY <1>t, <2>1, <2>2, <2>3, <2>4 DEF CrossTenantFkInv
<1> QED BY <1>1, <1>2, <1>3, <1>4, <1>5, <1>6, <1>7, <1>8, <1>9, <1>10, <1>11, <1>12, <1>13, <1>14 DEF FK!Next,
    FK!Check, FK!Run

\* So does a fault, whenever it strikes.
LEMMA CrossTenantFkStruck ==
  ASSUME Common, CrossTenantFkInv, world.guard = "cross-tenant-fk", Drop \/ Cancel
  PROVE  Common' /\ CrossTenantFkInv'
<1>1. world' = world /\ fault = "none" BY DEF Drop, Cancel
<1>2. Truth'.exposed = Truth.exposed /\ Truth.blind \subseteq Truth'.blind /\ Truth.spurious \subseteq Truth'.spurious
  <2>1. Truth = FK!Truth /\ Truth' = FK!Truth' BY <1>1 DEF Truth
  <2>2. FK!Exposed' = FK!Exposed BY <1>1 DEF FK!CandidateFk, FK!Candidates, FK!Crosses, FK!Exposed
  <2>3. FK!Blind \subseteq FK!Blind' BY <1>1, <2>2 DEF FK!Blind
  <2>4. FK!Spurious \subseteq FK!Spurious' BY <1>1 DEF FK!Spurious
  <2> QED BY <2>1, <2>2, <2>3, <2>4 DEF FK!Truth
<1>3. /\ me' = me /\ fault' # "none" /\ Common'
      /\ \/ fault' = "lost" /\ pg'.st = "lost" /\ pg'.who = "nobody" /\ pg'.saves = <<>>
         \/ fault' = "cancelled" /\ pg.st = "open" /\ pg'.st = "aborted" /\ pg' = Failed
      /\ \A e : Done(e) => Done(e)'
      /\ \A k, x : Untold(k, x)' <=> Untold(k, x)
      /\ Unclear' <=> Unclear
  BY <1>2, Striking
<1>4. CrossTenantFkKnow' BY <1>1, <1>3, <1>2 DEF CrossTenantFkInv, CrossTenantFkKnow, Todo, KeyAsked, Current, Target,
    Live, FK!Candidates, FK!CandidateFk
<1>5. \A e : CrossTenantFkPending(e) => CrossTenantFkPending(e)' BY <1>1, <1>3 DEF CrossTenantFkPending, Todo
<1> QED BY <1>2, <1>3, <1>4, <1>5 DEF CrossTenantFkInv, Counts

\* Cross-tenant-fk begins so.
LEMMA CrossTenantFkBegins == ASSUME FK!Init PROVE Common /\ CrossTenantFkInv /\ world.guard = "cross-tenant-fk"
<1>1. Begins("cross-tenant-fk") /\ me.loc = [probe |-> "unknown", gone |-> FALSE]
  BY WorldAssumption DEF Names, Begins, Whole, Count, Closed, FK!Init, FK!Enter, FK!Entered, FK!Closed
<1>2. Common BY <1>1, Beginning DEF Names
<1>3. CrossTenantFkKnow BY <1>1 DEF CrossTenantFkKnow, Begins, Unclear
<1> QED BY <1>1, <1>2, <1>3 DEF CrossTenantFkInv, CrossTenantFkPending, Begins

\* A step of nobody keeps it.
LEMMA CrossTenantFkStays ==
  ASSUME Common, CrossTenantFkInv, world.guard = "cross-tenant-fk", UNCHANGED vars
  PROVE  Common' /\ CrossTenantFkInv'
<1>1. world' = world /\ fault' = fault /\ pg' = pg /\ me' = me BY DEF vars
<1>2. Truth' = Truth BY <1>1, CrossTenantFkSame
<1>3. Common' /\ (\A e : Done(e)' <=> Done(e)) /\ (Counts' <=> Counts) BY <1>1, <1>2, Resting
<1>4. Todo' = Todo /\ Current' = Current /\ Target' = Target /\ (Live' <=> Live) /\ KeyAsked' = KeyAsked
  BY <1>1 DEF Todo, Elems, Current, Target, Live, KeyAsked
<1>5. FK!Candidates' = FK!Candidates BY <1>1 DEF FK!Candidates, FK!CandidateFk
<1>6. \A k, x : Untold(k, x)' <=> Untold(k, x) BY <1>1 DEF Untold
<1>7. CrossTenantFkKnow' BY <1>1, <1>2, <1>4, <1>5, <1>6 DEF CrossTenantFkInv, CrossTenantFkKnow
<1>8. \A e : CrossTenantFkPending(e)' <=> CrossTenantFkPending(e) BY <1>1, <1>4 DEF CrossTenantFkPending
<1> QED BY <1>2, <1>3, <1>7, <1>8 DEF CrossTenantFkInv

\* At the end nothing is pending, and a question is a target and an arm.
LEMMA CrossTenantFkEnds ==
  ASSUME Common, world.guard = "cross-tenant-fk", CrossTenantFkInv, me.at = "done", Counts
  PROVE  /\ \A e \in Truth.exposed : e = Key(e) /\ Done(e)
         /\ Truth.provable \subseteq Truth.exposed
<1>1. \A e : ~CrossTenantFkPending(e) BY DEF CrossTenantFkPending
<1> QED BY <1>1, CrossTenantFkPoints DEF CrossTenantFkInv, Key

-----------------------------------------------------------------------------
(* What all of them promise.                                               *)

\* What holds throughout: the session, the shape and the meaning of the answers,
\* and for the guard that runs that everything exposed is pending or done.
Answering ==
  /\ Common
  /\ world.guard = "anon-reads"          => AnonReadsInv
  /\ world.guard = "anon-writes"         => AnonWritesInv
  /\ world.guard = "view-isolation"      => ViewIsolationInv
  /\ world.guard = "storage-isolation"   => StorageIsolationInv
  /\ world.guard = "realtime-isolation"  => RealtimeIsolationInv
  /\ world.guard = "definer-rpc"         => DefinerRpcInv
  /\ world.guard = "identity-trust"      => IdentityTrustInv
  /\ world.guard = "column-exposure"     => ColumnExposureInv
  /\ world.guard = "trigger-visibility"  => TriggerVisibilityInv
  /\ world.guard = "schema-tenancy"      => SchemaTenancyInv
  /\ world.guard = "default-privileges"  => DefaultPrivilegesInv
  /\ world.guard = "cross-tenant-fk"     => CrossTenantFkInv
  /\ world.guard = "role-capabilities"   => RoleCapabilitiesInv
  /\ world.guard = "constraint-oracles"  => ConstraintOraclesInv
  /\ world.guard = "create-grants"       => CreateGrantsInv
  /\ world.guard = "mfa-enforcement"     => MfaEnforcementInv
  /\ world.guard = "shadow-tables"       => ShadowTablesInv
  /\ world.guard = "pooler-bleed"        => PoolerBleedInv

\* The guard that runs is one of the eighteen.
LEMMA SomeGuard ==
  ASSUME Common
  PROVE  \/ world.guard \in {"anon-reads", "anon-writes", "view-isolation", "storage-isolation", "realtime-isolation", "definer-rpc"}
         \/ world.guard \in {"identity-trust", "column-exposure", "trigger-visibility", "schema-tenancy", "default-privileges", "cross-tenant-fk"}
         \/ world.guard \in {"role-capabilities", "constraint-oracles", "create-grants", "mfa-enforcement", "shadow-tables", "pooler-bleed"}
BY DEF Common, Shape, Names

\* It holds when a guard begins,
LEMMA AnsweringInit == Init => Answering
<1> SUFFICES ASSUME Init PROVE Answering
  OBVIOUS
<1>1. CASE AR!Init BY <1>1, AnonReadsBegins DEF Answering
<1>2. CASE AW!Init BY <1>2, AnonWritesBegins DEF Answering
<1>3. CASE VI!Init BY <1>3, ViewIsolationBegins DEF Answering
<1>4. CASE SI!Init BY <1>4, StorageIsolationBegins DEF Answering
<1>5. CASE RI!Init BY <1>5, RealtimeIsolationBegins DEF Answering
<1>6. CASE DR!Init BY <1>6, DefinerRpcBegins DEF Answering
<1>7. CASE IT!Init BY <1>7, IdentityTrustBegins DEF Answering
<1>8. CASE CE!Init BY <1>8, ColumnExposureBegins DEF Answering
<1>9. CASE TV!Init BY <1>9, TriggerVisibilityBegins DEF Answering
<1>10. CASE ST!Init BY <1>10, SchemaTenancyBegins DEF Answering
<1>11. CASE DP!Init BY <1>11, DefaultPrivilegesBegins DEF Answering
<1>12. CASE FK!Init BY <1>12, CrossTenantFkBegins DEF Answering
<1>13. CASE RC!Init BY <1>13, RoleCapabilitiesBegins DEF Answering
<1>14. CASE CO!Init BY <1>14, ConstraintOraclesBegins DEF Answering
<1>15. CASE CG!Init BY <1>15, CreateGrantsBegins DEF Answering
<1>16. CASE ME!Init BY <1>16, MfaEnforcementBegins DEF Answering
<1>17. CASE SH!Init BY <1>17, ShadowTablesBegins DEF Answering
<1>18. CASE PB!Init BY <1>18, PoolerBleedBegins DEF Answering
<1> QED
  BY <1>1, <1>2, <1>3, <1>4, <1>5, <1>6, <1>7, <1>8, <1>9,
     <1>10, <1>11, <1>12, <1>13, <1>14, <1>15, <1>16, <1>17, <1>18
  DEF Init

\* after each of its steps, which are what its runner expects,
LEMMA AnsweringGuard == ASSUME Answering, Guard PROVE Answering' /\ Plays /\ world' = world
<1>1. CASE world.guard = "anon-reads" /\ AR!Next
  <2>1. world' = world BY <1>1, AnonReadsRest
  <2>2. Common' /\ AnonReadsInv' /\ Plays BY <1>1, AnonReadsAnswers DEF Answering
  <2> QED BY <1>1, <2>1, <2>2 DEF Answering
<1>2. CASE world.guard = "anon-writes" /\ AW!Next
  <2>1. world' = world BY <1>2, AnonWritesRest
  <2>2. Common' /\ AnonWritesInv' /\ Plays BY <1>2, AnonWritesAnswers DEF Answering
  <2> QED BY <1>2, <2>1, <2>2 DEF Answering
<1>3. CASE world.guard = "view-isolation" /\ VI!Next
  <2>1. world' = world BY <1>3, ViewIsolationRest
  <2>2. Common' /\ ViewIsolationInv' /\ Plays BY <1>3, ViewIsolationAnswers DEF Answering
  <2> QED BY <1>3, <2>1, <2>2 DEF Answering
<1>4. CASE world.guard = "storage-isolation" /\ SI!Next
  <2>1. world' = world BY <1>4, StorageIsolationRest
  <2>2. Common' /\ StorageIsolationInv' /\ Plays BY <1>4, StorageIsolationAnswers DEF Answering
  <2> QED BY <1>4, <2>1, <2>2 DEF Answering
<1>5. CASE world.guard = "realtime-isolation" /\ RI!Next
  <2>1. world' = world BY <1>5, RealtimeIsolationRest
  <2>2. Common' /\ RealtimeIsolationInv' /\ Plays BY <1>5, RealtimeIsolationAnswers DEF Answering
  <2> QED BY <1>5, <2>1, <2>2 DEF Answering
<1>6. CASE world.guard = "definer-rpc" /\ DR!Next
  <2>1. world' = world BY <1>6, DefinerRpcRest
  <2>2. Common' /\ DefinerRpcInv' /\ Plays BY <1>6, DefinerRpcAnswers DEF Answering
  <2> QED BY <1>6, <2>1, <2>2 DEF Answering
<1>7. CASE world.guard = "identity-trust" /\ IT!Next
  <2>1. world' = world BY <1>7, IdentityTrustRest
  <2>2. Common' /\ IdentityTrustInv' /\ Plays BY <1>7, IdentityTrustAnswers DEF Answering
  <2> QED BY <1>7, <2>1, <2>2 DEF Answering
<1>8. CASE world.guard = "column-exposure" /\ CE!Next
  <2>1. world' = world BY <1>8, ColumnExposureRest
  <2>2. Common' /\ ColumnExposureInv' /\ Plays BY <1>8, ColumnExposureAnswers DEF Answering
  <2> QED BY <1>8, <2>1, <2>2 DEF Answering
<1>9. CASE world.guard = "trigger-visibility" /\ TV!Next
  <2>1. world' = world BY <1>9, TriggerVisibilityRest
  <2>2. Common' /\ TriggerVisibilityInv' /\ Plays BY <1>9, TriggerVisibilityAnswers DEF Answering
  <2> QED BY <1>9, <2>1, <2>2 DEF Answering
<1>10. CASE world.guard = "schema-tenancy" /\ ST!Next
  <2>1. world' = world BY <1>10, SchemaTenancyRest
  <2>2. Common' /\ SchemaTenancyInv' /\ Plays BY <1>10, SchemaTenancyAnswers DEF Answering
  <2> QED BY <1>10, <2>1, <2>2 DEF Answering
<1>11. CASE world.guard = "default-privileges" /\ DP!Next
  <2>1. world' = world BY <1>11, DefaultPrivilegesRest
  <2>2. Common' /\ DefaultPrivilegesInv' /\ Plays BY <1>11, DefaultPrivilegesAnswers DEF Answering
  <2> QED BY <1>11, <2>1, <2>2 DEF Answering
<1>12. CASE world.guard = "cross-tenant-fk" /\ FK!Next
  <2>1. world' = world BY <1>12, CrossTenantFkRest
  <2>2. Common' /\ CrossTenantFkInv' /\ Plays BY <1>12, CrossTenantFkAnswers DEF Answering
  <2> QED BY <1>12, <2>1, <2>2 DEF Answering
<1>13. CASE world.guard = "role-capabilities" /\ RC!Next
  <2>1. world' = world BY <1>13, RoleCapabilitiesRest
  <2>2. Common' /\ RoleCapabilitiesInv' /\ Plays BY <1>13, RoleCapabilitiesAnswers DEF Answering
  <2> QED BY <1>13, <2>1, <2>2 DEF Answering
<1>14. CASE world.guard = "constraint-oracles" /\ CO!Next
  <2>1. world' = world BY <1>14, ConstraintOraclesRest
  <2>2. Common' /\ ConstraintOraclesInv' /\ Plays BY <1>14, ConstraintOraclesAnswers DEF Answering
  <2> QED BY <1>14, <2>1, <2>2 DEF Answering
<1>15. CASE world.guard = "create-grants" /\ CG!Next
  <2>1. world' = world BY <1>15, CreateGrantsRest
  <2>2. Common' /\ CreateGrantsInv' /\ Plays BY <1>15, CreateGrantsAnswers DEF Answering
  <2> QED BY <1>15, <2>1, <2>2 DEF Answering
<1>16. CASE world.guard = "mfa-enforcement" /\ ME!Next
  <2>1. world' = world BY <1>16, MfaEnforcementRest
  <2>2. Common' /\ MfaEnforcementInv' /\ Plays BY <1>16, MfaEnforcementAnswers DEF Answering
  <2> QED BY <1>16, <2>1, <2>2 DEF Answering
<1>17. CASE world.guard = "shadow-tables" /\ SH!Next
  <2>1. world' = world BY <1>17, ShadowTablesRest
  <2>2. Common' /\ ShadowTablesInv' /\ Plays BY <1>17, ShadowTablesAnswers DEF Answering
  <2> QED BY <1>17, <2>1, <2>2 DEF Answering
<1>18. CASE world.guard = "pooler-bleed" /\ PB!Next
  <2>1. world' = world BY <1>18, PoolerBleedRest
  <2>2. Common' /\ PoolerBleedInv' /\ Plays BY <1>18, PoolerBleedAnswers DEF Answering
  <2> QED BY <1>18, <2>1, <2>2 DEF Answering
<1> QED
  BY <1>1, <1>2, <1>3, <1>4, <1>5, <1>6, <1>7, <1>8, <1>9,
     <1>10, <1>11, <1>12, <1>13, <1>14, <1>15, <1>16, <1>17, <1>18
  DEF Guard

\* after a fault,
LEMMA AnsweringFault == ASSUME Answering, Drop \/ Cancel PROVE Answering' /\ me' = me
<1>0. Common /\ world' = world /\ me' = me BY DEF Drop, Cancel, Answering
<1>1. CASE world.guard = "anon-reads"
  <2>1. Common' /\ AnonReadsInv' BY <1>1, AnonReadsStruck DEF Answering
  <2> QED BY <1>0, <1>1, <2>1 DEF Answering
<1>2. CASE world.guard = "anon-writes"
  <2>1. Common' /\ AnonWritesInv' BY <1>2, AnonWritesStruck DEF Answering
  <2> QED BY <1>0, <1>2, <2>1 DEF Answering
<1>3. CASE world.guard = "view-isolation"
  <2>1. Common' /\ ViewIsolationInv' BY <1>3, ViewIsolationStruck DEF Answering
  <2> QED BY <1>0, <1>3, <2>1 DEF Answering
<1>4. CASE world.guard = "storage-isolation"
  <2>1. Common' /\ StorageIsolationInv' BY <1>4, StorageIsolationStruck DEF Answering
  <2> QED BY <1>0, <1>4, <2>1 DEF Answering
<1>5. CASE world.guard = "realtime-isolation"
  <2>1. Common' /\ RealtimeIsolationInv' BY <1>5, RealtimeIsolationStruck DEF Answering
  <2> QED BY <1>0, <1>5, <2>1 DEF Answering
<1>6. CASE world.guard = "definer-rpc"
  <2>1. Common' /\ DefinerRpcInv' BY <1>6, DefinerRpcStruck DEF Answering
  <2> QED BY <1>0, <1>6, <2>1 DEF Answering
<1>7. CASE world.guard = "identity-trust"
  <2>1. Common' /\ IdentityTrustInv' BY <1>7, IdentityTrustStruck DEF Answering
  <2> QED BY <1>0, <1>7, <2>1 DEF Answering
<1>8. CASE world.guard = "column-exposure"
  <2>1. Common' /\ ColumnExposureInv' BY <1>8, ColumnExposureStruck DEF Answering
  <2> QED BY <1>0, <1>8, <2>1 DEF Answering
<1>9. CASE world.guard = "trigger-visibility"
  <2>1. Common' /\ TriggerVisibilityInv' BY <1>9, TriggerVisibilityStruck DEF Answering
  <2> QED BY <1>0, <1>9, <2>1 DEF Answering
<1>10. CASE world.guard = "schema-tenancy"
  <2>1. Common' /\ SchemaTenancyInv' BY <1>10, SchemaTenancyStruck DEF Answering
  <2> QED BY <1>0, <1>10, <2>1 DEF Answering
<1>11. CASE world.guard = "default-privileges"
  <2>1. Common' /\ DefaultPrivilegesInv' BY <1>11, DefaultPrivilegesStruck DEF Answering
  <2> QED BY <1>0, <1>11, <2>1 DEF Answering
<1>12. CASE world.guard = "cross-tenant-fk"
  <2>1. Common' /\ CrossTenantFkInv' BY <1>12, CrossTenantFkStruck DEF Answering
  <2> QED BY <1>0, <1>12, <2>1 DEF Answering
<1>13. CASE world.guard = "role-capabilities"
  <2>1. Common' /\ RoleCapabilitiesInv' BY <1>13, RoleCapabilitiesStruck DEF Answering
  <2> QED BY <1>0, <1>13, <2>1 DEF Answering
<1>14. CASE world.guard = "constraint-oracles"
  <2>1. Common' /\ ConstraintOraclesInv' BY <1>14, ConstraintOraclesStruck DEF Answering
  <2> QED BY <1>0, <1>14, <2>1 DEF Answering
<1>15. CASE world.guard = "create-grants"
  <2>1. Common' /\ CreateGrantsInv' BY <1>15, CreateGrantsStruck DEF Answering
  <2> QED BY <1>0, <1>15, <2>1 DEF Answering
<1>16. CASE world.guard = "mfa-enforcement"
  <2>1. Common' /\ MfaEnforcementInv' BY <1>16, MfaEnforcementStruck DEF Answering
  <2> QED BY <1>0, <1>16, <2>1 DEF Answering
<1>17. CASE world.guard = "shadow-tables"
  <2>1. Common' /\ ShadowTablesInv' BY <1>17, ShadowTablesStruck DEF Answering
  <2> QED BY <1>0, <1>17, <2>1 DEF Answering
<1>18. CASE world.guard = "pooler-bleed"
  <2>1. Common' /\ PoolerBleedInv' BY <1>18, PoolerBleedStruck DEF Answering
  <2> QED BY <1>0, <1>18, <2>1 DEF Answering
<1> QED
  BY <1>0, SomeGuard, <1>1, <1>2, <1>3, <1>4, <1>5, <1>6, <1>7, <1>8, <1>9,
     <1>10, <1>11, <1>12, <1>13, <1>14, <1>15, <1>16, <1>17, <1>18

\* and after a step of nobody.
LEMMA AnsweringNothing == ASSUME Answering, UNCHANGED vars PROVE Answering' /\ me' = me
<1>0. Common /\ world' = world /\ me' = me BY DEF vars, Answering
<1>1. CASE world.guard = "anon-reads"
  <2>1. Common' /\ AnonReadsInv' BY <1>1, AnonReadsStays DEF Answering
  <2> QED BY <1>0, <1>1, <2>1 DEF Answering
<1>2. CASE world.guard = "anon-writes"
  <2>1. Common' /\ AnonWritesInv' BY <1>2, AnonWritesStays DEF Answering
  <2> QED BY <1>0, <1>2, <2>1 DEF Answering
<1>3. CASE world.guard = "view-isolation"
  <2>1. Common' /\ ViewIsolationInv' BY <1>3, ViewIsolationStays DEF Answering
  <2> QED BY <1>0, <1>3, <2>1 DEF Answering
<1>4. CASE world.guard = "storage-isolation"
  <2>1. Common' /\ StorageIsolationInv' BY <1>4, StorageIsolationStays DEF Answering
  <2> QED BY <1>0, <1>4, <2>1 DEF Answering
<1>5. CASE world.guard = "realtime-isolation"
  <2>1. Common' /\ RealtimeIsolationInv' BY <1>5, RealtimeIsolationStays DEF Answering
  <2> QED BY <1>0, <1>5, <2>1 DEF Answering
<1>6. CASE world.guard = "definer-rpc"
  <2>1. Common' /\ DefinerRpcInv' BY <1>6, DefinerRpcStays DEF Answering
  <2> QED BY <1>0, <1>6, <2>1 DEF Answering
<1>7. CASE world.guard = "identity-trust"
  <2>1. Common' /\ IdentityTrustInv' BY <1>7, IdentityTrustStays DEF Answering
  <2> QED BY <1>0, <1>7, <2>1 DEF Answering
<1>8. CASE world.guard = "column-exposure"
  <2>1. Common' /\ ColumnExposureInv' BY <1>8, ColumnExposureStays DEF Answering
  <2> QED BY <1>0, <1>8, <2>1 DEF Answering
<1>9. CASE world.guard = "trigger-visibility"
  <2>1. Common' /\ TriggerVisibilityInv' BY <1>9, TriggerVisibilityStays DEF Answering
  <2> QED BY <1>0, <1>9, <2>1 DEF Answering
<1>10. CASE world.guard = "schema-tenancy"
  <2>1. Common' /\ SchemaTenancyInv' BY <1>10, SchemaTenancyStays DEF Answering
  <2> QED BY <1>0, <1>10, <2>1 DEF Answering
<1>11. CASE world.guard = "default-privileges"
  <2>1. Common' /\ DefaultPrivilegesInv' BY <1>11, DefaultPrivilegesStays DEF Answering
  <2> QED BY <1>0, <1>11, <2>1 DEF Answering
<1>12. CASE world.guard = "cross-tenant-fk"
  <2>1. Common' /\ CrossTenantFkInv' BY <1>12, CrossTenantFkStays DEF Answering
  <2> QED BY <1>0, <1>12, <2>1 DEF Answering
<1>13. CASE world.guard = "role-capabilities"
  <2>1. Common' /\ RoleCapabilitiesInv' BY <1>13, RoleCapabilitiesStays DEF Answering
  <2> QED BY <1>0, <1>13, <2>1 DEF Answering
<1>14. CASE world.guard = "constraint-oracles"
  <2>1. Common' /\ ConstraintOraclesInv' BY <1>14, ConstraintOraclesStays DEF Answering
  <2> QED BY <1>0, <1>14, <2>1 DEF Answering
<1>15. CASE world.guard = "create-grants"
  <2>1. Common' /\ CreateGrantsInv' BY <1>15, CreateGrantsStays DEF Answering
  <2> QED BY <1>0, <1>15, <2>1 DEF Answering
<1>16. CASE world.guard = "mfa-enforcement"
  <2>1. Common' /\ MfaEnforcementInv' BY <1>16, MfaEnforcementStays DEF Answering
  <2> QED BY <1>0, <1>16, <2>1 DEF Answering
<1>17. CASE world.guard = "shadow-tables"
  <2>1. Common' /\ ShadowTablesInv' BY <1>17, ShadowTablesStays DEF Answering
  <2> QED BY <1>0, <1>17, <2>1 DEF Answering
<1>18. CASE world.guard = "pooler-bleed"
  <2>1. Common' /\ PoolerBleedInv' BY <1>18, PoolerBleedStays DEF Answering
  <2> QED BY <1>0, <1>18, <2>1 DEF Answering
<1> QED
  BY <1>0, SomeGuard, <1>1, <1>2, <1>3, <1>4, <1>5, <1>6, <1>7, <1>8, <1>9,
     <1>10, <1>11, <1>12, <1>13, <1>14, <1>15, <1>16, <1>17, <1>18

\* So it is an invariant.
LEMMA AnsweringStep == Answering /\ [Next]_vars => Answering'
BY AnsweringGuard, AnsweringFault, AnsweringNothing DEF Next

LEMMA AnsweringAlways == Spec => []Answering
BY AnsweringInit, AnsweringStep, PTL DEF Spec

\* A guard that delivers its verdict has done with everything exposed.
LEMMA Delivering ==
  ASSUME Answering, Delivered
  PROVE  /\ \A e \in Truth.exposed : e = Key(e) /\ Done(e)
         /\ Truth.provable \subseteq Truth.exposed
<1>0. Common /\ Counts /\ me.at = "done"
  BY DEF Answering, Common, Shape, Delivered, Counts
<1>1. CASE world.guard = "anon-reads" BY <1>0, <1>1, AnonReadsEnds DEF Answering
<1>2. CASE world.guard = "anon-writes" BY <1>0, <1>2, AnonWritesEnds DEF Answering
<1>3. CASE world.guard = "view-isolation" BY <1>0, <1>3, ViewIsolationEnds DEF Answering
<1>4. CASE world.guard = "storage-isolation" BY <1>0, <1>4, StorageIsolationEnds DEF Answering
<1>5. CASE world.guard = "realtime-isolation" BY <1>0, <1>5, RealtimeIsolationEnds DEF Answering
<1>6. CASE world.guard = "definer-rpc" BY <1>0, <1>6, DefinerRpcEnds DEF Answering
<1>7. CASE world.guard = "identity-trust" BY <1>0, <1>7, IdentityTrustEnds DEF Answering
<1>8. CASE world.guard = "column-exposure" BY <1>0, <1>8, ColumnExposureEnds DEF Answering
<1>9. CASE world.guard = "trigger-visibility" BY <1>0, <1>9, TriggerVisibilityEnds DEF Answering
<1>10. CASE world.guard = "schema-tenancy" BY <1>0, <1>10, SchemaTenancyEnds DEF Answering
<1>11. CASE world.guard = "default-privileges" BY <1>0, <1>11, DefaultPrivilegesEnds DEF Answering
<1>12. CASE world.guard = "cross-tenant-fk" BY <1>0, <1>12, CrossTenantFkEnds DEF Answering
<1>13. CASE world.guard = "role-capabilities" BY <1>0, <1>13, RoleCapabilitiesEnds DEF Answering
<1>14. CASE world.guard = "constraint-oracles" BY <1>0, <1>14, ConstraintOraclesEnds DEF Answering
<1>15. CASE world.guard = "create-grants" BY <1>0, <1>15, CreateGrantsEnds DEF Answering
<1>16. CASE world.guard = "mfa-enforcement" BY <1>0, <1>16, MfaEnforcementEnds DEF Answering
<1>17. CASE world.guard = "shadow-tables" BY <1>0, <1>17, ShadowTablesEnds DEF Answering
<1>18. CASE world.guard = "pooler-bleed" BY <1>0, <1>18, PoolerBleedEnds DEF Answering
<1> QED
  BY <1>0, SomeGuard, <1>1, <1>2, <1>3, <1>4, <1>5, <1>6, <1>7, <1>8, <1>9,
     <1>10, <1>11, <1>12, <1>13, <1>14, <1>15, <1>16, <1>17, <1>18

\* The session, the list and the answers of every guard are what they should be.
THEOREM AnswersTyped == Spec => []TypeOK
<1>1. Answering => TypeOK
  <2> SUFFICES ASSUME Answering PROVE TypeOK
    OBVIOUS
  <2>1. Session /\ Shape /\ Meant BY DEF Answering, Common
  <2>2. \A a \in me.said : DOMAIN a = {"on", "arm", "says"} /\ a.says \in {"leak", "note", "clear"}
    <3>1. ASSUME NEW a \in me.said PROVE DOMAIN a = {"on", "arm", "says"} /\ a.says \in {"leak", "note", "clear"}
      <4>1. a = [on |-> a.on, arm |-> a.arm, says |-> a.says] /\ a.says \in {"leak", "note", "clear"}
        BY <2>1 DEF Meant, Meaning
      <4>2. DOMAIN [on |-> a.on, arm |-> a.arm, says |-> a.says] = {"on", "arm", "says"} OBVIOUS
      <4> QED BY <4>1, <4>2
    <3> QED BY <3>1
  <2>3. \A i \in 1..Len(me.todo) : me.todo[i] \in 1..Len(world.targets) BY <2>1 DEF Shape, Queue, Count
  <2>4. me.thrown \in BOOLEAN /\ me.result \in Results BY <2>1 DEF Shape, Results
  <2> QED BY <2>1, <2>2, <2>3, <2>4 DEF Session, Proper, Roles, TypeOK
<1> QED BY <1>1, AnsweringAlways, PTL

\* No guard fails the build for what is not there, in any database, with any
\* fault: a finding names a target that is exposed, or a listed misjudgement.
THEOREM FindingsAreReal == Spec => []FlaggedIsReal
<1>1. Answering => FlaggedIsReal
  BY DEF Answering, Common, Meant, Meaning, Key, FlaggedIsReal, Answered
<1> QED BY <1>1, AnsweringAlways, PTL

\* No guard delivers a verdict and is silent about a target that is exposed, the
\* listed blind spots apart, or has called it isolated.
THEOREM NothingIsSilent == Spec => []NothingSilent
<1>1. Answering => NothingSilent
  <2> SUFFICES ASSUME Answering, Delivered
               PROVE  /\ \A e \in Truth.exposed \ Truth.blind : \E a \in me.said : a.on = e.on /\ a.says # "clear"
                      /\ (Truth.exposed \ Truth.blind) \cap Answered("clear") = {}
    BY DEF NothingSilent
  <2>1. \A e \in Truth.exposed \ Truth.blind : \E a \in me.said : a.on = e.on /\ a.says # "clear"
    BY Delivering DEF Done, Heard
  <2>2. ASSUME NEW e \in Truth.exposed \ Truth.blind PROVE e \notin Answered("clear")
    BY DEF Answering, Common, Meant, Meaning, Key, Answered
  <2> QED BY <2>1, <2>2
<1> QED BY <1>1, AnsweringAlways, PTL

\* Without a fault no target costs another its finding: whatever a probe can prove
\* is among the findings, whichever of the other targets raise.
THEOREM EachTargetForItself == Spec => []OneFailureIsOneTarget
<1>1. Answering => OneFailureIsOneTarget
  <2> SUFFICES ASSUME Answering, Delivered, fault = "none", NEW e \in Truth.provable
               PROVE  e \in Answered("leak")
    BY DEF OneFailureIsOneTarget
  <2>1. e = Key(e) /\ Done(e) BY Delivering
  <2>2. PICK a \in me.said : a.on = e.on /\ a.arm = e.arm /\ a.says = "leak" BY <2>1 DEF Done, Found
  <2>3. e = [on |-> a.on, arm |-> a.arm] BY <2>1, <2>2 DEF Key
  <2> QED BY <2>2, <2>3 DEF Answered
<1> QED BY <1>1, AnsweringAlways, PTL

\* Every guard implements the contract of its runner: answers are only added while
\* it runs, no question is answered both ways, and one verdict that fits them ends it.
THEOREM ContractIsKept == Spec => KeepsContract
<1>1. Init => Contract!Init
  <2> SUFFICES ASSUME Init PROVE Contract!Init
    OBVIOUS
  <2>1. me.said = {} /\ me.at = "start"
    BY DEF Init, AR!Init, AR!Enter, AR!Entered, AW!Init, AW!Enter, AW!Entered, VI!Init, VI!Enter, VI!Entered, SI!Init,
           SI!Enter, SI!Entered, RI!Init, RI!Enter, RI!Entered, DR!Init, DR!Enter, DR!Entered, IT!Init, IT!Enter,
           IT!Entered, CE!Init, CE!Enter, CE!Entered, TV!Init, TV!Enter, TV!Entered, ST!Init, ST!Enter, ST!Entered,
           DP!Init, DP!Enter, DP!Entered, FK!Init, FK!Enter, FK!Entered, RC!Init, RC!Enter, RC!Entered, CO!Init,
           CO!Enter, CO!Entered, CG!Init, CG!Enter, CG!Entered, ME!Init, ME!Enter, ME!Entered, SH!Init, SH!Enter,
           SH!Entered, PB!Init, PB!Enter, PB!Entered
  <2> QED BY <2>1 DEF Contract!Init
<1>2. Answering /\ Answering' /\ [Next]_vars => [Contract!Answer \/ Contract!Conclude]_(Contract!vars)
  <2> SUFFICES ASSUME Answering, Answering', [Next]_vars
               PROVE  Contract!Answer \/ Contract!Conclude \/ UNCHANGED Contract!vars
    OBVIOUS
  <2>1. CASE Guard
    <3>1. Plays BY <2>1, AnsweringGuard
    <3>2. CASE me'.at # "done" /\ me.said \subseteq me'.said
      <4>1. Contract!Consistent(me'.said) BY DEF Answering, Common, Meant, Agreed, Contract!Consistent
      <4> QED BY <3>1, <3>2, <4>1 DEF Plays, Contract!Answer
    <3>3. CASE /\ me'.at = "done" /\ me'.said = me.said
               /\ \/ me'.result \in {"skip", "refused", "thrown"}
                  \/ me'.result = "fail" /\ LeaksIn(me.said) # {}
                  \/ me'.result = "ok" /\ LeaksIn(me.said) = {}
      <4>1. Contract!Leaks = LeaksIn(me.said) BY DEF Contract!Leaks, LeaksIn
      <4> QED BY <3>1, <3>3, <4>1 DEF Plays, Contract!Conclude
    <3> QED BY <3>1, <3>2, <3>3 DEF Plays
  <2>2. CASE Drop \/ Cancel \/ UNCHANGED vars
    <3>1. me' = me BY <2>2 DEF Drop, Cancel, vars
    <3> QED BY <3>1 DEF Contract!vars
  <2> QED BY <2>1, <2>2 DEF Next
<1> QED BY <1>1, <1>2, AnsweringAlways, PTL DEF Spec, KeepsContract, Contract!Spec

-----------------------------------------------------------------------------
(* identity-trust rejects for a reason, as ProbeGuardsSteady shows of the  *)
(* other guards: here it is known which tables it forges a claim for.      *)

\* A step of it finds the session in the state it needs.
LEMMA IdentityTrustCalm ==
  ASSUME SteadyInv, Common, IdentityTrustKnow, world.guard = "identity-trust", IT!Next
  PROVE  SteadyInv'
<1>u. world' = world /\ fault' = fault BY IdentityTrustRest
<1>t. Truth' = Truth BY <1>u, IdentityTrustSame
<1>c. (Clear' <=> Clear) /\ (world.setup = "refused" => ~Clear) BY <1>u, <1>t DEF Clear
<1>w. /\ Inside = {"next", "role", "baseline", "forged", "reset"} /\ Inside' = Inside
      /\ Held = {} /\ Held' = Held
  BY <1>u DEF Inside, Held
<1>o. /\ IT!Live <=> Live
      /\ IT!Failed = Failed
      /\ IT!Began(pg) = Began(pg)
      /\ IT!RolledBack(pg) = RolledBack(pg)
      /\ IT!Closed = Closed
      /\ \A x : IT!AsRole(pg, x) = AsRole(pg, x) /\ IT!Acting(pg, x) = Acting(pg, x)
  BY DEF IT!Live, Live, IT!Failed, Failed, IT!Began, Began, IT!RolledBack, RolledBack, IT!Closed, Closed, IT!AsRole,
      AsRole,
         IT!Acting, Acting
<1>g. Ground BY Grounds DEF SteadyInv
<1>p. \A x : /\ Sound(AsRole(pg, x)) /\ AsRole(pg, x).st = pg.st
             /\ Sound(Acting(pg, x)) /\ Acting(pg, x).st = pg.st
  BY Plainly DEF SteadyInv
<1>d. Placed' BY <1>u DEF Placed
<1>f. me.at \notin {"start", "close", "done", "finally"} => me.result # "thrown" BY DEF SteadyInv
\* Without a fault a statement finds its session.
<1>i. Clear /\ me.at \notin {"start", "close", "done", "finally"} =>
        /\ Live /\ ~me.thrown
        /\ pg.st = IF me.at \in Inside THEN "open" ELSE "idle"
  BY <1>w DEF SteadyInv, Calm, Fits, Loose, Ends, Live
\* And a forgery a table that can be forged for.
<1>h. Clear /\ me.at \in {"role", "baseline", "forged", "reset"} => world.member /\ Target.forge \notin {"denied", "error"}
  <2>1. SUFFICES ASSUME Clear, me.at \in {"role", "baseline", "forged", "reset"}
                 PROVE  world.member /\ Target.forge \notin {"denied", "error"}
    OBVIOUS
  <2>2. me.todo # <<>> /\ Todo \subseteq IT!Metadata BY <2>1 DEF IdentityTrustKnow
  <2>3. Current \in Todo BY <2>2, Popping DEF Common, Shape, Todo, Current
  <2>4. ~IT!Fragile BY <2>1 DEF Clear, Truth, IT!Truth
  <2> QED BY <2>2, <2>3, <2>4 DEF IT!Fragile, Target, Current
<1> DEFINE Goes(l) == DOMAIN me' = DOMAIN me /\ me'.at = l /\ me'.thrown = me.thrown /\ me'.result \in {me.result, "skip"}
<1>e. /\ \A l : me' = IT!To(l) => Goes(l)
      /\ \A l, x : me' = [IT!To(l) EXCEPT !.said = x] => Goes(l)
      /\ me' = IT!Ending(me, "skip") => Goes("close")
      /\ me' = IT!Onward(me) => Goes("next")
      /\ me' = IT!Thrown => DOMAIN me' = DOMAIN me /\ me'.at = "finally" /\ me'.result = me.result
  BY DEF SteadyInv, IT!To, IT!Ending, IT!Onward, IT!Thrown
\* Going on, and failing.
<1>s. ASSUME NEW l, Goes(l), me.at \notin {"start", "close", "done", "finally"}, Sound(pg'),
             Clear => Fits(pg'.st, l, pg'.saves)
      PROVE  SteadyInv'
  <2>1. me'.result # "thrown" BY <1>f, <1>s
  <2>2. Clear' => Calm' BY <1>c, <1>i, <1>s, <1>w DEF Calm, Fits
  <2> QED BY <1>s, <1>d, <2>1, <2>2 DEF SteadyInv
<1>r. ASSUME me' = IT!Thrown, me.at \notin {"start", "close", "done", "finally"}, pg' = Failed, ~Clear
      PROVE  SteadyInv'
  <2>1. me'.result # "thrown" /\ DOMAIN me' = DOMAIN me BY <1>e, <1>f, <1>r
  <2> QED BY <1>c, <1>d, <1>g, <1>r, <2>1 DEF SteadyInv, Ground
<1> HIDE DEF Goes
<1>1. CASE IT!PlanPolicies
  <2>1. /\ me.at = "plan"
        /\ \/ pg' = pg /\ (me' = IT!Ending(me, "skip") \/ me' = IT!To("functions") \/ me' = IT!To("authority"))
           \/ ~Live /\ pg' = Failed /\ me' = IT!Thrown
    BY <1>1, <1>o, Zenon DEF IT!PlanPolicies, IT!Await, IT!Do
  <2>2. CASE pg' = pg /\ (me' = IT!Ending(me, "skip") \/ me' = IT!To("functions") \/ me' = IT!To("authority"))
    <3>1. PICK l \in {"close", "functions", "authority"} : Goes(l) BY <1>e, <2>2
    <3>2. Clear => Fits(pg'.st, l, pg'.saves) BY <1>i, <1>w, <2>1, <2>2, <3>1 DEF Fits, Ends
    <3> QED BY <1>s, <1>g, <2>1, <2>2, <3>1, <3>2 DEF Ground
  <2> QED BY <1>i, <1>r, <2>1, <2>2
<1>2. CASE IT!DefinerFunctions
  <2>1. /\ me.at = "functions"
        /\ \/ pg' = pg /\ \E x : me' = [IT!To("authority") EXCEPT !.said = x]
           \/ ~Live /\ pg' = Failed /\ me' = IT!Thrown
    BY <1>2, <1>o, Zenon DEF IT!DefinerFunctions, IT!Await, IT!Do
  <2>2. CASE pg' = pg /\ \E x : me' = [IT!To("authority") EXCEPT !.said = x]
    <3>1. Goes("authority") BY <1>e, <2>2
    <3>2. Clear => Fits(pg'.st, "authority", pg'.saves) BY <1>i, <1>w, <2>1, <2>2 DEF Fits, Ends
    <3> QED BY <1>s, <1>g, <2>1, <2>2, <3>1, <3>2 DEF Ground
  <2> QED BY <1>i, <1>r, <2>1, <2>2
<1>3. CASE IT!AuthorityTables
  <2>1. /\ me.at = "authority"
        /\ \/ pg' = pg /\ \E x, y : \/ me' = [[me EXCEPT !.said = x] EXCEPT !.at = "self"]
                                    \/ me' = [[[me EXCEPT !.said = x] EXCEPT !.at = "begin"] EXCEPT !.todo = y]
           \/ ~Live /\ pg' = Failed /\ me' = IT!Thrown
    BY <1>3, <1>o, Zenon DEF IT!AuthorityTables, IT!Await, IT!Do
  <2>2. CASE pg' = pg /\ \E x, y : \/ me' = [[me EXCEPT !.said = x] EXCEPT !.at = "self"]
                                   \/ me' = [[[me EXCEPT !.said = x] EXCEPT !.at = "begin"] EXCEPT !.todo = y]
    <3>0. ASSUME NEW x, me' = [[me EXCEPT !.said = x] EXCEPT !.at = "self"] PROVE Goes("self")
      BY <3>0 DEF SteadyInv, Goes
    <3>3. ASSUME NEW x, NEW y, me' = [[[me EXCEPT !.said = x] EXCEPT !.at = "begin"] EXCEPT !.todo = y] PROVE Goes("begin")
      BY <3>3 DEF SteadyInv, Goes
    <3>1. PICK l \in {"self", "begin"} : Goes(l)
      <4>1. PICK x, y : \/ me' = [[me EXCEPT !.said = x] EXCEPT !.at = "self"]
                        \/ me' = [[[me EXCEPT !.said = x] EXCEPT !.at = "begin"] EXCEPT !.todo = y]
        BY <2>2
      <4>2. CASE me' = [[me EXCEPT !.said = x] EXCEPT !.at = "self"] BY <3>0, <4>2
      <4>3. CASE me' = [[[me EXCEPT !.said = x] EXCEPT !.at = "begin"] EXCEPT !.todo = y] BY <3>3, <4>3
      <4> QED BY <4>1, <4>2, <4>3
    <3>2. Clear => Fits(pg'.st, l, pg'.saves) BY <1>i, <1>w, <2>1, <2>2, <3>1 DEF Fits, Ends
    <3> QED BY <1>s, <1>g, <2>1, <2>2, <3>1, <3>2 DEF Ground
  <2> QED BY <1>i, <1>r, <2>1, <2>2
<1>4. CASE IT!Begin
  <2>1. /\ me.at = "begin"
        /\ \/ pg' = Began(pg) /\ me' = IT!To("next")
           \/ ~Live /\ pg' = Failed /\ me' = IT!Thrown
    BY <1>4, <1>o, Zenon DEF IT!Begin, IT!Await, IT!Do
  <2>2. CASE pg' = Began(pg) /\ me' = IT!To("next")
    <3>1. Goes("next") BY <1>e, <2>2
    <3>2. Clear => Fits(pg'.st, "next", pg'.saves) BY <1>g, <1>w, <2>2 DEF Fits, Ends, Ground
    <3> QED BY <1>s, <1>g, <2>1, <2>2, <3>1, <3>2 DEF Ground
  <2> QED BY <1>i, <1>r, <2>1, <2>2
<1>5. CASE IT!NextTable
  <2>1. /\ me.at = "next"
        /\ \/ pg' = pg /\ (me' = IT!To("finally") \/ me' = IT!Onward(me) \/ me' = IT!To("role"))
           \/ ~Live /\ pg' = Failed /\ me' = IT!Thrown
    BY <1>5, <1>o, Zenon DEF IT!NextTable, IT!Await, IT!Do
  <2>2. CASE pg' = pg /\ (me' = IT!To("finally") \/ me' = IT!Onward(me) \/ me' = IT!To("role"))
    <3>1. PICK l \in {"finally", "next", "role"} : Goes(l) BY <1>e, <2>2
    <3>2. Clear => Fits(pg'.st, l, pg'.saves) BY <1>i, <1>w, <2>1, <2>2, <3>1 DEF Fits, Ends
    <3> QED BY <1>s, <1>g, <2>1, <2>2, <3>1, <3>2 DEF Ground
  <2> QED BY <1>i, <1>r, <2>1, <2>2
<1>6. CASE IT!SwitchToForge
  <2>1. /\ me.at = "role"
        /\ \/ pg' = AsRole(pg, "app") /\ me' = IT!To("baseline")
           \/ (~Live \/ ~world.member) /\ pg' = Failed /\ me' = IT!Thrown
    BY <1>6, <1>o, Zenon DEF IT!SwitchToForge, IT!SwitchRole, IT!Await, IT!Do
  <2>2. CASE pg' = AsRole(pg, "app") /\ me' = IT!To("baseline")
    <3>1. Goes("baseline") BY <1>e, <2>2
    <3>2. Clear => Fits(pg'.st, "baseline", pg'.saves) BY <1>i, <1>p, <1>w, <2>1, <2>2 DEF Fits, Ends
    <3> QED BY <1>s, <1>p, <2>1, <2>2, <3>1, <3>2
  <2> QED BY <1>h, <1>i, <1>r, <2>1, <2>2
\* What the catch of a forgery makes of the guard.
<1>z. me' = IT!Swallowed => Goes("reset")
  <2>1. me' = IT!Swallowed => me' = IT!To("reset") \/ \E x : me' = [IT!To("reset") EXCEPT !.said = x]
    BY Zenon DEF IT!Swallowed, IT!Said
  <2> QED BY <1>e, <2>1
<1>7. CASE IT!ForgeNobody
  <2>1. /\ me.at = "baseline"
        /\ \/ pg' = Acting(pg, "nobody") /\ me' = IT!To("forged")
           \/ (~Live \/ Target.forge \in {"denied", "error"}) /\ pg' = Failed /\ me' = IT!Swallowed
    BY <1>7, <1>o, Zenon DEF IT!ForgeNobody, IT!Attempt, IT!Do, IT!Target, Target
  <2>2. CASE pg' = Acting(pg, "nobody") /\ me' = IT!To("forged")
    <3>1. Goes("forged") BY <1>e, <2>2
    <3>2. Clear => Fits(pg'.st, "forged", pg'.saves) BY <1>i, <1>p, <1>w, <2>1, <2>2 DEF Fits, Ends
    <3> QED BY <1>s, <1>p, <2>1, <2>2, <3>1, <3>2
  <2>3. CASE (~Live \/ Target.forge \in {"denied", "error"}) /\ pg' = Failed /\ me' = IT!Swallowed
    <3>1. ~Clear BY <1>h, <1>i, <2>1, <2>3
    <3> QED BY <1>s, <1>g, <1>z, <2>1, <2>3, <3>1 DEF Ground
  <2> QED BY <2>1, <2>2, <2>3
<1>8. CASE IT!ForgeVictim
  <2>1. /\ me.at = "forged"
        /\ \/ /\ pg' = Acting(pg, "victim")
              /\ me' = IT!To("reset") \/ \E x, y : me' = [[IT!To("reset") EXCEPT !.said = x] EXCEPT !.loc.proven = y]
           \/ ~Live /\ pg' = Failed /\ me' = IT!Swallowed
    BY <1>8, <1>o, Zenon DEF IT!ForgeVictim, IT!Attempt, IT!Do, IT!Said
  <2>2. CASE /\ pg' = Acting(pg, "victim")
             /\ me' = IT!To("reset") \/ \E x, y : me' = [[IT!To("reset") EXCEPT !.said = x] EXCEPT !.loc.proven = y]
    <3>1. Goes("reset")
      <4>1. ASSUME NEW x, NEW y, me' = [[IT!To("reset") EXCEPT !.said = x] EXCEPT !.loc.proven = y] PROVE Goes("reset")
        BY <4>1 DEF SteadyInv, Goes, IT!To
      <4> QED BY <1>e, <2>2, <4>1
    <3>2. Clear => Fits(pg'.st, "reset", pg'.saves) BY <1>i, <1>p, <1>w, <2>1, <2>2 DEF Fits, Ends
    <3> QED BY <1>s, <1>p, <2>1, <2>2, <3>1, <3>2
  <2>3. CASE ~Live /\ pg' = Failed /\ me' = IT!Swallowed
    <3>1. ~Clear BY <1>i, <2>1, <2>3
    <3> QED BY <1>s, <1>g, <1>z, <2>1, <2>3, <3>1 DEF Ground
  <2> QED BY <2>1, <2>2, <2>3
<1>9. CASE IT!ResetRole
  <2>1. /\ me.at = "reset"
        /\ \/ pg' = AsRole(pg, "conn") /\ me' = IT!Onward(me)
           \/ ~Live /\ pg' = Failed /\ me' = IT!Thrown
    BY <1>9, <1>o, Zenon DEF IT!ResetRole, IT!Await, IT!Do
  <2>2. CASE pg' = AsRole(pg, "conn") /\ me' = IT!Onward(me)
    <3>1. Goes("next") BY <1>e, <2>2
    <3>2. Clear => Fits(pg'.st, "next", pg'.saves) BY <1>i, <1>p, <1>w, <2>1, <2>2 DEF Fits, Ends
    <3> QED BY <1>s, <1>p, <2>1, <2>2, <3>1, <3>2
  <2> QED BY <1>i, <1>r, <2>1, <2>2
<1>10. CASE IT!RollBack("self")
  <2>1. me.at = "finally" /\ pg' = RolledBack(pg) /\ me' = IT!To(IF me.thrown THEN "close" ELSE "self")
    BY <1>10, <1>o DEF IT!RollBack, IT!Do
  <2>2. Goes(IF me.thrown THEN "close" ELSE "self") BY <1>e, <2>1
  <2>3. Clear => ~me.thrown /\ pg'.st = "idle" BY <1>g, <1>w, <2>1 DEF SteadyInv, Calm, Fits, Ends, Ground
  <2>4. me'.result # "thrown" BY <2>1, <2>2 DEF SteadyInv, Goes
  <2>5. Clear' => Calm' BY <1>c, <1>w, <2>2, <2>3 DEF Calm, Fits, Goes, Ends
  <2> QED BY <1>d, <1>g, <2>1, <2>2, <2>4, <2>5 DEF SteadyInv, Goes, Ground
<1>11. CASE IT!SelfEscalation
  <2>1. /\ me.at = "self"
        /\ \/ pg' = pg /\ \E x : me' = [IT!To("text") EXCEPT !.said = x]
           \/ ~Live /\ pg' = Failed /\ me' = IT!Thrown
    BY <1>11, <1>o, Zenon DEF IT!SelfEscalation, IT!Await, IT!Do
  <2>2. CASE pg' = pg /\ \E x : me' = [IT!To("text") EXCEPT !.said = x]
    <3>1. Goes("text") BY <1>e, <2>2
    <3>2. Clear => Fits(pg'.st, "text", pg'.saves) BY <1>i, <1>w, <2>1, <2>2 DEF Fits, Ends
    <3> QED BY <1>s, <1>g, <2>1, <2>2, <3>1, <3>2 DEF Ground
  <2> QED BY <1>i, <1>r, <2>1, <2>2
<1>12. CASE IT!PolicyText
  <2>1. me.at = "text" /\ pg' = pg /\ \E x : me' = [IT!To("close") EXCEPT !.said = x]
    BY <1>12, Zenon DEF IT!PolicyText, IT!Do
  <2>2. Goes("close") BY <1>e, <2>1
  <2>3. Clear => Fits(pg'.st, "close", pg'.saves) BY <1>w, <2>1 DEF Fits, Ends
  <2> QED BY <1>s, <1>g, <2>1, <2>2, <2>3 DEF Ground
<1>13. CASE IT!Connect
  <2>1. me.at = "start" /\ me.result # "thrown" /\ (Clear => ~me.thrown /\ world.setup # "refused")
    BY <1>c, <1>13 DEF IT!Connect, SteadyInv, Calm
  <2>2. \/ world.setup = "refused" /\ pg' = pg /\ me' = [me EXCEPT !.at = "done", !.result = "thrown", !.thrown = TRUE]
        \/ pg' = pg /\ me' = [me EXCEPT !.at = "done", !.result = "skip"]
        \/ pg' = [pg EXCEPT !.st = "idle"] /\ me' = IT!To("plan")
    BY <1>13, Zenon DEF IT!Connect, IT!Do
  <2>3. CASE world.setup = "refused" /\ pg' = pg /\ me' = [me EXCEPT !.at = "done", !.result = "thrown", !.thrown = TRUE]
    <3>1. DOMAIN me' = DOMAIN me /\ me'.at = "done" BY <2>3 DEF SteadyInv
    <3> QED BY <1>c, <1>d, <1>g, <2>3, <3>1 DEF SteadyInv, Ground
  <2>4. CASE pg' = pg /\ me' = [me EXCEPT !.at = "done", !.result = "skip"]
    <3>1. DOMAIN me' = DOMAIN me /\ me'.at = "done" /\ me'.result = "skip" /\ me'.thrown = me.thrown
      BY <2>4 DEF SteadyInv
    <3>2. Clear' => Calm' BY <1>c, <1>w, <2>1, <3>1 DEF Calm, Fits, Ends
    <3> QED BY <1>d, <1>g, <2>4, <3>1, <3>2 DEF SteadyInv, Ground
  <2>5. CASE pg' = [pg EXCEPT !.st = "idle"] /\ me' = IT!To("plan")
    <3>1. Goes("plan") BY <1>e, <2>5
    <3>2. DOMAIN me' = DOMAIN me /\ me'.at = "plan" /\ me'.result # "thrown" /\ me'.thrown = me.thrown
      BY <2>1, <3>1 DEF Goes
    <3>3. Sound(pg') /\ pg'.st = "idle" BY <1>g, <2>5 DEF Ground
    <3>4. Clear' => Calm' BY <1>c, <1>w, <2>1, <3>2, <3>3 DEF Calm, Fits, Ends
    <3> QED BY <1>d, <3>2, <3>3, <3>4 DEF SteadyInv
  <2> QED BY <2>2, <2>3, <2>4, <2>5
<1>14. CASE IT!Disconnect
  <2> DEFINE v == IT!Verdict
  <2>1. me.at = "close" /\ pg' = [Closed EXCEPT !.kept = pg.kept] /\ me' = [me EXCEPT !.at = "done", !.result = v]
    BY <1>14, <1>o DEF IT!Disconnect, IT!Do
  <2>2. ~me.thrown /\ me.result # "thrown" => v # "thrown" BY DEF IT!Verdict
  <2> HIDE DEF v
  <2>3. DOMAIN me' = DOMAIN me /\ me'.at = "done" /\ me'.result = v /\ me'.thrown = me.thrown BY <2>1 DEF SteadyInv
  <2>4. Clear => ~me.thrown /\ me.result # "thrown" BY <2>1 DEF SteadyInv, Calm
  <2>5. Clear' => Calm' BY <1>c, <1>w, <2>3, <2>4 DEF Calm, Fits, Ends
  <2> QED BY <1>c, <1>d, <1>g, <2>1, <2>2, <2>3, <2>4, <2>5 DEF SteadyInv, Ground
<1> QED
  BY <1>1, <1>2, <1>3, <1>4, <1>5, <1>6, <1>7, <1>8, <1>9, <1>10, <1>11, <1>12, <1>13, <1>14 DEF IT!Next, IT!Check,
      IT!Run

\* While identity-trust runs the session is as it needs it.
Trusting == world.guard = "identity-trust" => SteadyInv

\* So it is when it begins and after every step.
LEMMA TrustingInit == Init => Trusting
<1> SUFFICES ASSUME Init, world.guard = "identity-trust" PROVE SteadyInv
  BY DEF Trusting
<1>1. Begins("identity-trust")
  <2>1. IT!Init
    BY WorldAssumption DEF Names, Init, AR!Init, AR!Enter, AW!Init, AW!Enter, VI!Init, VI!Enter, SI!Init, SI!Enter,
        RI!Init,
       RI!Enter, DR!Init, DR!Enter, CE!Init, CE!Enter, TV!Init, TV!Enter, ST!Init, ST!Enter, DP!Init, DP!Enter, FK!Init,
       FK!Enter, RC!Init, RC!Enter, CO!Init, CO!Enter, CG!Init, CG!Enter, ME!Init, ME!Enter, SH!Init, SH!Enter, PB!Init, PB!Enter
  <2> QED BY <2>1, WorldAssumption DEF Names, Begins, Whole, Count, Closed, IT!Init, IT!Enter, IT!Entered, IT!Closed
<1>2. Sound(Closed) /\ Closed.st = "closed" BY Closing DEF Closed
<1>3. "start" \notin Inside /\ "start" \notin Held BY Zenon DEF Inside, Held
<1>4. Calm BY <1>1, <1>2, <1>3 DEF Begins, Calm, Fits, Ends
<1>5. Placed BY DEF Placed
<1> QED BY <1>1, <1>2, <1>4, <1>5 DEF Begins, SteadyInv

LEMMA TrustingStep == Answering /\ Trusting /\ [Next]_vars => Trusting'
<1> SUFFICES ASSUME Answering, Trusting, [Next]_vars, (world.guard = "identity-trust")' PROVE SteadyInv'
  BY DEF Trusting
<1>1. CASE Guard
  <2>1. world' = world BY <1>1, AnsweringGuard
  <2>2. world.guard = "identity-trust" /\ IT!Next BY <1>1, <2>1 DEF Guard
  <2> QED BY <2>2, IdentityTrustCalm DEF Answering, IdentityTrustInv, Trusting
<1>2. CASE Drop \/ Cancel
  <2>1. world' = world /\ me' = me /\ fault' # "none" BY <1>2 DEF Drop, Cancel
  <2>2. SteadyInv BY <2>1 DEF Trusting
  <2>3. Sound(pg')
    <3>1. CASE Drop
      <4>1. pg' = [[Closed EXCEPT !.kept = pg.kept] EXCEPT !.st = "lost"] BY <3>1 DEF Drop, Closed
      <4> QED BY <4>1, Closing, Connecting
    <3>2. CASE Cancel BY <2>2, <3>2, Failing DEF Cancel, SteadyInv
    <3> QED BY <1>2, <3>1, <3>2
  <2>4. ~Clear' BY <2>1 DEF Clear
  <2>5. Placed' BY <2>1 DEF Placed
  <2> QED BY <2>1, <2>2, <2>3, <2>4, <2>5 DEF SteadyInv
<1>3. CASE UNCHANGED vars
  <2>1. world' = world /\ pg' = pg /\ me' = me /\ fault' = fault BY <1>3 DEF vars
  <2>2. SteadyInv BY <2>1 DEF Trusting
  <2>3. Truth' = Truth BY <2>1, IdentityTrustSame
  <2>4. Clear' <=> Clear BY <2>1, <2>3 DEF Clear
  <2>5. Inside' = Inside /\ Held' = Held BY <2>1 DEF Inside, Held
  <2>6. Placed' BY <2>1 DEF Placed
  <2>7. Calm' <=> Calm BY <2>1, <2>5 DEF Calm, Fits
  <2> QED BY <2>1, <2>2, <2>4, <2>6, <2>7 DEF SteadyInv
<1> QED BY <1>1, <1>2, <1>3 DEF Next

\* No guard rejects but for a fault, a connection the server refuses or one of the
\* conditions it is known to be fragile to: in all other runs every statement of
\* each of the eighteen finds its transaction and its savepoint.
THEOREM OnlyFaultsReject == Spec => []OnlyFaultsThrow
<1>1. Trusting /\ (world.guard \in Names \ {"identity-trust"} => OnlyFaultsThrow) /\ Answering => OnlyFaultsThrow
  BY DEF Trusting, SteadyInv, OnlyFaultsThrow, Clear, Answering, Common, Shape
<1>2. Spec => []Trusting
  BY TrustingInit, TrustingStep, AnsweringAlways, PTL DEF Spec
<1> QED BY <1>1, <1>2, RejectsForAReason, AnsweringAlways, PTL

=============================================================================
