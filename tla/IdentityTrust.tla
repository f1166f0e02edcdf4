---------------------------- MODULE IdentityTrust ----------------------------
(***************************************************************************)
(* The identity-trust guard: what the policies take an identity from. A    *)
(* target is a table: whether it has a tenant column and how many tenants, *)
(* whether RLS is on, whether the application role owns it unforced, its   *)
(* policies, the write privileges of that role (`grants`), the columns it  *)
(* may update (`writable`: tenant, role), whether policies elsewhere look  *)
(* it up (`authority`), and what a forged user_metadata claim shows        *)
(* (`forge`: more, same, denied, error).                                   *)
(* A policy has a command, is restrictive or not, applies to the role or   *)
(* not, reads user_metadata or a settable GUC or neither (`source`), and   *)
(* its two expressions each pin the tenant, leave it open, or are absent;  *)
(* `roles` says that it reads the role column.                             *)
(***************************************************************************)
EXTENDS ProbeGuard

CONSTANT Worlds

Init == Enter(Worlds, [proven |-> {}])

Run == Connect \/ Disconnect

-----------------------------------------------------------------------------
Tables      == 1..Len(world.targets)
Policies(k) == world.targets[k].policies
Tenanted    == {k \in Tables : world.targets[k].tenant}

UsesUserMetadata(k) == \E p \in Policies(k) : p.source = "metadata"
Metadata            == {k \in Tenanted : UsesUserMetadata(k)}
TrustsGuc           == \E k \in Tenanted : \E p \in Policies(k) : p.source = "guc"

\* USING stands in for an absent WITH CHECK, except on INSERT.
EffectiveCheck(p) == IF p.check # "absent" \/ p.cmd = "INSERT" THEN p.check ELSE p.using
Pins(p)           == EffectiveCheck(p) = "pins"

Applicable(k, cmd)  == {p \in Policies(k) : p.cmd \in {cmd, "ALL"} /\ p.applies}
Permissive(P)       == {p \in P : ~p.restrictive}
Restrictive(P)      == P \ Permissive(P)

\* Some permissive policy accepts any tenant and no restrictive one pins it.
Unconstrained(P) == (\E p \in Permissive(P) : ~Pins(p)) /\ ~\E p \in Restrictive(P) : Pins(p)

\* A definer function that sets a trusted GUC from its argument, unless it
\* authorizes the argument before.
ClassifyFunction(f) == IF f.fromParam /\ ~f.authorizes THEN "leak" ELSE "note"

ClassifyAuthority(t, k) ==
  IF t.grants = {} THEN "safe"
  ELSE IF ~t.tenant THEN "note"
  ELSE IF ~t.rls \/ t.owned \/ \E cmd \in t.grants : Unconstrained(Applicable(k, cmd)) THEN "leak"
  ELSE "safe"

\* An owner that RLS is not forced on passes every policy.
ClassifySelfEscalation(t, k) ==
  LET on         == {p \in Policies(k) : p.cmd \in {"UPDATE", "ALL"}}
      applicable == IF t.owned THEN {} ELSE {p \in on : p.applies}
      open       == t.owned \/ Unconstrained(applicable)
      reads      == \E p \in Policies(k) : p.roles
      authorized == {c \in t.writable : IF c = "tenant" THEN open ELSE reads}
  IN  IF on = {} \/ (~t.owned /\ Permissive(applicable) = {}) THEN "safe"
      ELSE IF authorized # {} THEN "leak"
      ELSE IF "role" \in t.writable THEN "note" ELSE "safe"

\* What a classifier says of a set of objects; nothing of the safe ones.
Verdicts(S, arm, Says) ==
  {[on |-> x[1], arm |-> arm, says |-> x[2]] : x \in {y \in S \X {"leak", "note"} : Says[y[1]] = y[2]}}

-----------------------------------------------------------------------------
PlanPolicies ==
  Await("plan", FALSE, pg,
    IF \A k \in Tenanted : Policies(k) = {} THEN Ending(me, "skip")
    ELSE IF TrustsGuc THEN To("functions") ELSE To("authority"))

DefinerFunctions ==
  LET callable == {i \in 1..Len(world.fns) : world.fns[i].executable}
      says     == [i \in callable |-> ClassifyFunction(world.fns[i])]
  IN  Await("functions", FALSE, pg, [To("authority") EXCEPT !.said = @ \cup Verdicts(callable, "guc", says)])

\* The tables that policies of other tables look up.
AuthorityTables ==
  LET deps == {k \in Tables : world.targets[k].authority}
      says == [k \in deps |-> ClassifyAuthority(world.targets[k], k)]
      on   == [me EXCEPT !.said = @ \cup Verdicts(deps, "authority", says)]
  IN  Await("authority", FALSE, pg,
        IF Metadata = {} THEN [on EXCEPT !.at = "self"] ELSE [on EXCEPT !.at = "begin", !.todo = Kept(Metadata)])

Begin == Await("begin", FALSE, Began(pg), To("next"))

\* The forgery: no savepoint anywhere in this transaction.
NextTable ==
  \/ me.at = "next" /\ me.todo = <<>> /\ Do(pg, To("finally"))
  \/ me.todo # <<>> /\ Await("next", FALSE, pg, IF Target.tenants < 2 THEN Onward(me) ELSE To("role"))

SwitchToForge == SwitchRole("baseline")

Swallowed == IF Live /\ Target.forge = "denied" THEN To("reset") ELSE Said(To("reset"), Current, "forgery", "note")

\* First the claim of a tenant that cannot exist, then the victim's.
ForgeNobody ==
  Attempt("baseline", Target.forge \in {"denied", "error"}, Acting(pg, "nobody"), To("forged"), Swallowed)

ForgeVictim ==
  Attempt("forged", FALSE, Acting(pg, "victim"),
    IF Target.forge = "more" THEN [Said(To("reset"), Current, "metadata", "leak") EXCEPT !.loc.proven = @ \cup {Current}]
    ELSE To("reset"),
    Swallowed)

ResetRole == Await("reset", FALSE, AsRole(pg, "conn"), Onward(me))

\* The catalog of all policies: who may rewrite a row of its own.
SelfEscalation ==
  LET says == [k \in Tables |-> ClassifySelfEscalation(world.targets[k], k)]
  IN  Await("self", FALSE, pg, [To("text") EXCEPT !.said = @ \cup Verdicts(Tables, "self", says)])

\* Policies on user_metadata that no forgery has proven, and a note per GUC.
PolicyText ==
  /\ me.at = "text"
  /\ LET texts == [on : Metadata \ me.loc.proven, arm : {"metadata"}, says : {"leak"}]
         gucs  == IF TrustsGuc THEN [on : {0}, arm : {"guc"}, says : {"note"}] ELSE {}
     IN  Do(pg, [To("close") EXCEPT !.said = @ \cup texts \cup gucs])

Check ==
  \/ PlanPolicies \/ DefinerFunctions \/ AuthorityTables \/ Begin \/ NextTable \/ SwitchToForge
  \/ ForgeNobody \/ ForgeVictim \/ ResetRole \/ RollBack("self") \/ SelfEscalation \/ PolicyText

Next == Run \/ Check

-----------------------------------------------------------------------------
(* What is really forgeable, from the rules of Postgres: a new row passes  *)
(* when one permissive policy has a check and accepts it and every         *)
(* restrictive check accepts it.                                           *)

Accepts(P) ==
  /\ \E p \in P : ~p.restrictive /\ EffectiveCheck(p) = "open"
  /\ \A p \in P : p.restrictive => EffectiveCheck(p) # "pins"

AnyTenant(t, k, cmd) == ~t.rls \/ t.owned \/ Accepts(Applicable(k, cmd))

MayUpdateOwn(t, k) == t.owned \/ \E p \in Applicable(k, "UPDATE") : ~p.restrictive /\ p.using # "absent"

Examined == \E k \in Tenanted : Policies(k) # {}

Exposed ==
  LET T(k) == world.targets[k]
  IN  IF ~Examined THEN {} ELSE
      [on : Metadata, arm : {"metadata"}]
      \cup [on : {i \in 1..Len(world.fns) : LET f == world.fns[i]
                                        IN  TrustsGuc /\ f.executable /\ f.fromParam /\ ~f.authorizes}, arm : {"guc"}]
      \cup [on : {k \in Tenanted : T(k).authority /\ \E cmd \in T(k).grants : AnyTenant(T(k), k, cmd)},
            arm : {"authority"}]
      \cup [on : {k \in Tables : /\ T(k).rls /\ MayUpdateOwn(T(k), k)
                                 /\ \/ T(k).tenant /\ "tenant" \in T(k).writable /\ AnyTenant(T(k), k, "UPDATE")
                                    \/ "role" \in T(k).writable /\ \E p \in Policies(k) : p.roles},
            arm : {"self"}]

\* A table is looked at for self-escalation when it has an UPDATE policy.
Blind == {e \in Exposed : e.arm = "self" /\ \A p \in Policies(e.on) : p.cmd \notin {"UPDATE", "ALL"}}

Provable == Exposed \ Blind

\* A policy without any expression lets nothing pass and is taken for an open one,
\* and so is one that finds no row to update, having no USING.
Spurious == {e \in [on : Tables, arm : {"authority", "self"}] :
               \/ ~world.targets[e.on].rls
               \/ \E p \in Policies(e.on) : EffectiveCheck(p) = "absent" \/ (p.cmd \in {"UPDATE", "ALL"} /\ p.using = "absent")}

Fragile == Metadata # {} /\ (~world.member \/ \E k \in Metadata : world.targets[k].forge \in {"denied", "error"})

Truth == [exposed |-> Exposed, blind |-> Blind, provable |-> Provable, spurious |-> Spurious, fragile |-> Fragile]
=============================================================================
