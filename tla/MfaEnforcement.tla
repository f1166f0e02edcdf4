---------------------------- MODULE MfaEnforcement ----------------------------
(***************************************************************************)
(* The mfa-enforcement guard: policies that ask for a second factor. The   *)
(* targets are policies: of a table, permissive or restrictive, for a      *)
(* command, to a role (PUBLIC, a or b, where b may be a member of a), and  *)
(* aal is "no", "requires" (refuses a session of one factor and says aal), *)
(* "mentions" (says aal and refuses nobody) or "hidden" (refuses by a      *)
(* function of another name). world.tables are the tenant tables.          *)
(***************************************************************************)
EXTENDS ProbeGuard

CONSTANT Worlds

Init == Enter(Worlds, [members |-> FALSE, factors |-> FALSE])

Run == Connect \/ Disconnect

-----------------------------------------------------------------------------
Policies == 1..Len(world.targets)
P(k)     == world.targets[k]

ReferencesAal(p) == p.aal \in {"requires", "mentions"}

\* The roles a policy is for; without the members, by name only.
Expanded(role, known) == IF known /\ world.member /\ role = "a" THEN {"a", "b"} ELSE {role}

RolesOverlap(p, q, known) ==
  "public" \in {p.role, q.role} \/ Expanded(p.role, known) \cap Expanded(q.role, known) # {}

Meets(c, d) == c = d \/ "ALL" \in {c, d}

\* Permissive policies are ORed: another grant of the same rows undoes a gate.
HasOtherPermissiveGrant(k, known) ==
  \E j \in Policies \ {k} :
    /\ P(j).table = P(k).table /\ P(j).permissive /\ ~ReferencesAal(P(j))
    /\ Meets(P(j).cmd, P(k).cmd) /\ RolesOverlap(P(j), P(k), known)

Gates            == {k \in Policies : ReferencesAal(P(k))}
Toothless(known) == {k \in Gates : P(k).permissive /\ HasOtherPermissiveGrant(k, known)}

Covered == {P(k).table : k \in Gates \ Toothless(me.loc.members)}

\* Factors and no gate, or gates that leave tables out.
ClassifyCoverage(tables) ==
  IF Gates = {} THEN (IF me.loc.factors THEN {"project"} ELSE {})
  ELSE IF Covered # {} /\ tables \ Covered # {} THEN {"coverage"} ELSE {}

-----------------------------------------------------------------------------
ReadPolicies ==
  Await("plan", FALSE, pg, To(IF \A k \in Policies : P(k).role = "public" THEN "factors" ELSE "members"))

RoleMembers == Attempt("members", world.roles = "error", pg, [To("factors") EXCEPT !.loc.members = TRUE], To("factors"))

\* Without the table of factors and without a gate nothing here uses MFA.
VerifiedFactors ==
  Attempt("factors", world.factors = "error", pg, [To("tables") EXCEPT !.loc.factors = world.factors = "some"],
          IF Gates = {} THEN Ending(me, "skip") ELSE To("tables"))

Judged(tables) ==
  [To("close") EXCEPT !.said =
     @ \cup {[on |-> k, arm |-> "gate", says |-> "leak"] : k \in {j \in Toothless(me.loc.members) : ~P(j).allow}}
       \cup {[on |-> 0, arm |-> a, says |-> "note"] : a \in ClassifyCoverage(tables)}]

TenantTables == Attempt("tables", FALSE, pg, Judged(world.tables), Judged({}))

Check == ReadPolicies \/ RoleMembers \/ VerifiedFactors \/ TenantTables \/ Leave

Next == Run \/ Check

-----------------------------------------------------------------------------
(* What Postgres lets a session of one factor do: some permissive policy   *)
(* that applies accepts it and every restrictive one that applies does.    *)

Refuses(p) == p.aal \in {"requires", "hidden"}

Sessions == IF world.member THEN {{"public", "a"}, {"public", "b", "a"}} ELSE {{"public", "a"}, {"public", "b"}}

Granted(table, roles, cmd) ==
  LET Apply == {k \in Policies : P(k).table = table /\ P(k).role \in roles /\ P(k).cmd \in {cmd, "ALL"}}
  IN  /\ \E k \in Apply : P(k).permissive /\ ~Refuses(P(k))
      /\ \A k \in Apply : ~P(k).permissive => ~Refuses(P(k))

\* A gate that stands open: a session it is for passes without the factor.
Exposed ==
  {[on |-> k, arm |-> "gate"] : k \in {j \in Policies :
     /\ Refuses(P(j)) /\ P(j).permissive /\ ~P(j).allow
     /\ \E roles \in Sessions, cmd \in {"SELECT", "UPDATE"} :
          P(j).role \in roles /\ P(j).cmd \in {cmd, "ALL"} /\ Granted(P(j).table, roles, cmd)}}

\* A gate whose function has another name, one undone by a policy that mentions
\* the factor without asking for it, or by one for a role with unknown members.
Blind ==
  {e \in Exposed : ~ReferencesAal(P(e.on)) \/ ~HasOtherPermissiveGrant(e.on, world.roles = "ok" /\ fault = "none")}

Provable == Exposed \ Blind

\* What only mentions the factor is no gate, what asks for it under another name
\* no grant, and a restrictive gate may hold where a permissive one does not.
Spurious ==
  {[on |-> k, arm |-> "gate"] : k \in {i \in Policies :
     \/ ~Refuses(P(i))
     \/ \E j \in Policies \ {i} : P(j).table = P(i).table /\ Refuses(P(j)) /\ (P(j).aal = "hidden" \/ ~P(j).permissive)}}

Fragile == FALSE

Truth == [exposed |-> Exposed, blind |-> Blind, provable |-> Provable, spurious |-> Spurious, fragile |-> Fragile]
=============================================================================
