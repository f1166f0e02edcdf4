-------------------------- MODULE RealtimeIsolation --------------------------
(***************************************************************************)
(* The realtime-isolation guard: the channels in realtime.messages, whose  *)
(* tenant is the first part of the topic. `reads` and `writes` say what    *)
(* its policies let the application role see and publish (denied, none,    *)
(* own, all).                                                              *)
(***************************************************************************)
EXTENDS ProbeGuard

CONSTANT Worlds

Init == Enter(Worlds, [canary |-> FALSE, cross |-> FALSE, own |-> FALSE, other |-> FALSE, failed |-> FALSE])

Run == Connect \/ Disconnect

-----------------------------------------------------------------------------
Becomes(x) == IF world.hook = "other" THEN pg.who ELSE x

Reaches(access, who, tenant) == access = "all" \/ (access = "own" /\ who = tenant)

\* classifyRealtime after the probes.
ClassifyRealtime(l) ==
  IF l.failed THEN "note" ELSE IF l.cross \/ l.other THEN "leak" ELSE "clear"

Messages(m, arm, says) == Said(m, 1, arm, says)

-----------------------------------------------------------------------------
PlanChannels == Await("plan", FALSE, pg, IF world.present THEN To("publication") ELSE Ending(me, "skip"))

\* The streamed tables are named for information; a failure is noted.
Publication ==
  Attempt("publication", world.streams = "error", pg,
          IF world.streams = "some" THEN Said(To("rls"), 0, "streams", "note") ELSE To("rls"),
          Said(To("rls"), 0, "streams", "note"))

\* RLS off is a leak, RLS without policy a note; neither opens a transaction.
ReadRls ==
  Await("rls", FALSE, pg,
    IF ~world.rls THEN [Messages(me, "tenant", "leak") EXCEPT !.at = "close"]
    ELSE IF ~world.policies THEN [Messages(me, "tenant", "note") EXCEPT !.at = "close"]
    ELSE To("begin"))

Begin == Await("begin", FALSE, Began(pg), To("tenants"))

DistinctTopicTenants ==
  IF world.tenants < 2
    THEN Await("tenants", FALSE, RolledBack(pg), [Messages(me, "tenant", "note") EXCEPT !.at = "close"])
    ELSE Await("tenants", FALSE, pg, To("canary"))

SelfCheck == CreateCanary("role") \/ SwitchRole("check") \/ CheckCanary("forward")

Unproven == [To("reset") EXCEPT !.loc.failed = TRUE]

\* A counts the messages of B, then B those of A; there is no savepoint.
ProbeForward ==
  LET who == Becomes("A")
  IN  Attempt("forward", world.hook = "fails" \/ Target.reads = "denied", Acting(pg, who),
        [To("reverse") EXCEPT !.loc.cross = Reaches(Target.reads, who, "B")], Unproven)

ProbeReverse ==
  LET who   == Becomes("B")
      found == [me EXCEPT !.loc.cross = @ \/ Reaches(Target.reads, who, "A")]
  IN  Attempt("reverse", FALSE, Acting(pg, who), [found EXCEPT !.at = IF world.uploads THEN "own" ELSE "reset"],
        Unproven)

\* probeBroadcast: one message in a savepoint that is undone either way, first
\* on B's own channel and, when that worked, on A's.
OpenBroadcast ==
  \/ Attempt("own", FALSE, Saved(pg), To("publish"), Unproven)
  \/ Attempt("other", FALSE, Saved(pg), To("intrude"), Unproven)

ProbeBroadcast ==
  LET lands(tenant) == Reaches(Target.writes, pg.who, tenant)
  IN  \/ Guarded("publish", ~lands("B"), Undone(pg), [To("other") EXCEPT !.loc.own = TRUE], To("reset"))
      \/ Guarded("intrude", ~lands("A"), Undone(pg), [To("reset") EXCEPT !.loc.other = TRUE], To("reset"))

\* reset role stands outside the catch. Reads that hold while the control
\* message failed are proven, with a note about the publishing.
ResetRole ==
  LET judged  == Messages(To("finally"), "tenant", ClassifyRealtime(me.loc))
      untried == world.uploads /\ ~me.loc.own /\ ClassifyRealtime(me.loc) = "clear"
  IN  Await("reset", FALSE, AsRole(pg, "conn"), IF untried THEN Messages(judged, "publish", "note") ELSE judged)

Check ==
  \/ PlanChannels \/ Publication \/ ReadRls \/ Begin \/ DistinctTopicTenants \/ SelfCheck
  \/ ProbeForward \/ ProbeReverse \/ OpenBroadcast \/ ProbeBroadcast \/ ResetRole \/ RollBack("close")

Next == Run \/ Check

-----------------------------------------------------------------------------
(* What is really exposed, and what may stop the guard.                    *)

Exposed ==
  LET t == world.targets[1]
  IN  {e \in {[on |-> 1, arm |-> "tenant"]} :
         /\ world.present
         /\ \/ ~world.rls
            \/ ~world.policies /\ world.bypass
            \/ world.policies /\ world.tenants > 1
                 /\ (t.reads = "all" \/ (world.uploads /\ t.writes = "all"))}

Blind == {e \in Exposed : fault = "cancelled" /\ world.targets[1].reads # "all"}

Provable == {e \in Exposed : ~world.rls \/ world.policies}

Spurious == {}

Fragile ==
  /\ world.rls /\ world.policies /\ world.tenants > 1
  /\ ~world.temp \/ ~world.member \/ world.hook = "fails" \/ world.targets[1].reads = "denied"

Truth == [exposed |-> Exposed, blind |-> Blind, provable |-> Provable, spurious |-> Spurious, fragile |-> Fragile]
=============================================================================
