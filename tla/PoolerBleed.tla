----------------------------- MODULE PoolerBleed -----------------------------
(***************************************************************************)
(* The pooler-bleed guard: settings (GUCs) that policies authorize from    *)
(* and that the application sets for a connection instead of for a         *)
(* transaction. A target is a setting: depth is 0 when policies read it    *)
(* themselves, n when the n-th of a chain of functions does, hole says     *)
(* that a function of the chain cannot be read; writes are the scopes it   *)
(* is set with in the files that are scanned, and hidden says that some    *)
(* other file sets it for the connection. Behind a transaction pooler      *)
(* (world.backends = 2) any statement may reach any of the backends.       *)
(***************************************************************************)
EXTENDS ProbeGuard

CONSTANT Worlds

MaxDepth == 4

Backends == 1..world.backends

Init == Enter(Worlds, [depth |-> 0, frontier |-> {}, found |-> {}, set |-> {}, survived |-> FALSE])

Run == Connect \/ Disconnect

-----------------------------------------------------------------------------
Gucs == 1..Len(world.targets)
T(k) == world.targets[k]

\* The settings the expressions of the policies name.
PolicyGucs ==
  Await("plan", FALSE, pg, [To("functions") EXCEPT !.loc.found = {k \in Gucs : T(k).depth = 0}])

\* The functions policies call, then the ones these call, by name. A failure
\* ends the walk with a note; a body that cannot be read ends its chain.
Explored(bodies) ==
  LET readable == {k \in bodies : ~T(k).hole}
      depth    == me.loc.depth + 1
  IN  [me EXCEPT !.loc.depth = depth,
                 !.loc.found = @ \cup {k \in readable : T(k).depth = depth},
                 !.loc.frontier = {k \in readable : T(k).depth > depth},
                 !.said = @ \cup {[on |-> 0, arm |-> "functions", says |-> "note"] : k \in bodies \ readable}]

Walked(m) ==
  IF m.loc.frontier # {} THEN [m EXCEPT !.at = "bodies"]
  ELSE IF m.loc.found = {} THEN Ending(m, "skip") ELSE [m EXCEPT !.at = "scan"]

GaveUp == Walked([Said(me, 0, "functions", "note") EXCEPT !.loc.frontier = {}])

PolicyFunctions ==
  Attempt("functions", world.functions = "error", pg, Walked(Explored({k \in Gucs : T(k).depth > 0})), GaveUp)

\* The bodies beyond the last round are fetched and not read.
FunctionBodies ==
  Attempt("bodies", world.bodies = "error", pg,
    IF me.loc.depth < MaxDepth THEN Walked(Explored(me.loc.frontier)) ELSE Walked([me EXCEPT !.loc.frontier = {}]),
    GaveUp)

-----------------------------------------------------------------------------
\* DISCARD ALL or RESET ALL anywhere is taken for a reset of every setting.
Resets(k) == T(k).reset = "own" \/ \E j \in Gucs : T(j).reset = "all"

ClassifyGuc(k) ==
  IF "session" \in T(k).writes THEN (IF Resets(k) THEN "note" ELSE "leak")
  ELSE IF "unknown" \in T(k).writes \/ T(k).writes = {} THEN "note" ELSE "ok"

ScanSources ==
  /\ me.at = "scan"
  /\ Do(pg, [To("set") EXCEPT !.said =
               @ \cup {a \in {[on |-> k, arm |-> "scope", says |-> ClassifyGuc(k)] : k \in me.loc.found} :
                         a.says # "ok" /\ ~T(a.on).allow}])

\* The demonstration: a value set for the connection and one for the
\* transaction, each looked for by the next statement; then the first is unset.
\* It is reported and decides nothing.
Demonstrated == Said(To("close"), 0, "probe", "note")

SetPersistent ==
  \E b \in Backends : Attempt("set", FALSE, pg, [To("look") EXCEPT !.loc.set = {b}], Demonstrated)

LookForPersistent ==
  \E b \in Backends : Attempt("look", FALSE, pg, [To("local") EXCEPT !.loc.survived = b \in me.loc.set], Demonstrated)

SetTransient  == Attempt("local", FALSE, pg, To("vanished"), Demonstrated)
LookTransient == Attempt("vanished", FALSE, pg, To("unset"), Demonstrated)

Unset ==
  \E b \in Backends : Attempt("unset", FALSE, pg, [Demonstrated EXCEPT !.loc.set = @ \ {b}], Demonstrated)

Check ==
  \/ PolicyGucs \/ PolicyFunctions \/ FunctionBodies \/ ScanSources \/ SetPersistent \/ LookForPersistent
  \/ SetTransient \/ LookTransient \/ Unset \/ Leave

Next == Run \/ Check

-----------------------------------------------------------------------------
(* Which identity really outlives its request: one that is set for the     *)
(* connection and not reset when the connection is released.               *)

Exposed ==
  {[on |-> k, arm |-> "scope"] : k \in {j \in Gucs :
     /\ ~T(j).allow
     /\ "session" \in T(j).writes \/ T(j).hidden
     /\ ~(world.release /\ Resets(j))}}

\* A setting behind a body that cannot be read, behind a query that failed or
\* too many calls away; a file that was not scanned, beside one that was.
Unresolved(k) ==
  \/ T(k).depth > MaxDepth
  \/ T(k).depth > 0 /\ (T(k).hole \/ world.functions = "error" \/ fault = "lost")
  \/ T(k).depth > 1 /\ world.bodies = "error"

Blind == {e \in Exposed : Unresolved(e.on) \/ T(e.on).writes = {"local"}}

Provable == {e \in Exposed \ Blind : "session" \in T(e.on).writes /\ ~Resets(e.on)}

Spurious == {}
Fragile  == FALSE

Truth == [exposed |-> Exposed, blind |-> Blind, provable |-> Provable, spurious |-> Spurious, fragile |-> Fragile]
=============================================================================
