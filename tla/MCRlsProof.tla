------------------------------ MODULE MCRlsProof ------------------------------
(***************************************************************************)
(* Small databases and configurations for checking RlsProof with TLC.      *)
(***************************************************************************)
EXTENDS RlsProofProperties

CONSTANTS t1, t2, tenantA, tenantB, tenantC

MCTables == {t1, t2}
MCTenants == {tenantA, tenantB, tenantC}
MCOrder == <<t1, t2>>
MCSeedPair == <<tenantB, tenantC>>

-----------------------------------------------------------------------------
(* Table shapes: a correctly scoped table, and its plausible departures.   *)

Scoped == [rls |-> TRUE, forced |-> TRUE, owned |-> FALSE, sampled |-> TRUE,
           grants |-> Commands, sel |-> "own", ins |-> "own", upd |-> "own",
           chk |-> "own", del |-> "own", notNull |-> TRUE, trigger |-> "none",
           strict |-> {}]

RlsOff      == [Scoped EXCEPT !.rls = FALSE]
ReadAll     == [Scoped EXCEPT !.sel = "all"]
UpdateAll   == [Scoped EXCEPT !.upd = "all"]
HopOpen     == [Scoped EXCEPT !.chk = "all"]
DeleteAll   == [Scoped EXCEPT !.del = "all"]
InsertAll   == [Scoped EXCEPT !.ins = "all"]
NullGlobal  == [Scoped EXCEPT !.sel = "shared", !.ins = "shared", !.notNull = FALSE]
NullHidden  == [Scoped EXCEPT !.ins = "shared", !.notNull = FALSE]
AppendOnly  == [Scoped EXCEPT !.sel = "none"]
NoPolicy    == [Scoped EXCEPT !.sel = "none", !.ins = "none", !.upd = "none", !.chk = "none", !.del = "none"]
DraftHidden == [Scoped EXCEPT !.sel = "ownOpen"]
Required    == [Scoped EXCEPT !.strict = {"insert"}]
InUse       == [Scoped EXCEPT !.strict = {"update", "delete"}]
ReadGrant   == [Scoped EXCEPT !.grants = {"select"}]
Ungranted   == [Scoped EXCEPT !.grants = {}]
Owner       == [Scoped EXCEPT !.owned = TRUE, !.forced = FALSE]
Stamped     == [Scoped EXCEPT !.trigger = "stamp", !.ins = "all"]
Swallowed   == [Scoped EXCEPT !.trigger = "swallow"]
Unsampled   == [Scoped EXCEPT !.sampled = FALSE]

AllShapes == {Scoped, RlsOff, ReadAll, UpdateAll, HopOpen, DeleteAll, InsertAll, NullGlobal,
              NullHidden, AppendOnly, NoPolicy, DraftHidden, Required, ReadGrant, Ungranted,
              Owner, Stamped, Swallowed, InUse}

-----------------------------------------------------------------------------
(* Rows.                                                                   *)

R(n, x) == [id |-> n, tenant |-> x, open |-> TRUE]
Closed(r) == [r EXCEPT !.open = FALSE]
PairRows == {R(1, tenantA), R(2, tenantA), R(3, tenantB)}
NullRows == {R(1, tenantA), R(2, tenantB), R(3, NullTenant)}
SoleRows == {R(4, tenantC)}

Make(s1, s2, r1, r2) ==
  [shape |-> t1 :> s1 @@ t2 :> s2, rows |-> t1 :> r1 @@ t2 :> r2]

-----------------------------------------------------------------------------
(* Configurations.                                                         *)

Default == [url |-> TRUE, driver |-> TRUE, explicit |-> FALSE, grandfather |-> {},
            seed |-> "off", seedSetup |-> <<>>, probeWrites |-> TRUE, temp |-> TRUE,
            member |-> TRUE, bypass |-> FALSE, identity |-> "ok"]

Seeding == [Default EXCEPT !.seed = "on", !.seedSetup = <<t1, t2>>]

OnlyDefault == {Default}

\* verdict run: every shape beside a sole-tenant table, reads only or both.
VerdictSetups == {Default, [Default EXCEPT !.explicit = TRUE],
                  [Default EXCEPT !.probeWrites = FALSE]}
VerdictDatabases ==
  {Make(s1, s2, r, SoleRows) : s1 \in AllShapes, s2 \in {Scoped, RlsOff, UpdateAll, HopOpen, DeleteAll, ReadGrant},
                               r \in {PairRows, NullRows}}
  \cup {Make(s, Scoped, PairRows, PairRows) : s \in AllShapes}
  \cup {Make([Stamped EXCEPT !.sel = "ownOpen"], Scoped, PairRows, SoleRows),
        Make(Scoped, [DeleteAll EXCEPT !.grants = Commands \ {"select"}], PairRows, SoleRows)}

\* fault run: seeding, the negative control, configuration, other sessions that
\* commit, a connection that drops.
FaultSetups ==
  {[Default EXCEPT !.url = FALSE], [Default EXCEPT !.driver = FALSE],
   [Default EXCEPT !.temp = FALSE], [Default EXCEPT !.member = FALSE],
   [Default EXCEPT !.bypass = TRUE], [Default EXCEPT !.bypass = TRUE, !.temp = FALSE],
   [Default EXCEPT !.identity = "error"],
   [Default EXCEPT !.grandfather = {t1}], [Default EXCEPT !.grandfather = {t1, t2}],
   [Default EXCEPT !.explicit = TRUE], [Default EXCEPT !.probeWrites = FALSE],
   [Seeding EXCEPT !.seed = "empty"], Seeding, [Seeding EXCEPT !.seedSetup = <<t2>>],
   [Seeding EXCEPT !.bypass = TRUE], Default}
FaultDatabases ==
  {Make(s1, s2, PairRows, SoleRows) : s1 \in {Scoped, Owner, Required, Unsampled, RlsOff},
                                      s2 \in {Scoped, Ungranted}}
  \cup {Make(Scoped, Unsampled, PairRows, {}), Make(RlsOff, Scoped, PairRows, {}),
        Make(DeleteAll, NullGlobal, PairRows, SoleRows)}

-----------------------------------------------------------------------------
(* The situations in which the code departs from its documentation.        *)

DeniedFirst  == {Make(Ungranted, ReadAll, PairRows, PairRows)}
SoleNoPolicy == {Make(Scoped, NoPolicy, PairRows, SoleRows)}
SoleScoped   == {Make(Scoped, Scoped, PairRows, SoleRows)}
Referenced   == {Make([DeleteAll EXCEPT !.strict = {"delete"}], Scoped,
                      PairRows \cup {Closed(R(4, tenantB))}, SoleRows)}
=============================================================================
