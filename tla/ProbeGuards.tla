----------------------------- MODULE ProbeGuards -----------------------------
(***************************************************************************)
(* The probing guards, each run once against the databases of Worlds. They *)
(* share a driver and its conventions and not a connection: world.guard    *)
(* says whose run a behaviour is.                                          *)
(***************************************************************************)
EXTENDS ProbeGuard

CONSTANT Worlds   \* the databases, by guard: each has the guard's name in field guard

Names ==
  {"anon-reads", "anon-writes", "view-isolation", "storage-isolation", "realtime-isolation", "definer-rpc",
   "identity-trust", "column-exposure", "trigger-visibility", "schema-tenancy", "default-privileges",
   "cross-tenant-fk", "role-capabilities", "constraint-oracles", "create-grants", "mfa-enforcement",
   "shadow-tables", "pooler-bleed"}

ASSUME WorldAssumption == \A g \in Names : \A w \in Worlds[g] : w.guard = g /\ Len(w.targets) \in Nat

\* There is one realtime.messages, and the count of its tenants is a count.
ASSUME RealtimeAssumption ==
  \A w \in Worlds["realtime-isolation"] : Len(w.targets) = 1 /\ w.tenants \in Nat

\* Where a relation of the auth schema is named there is no other of that name.
ASSUME CapabilityAssumption ==
  \A w \in Worlds["role-capabilities"] : \A k \in 1..Len(w.targets) :
    /\ w.targets[k].kind \in {"bypass", "egress", "auth"}
    /\ w.targets[k].kind = "auth" => w.targets[k].genuine

\* What a column is to somebody who guesses: the tenant, a thing with few
\* values, a uuid, or a credential.
ASSUME OracleAssumption ==
  \A w \in Worlds["constraint-oracles"] : \A k \in 1..Len(w.targets) :
    w.targets[k].key \cup w.targets[k].includes \cup w.targets[k].names \subseteq {"tenant", "guess", "uuid", "secret"}

\* Of the roles that are looked up the server may have the application's and the
\* anonymous one.
ASSUME GrantAssumption == \A w \in Worlds["create-grants"] : w.roles \subseteq {"app", "anon"}

\* The policies are for reading, for writing or for both, and to PUBLIC or to one
\* of two roles.
ASSUME MfaAssumption ==
  \A w \in Worlds["mfa-enforcement"] : \A k \in 1..Len(w.targets) :
    w.targets[k].cmd \in {"SELECT", "UPDATE", "ALL"} /\ w.targets[k].role \in {"public", "a", "b"}

\* A setting is written for a session, for a transaction or in a scope that is not
\* known, and so many calls away.
ASSUME BleedAssumption ==
  \A w \in Worlds["pooler-bleed"] : \A k \in 1..Len(w.targets) :
    w.targets[k].writes \subseteq {"session", "local", "unknown"} /\ w.targets[k].depth \in Nat

\* The triggers read either of two tables; a role counts no more rows of a table
\* than there are, and that is a number nobody is denied.
ASSUME TriggerAssumption ==
  \A w \in Worlds["trigger-visibility"] :
    /\ \A k \in 1..Len(w.targets) : w.targets[k].reads \subseteq {1, 2}
    /\ \A i \in {1, 2} : /\ w.tables[i].all \in Nat /\ w.tables[i].conn \in Nat /\ w.tables[i].app \in Nat
                          /\ w.tables[i].conn <= w.tables[i].all /\ "all" \notin w.tables[i].denies

\* The tables of a schema are so many.
ASSUME TenancyAssumption ==
  \A w \in Worlds["schema-tenancy"] : \A k \in 1..Len(w.targets) : Len(w.targets[k].tries) \in Nat

\* An expression of a policy pins the tenant, leaves it open, or is absent; the
\* tenant and the role are what can be written, the tenant where there is one.
ASSUME TrustAssumption ==
  \A w \in Worlds["identity-trust"] : \A k \in 1..Len(w.targets) :
    /\ \A p \in w.targets[k].policies : p.check \in {"open", "pins", "absent"} /\ p.using \in {"open", "pins", "absent"}
    /\ w.targets[k].writable \subseteq {"tenant", "role"}
    /\ "tenant" \in w.targets[k].writable => w.targets[k].tenant

\* A table has two tenants, one at most, or cannot be read; a call returns rows or none,
\* is refused, or fails in another way.
ASSUME RpcAssumption ==
  \A w \in Worlds["definer-rpc"] :
    /\ w.samples \in Seq({"two", "one", "error"})
    /\ \A k \in 1..Len(w.targets) : w.targets[k].foreign \in {"some", "none", "denied", "error"}

AR == INSTANCE AnonReads         WITH Worlds <- Worlds["anon-reads"]
AW == INSTANCE AnonWrites        WITH Worlds <- Worlds["anon-writes"]
VI == INSTANCE ViewIsolation     WITH Worlds <- Worlds["view-isolation"]
SI == INSTANCE StorageIsolation  WITH Worlds <- Worlds["storage-isolation"]
RI == INSTANCE RealtimeIsolation WITH Worlds <- Worlds["realtime-isolation"]
DR == INSTANCE DefinerRpc        WITH Worlds <- Worlds["definer-rpc"]
IT == INSTANCE IdentityTrust     WITH Worlds <- Worlds["identity-trust"]
CE == INSTANCE ColumnExposure    WITH Worlds <- Worlds["column-exposure"]
TV == INSTANCE TriggerVisibility WITH Worlds <- Worlds["trigger-visibility"]
ST == INSTANCE SchemaTenancy     WITH Worlds <- Worlds["schema-tenancy"]
DP == INSTANCE DefaultPrivileges WITH Worlds <- Worlds["default-privileges"]
FK == INSTANCE CrossTenantFk     WITH Worlds <- Worlds["cross-tenant-fk"]
RC == INSTANCE RoleCapabilities  WITH Worlds <- Worlds["role-capabilities"]
CO == INSTANCE ConstraintOracles WITH Worlds <- Worlds["constraint-oracles"]
CG == INSTANCE CreateGrants      WITH Worlds <- Worlds["create-grants"]
ME == INSTANCE MfaEnforcement    WITH Worlds <- Worlds["mfa-enforcement"]
SH == INSTANCE ShadowTables      WITH Worlds <- Worlds["shadow-tables"]
PB == INSTANCE PoolerBleed       WITH Worlds <- Worlds["pooler-bleed"]

Init ==
  \/ AR!Init \/ AW!Init \/ VI!Init \/ SI!Init \/ RI!Init \/ DR!Init
  \/ IT!Init \/ CE!Init \/ TV!Init \/ ST!Init \/ DP!Init \/ FK!Init
  \/ RC!Init \/ CO!Init \/ CG!Init \/ ME!Init \/ SH!Init \/ PB!Init

Guard ==
  \/ world.guard = "anon-reads"         /\ AR!Next
  \/ world.guard = "anon-writes"        /\ AW!Next
  \/ world.guard = "view-isolation"     /\ VI!Next
  \/ world.guard = "storage-isolation"  /\ SI!Next
  \/ world.guard = "realtime-isolation" /\ RI!Next
  \/ world.guard = "definer-rpc"        /\ DR!Next
  \/ world.guard = "identity-trust"     /\ IT!Next
  \/ world.guard = "column-exposure"    /\ CE!Next
  \/ world.guard = "trigger-visibility" /\ TV!Next
  \/ world.guard = "schema-tenancy"     /\ ST!Next
  \/ world.guard = "default-privileges" /\ DP!Next
  \/ world.guard = "cross-tenant-fk"    /\ FK!Next
  \/ world.guard = "role-capabilities"  /\ RC!Next
  \/ world.guard = "constraint-oracles" /\ CO!Next
  \/ world.guard = "create-grants"      /\ CG!Next
  \/ world.guard = "mfa-enforcement"    /\ ME!Next
  \/ world.guard = "shadow-tables"      /\ SH!Next
  \/ world.guard = "pooler-bleed"       /\ PB!Next

Next == Guard \/ Drop \/ Cancel

\* The driver settles every statement, with a result or an error.
Spec == Init /\ [][Next]_vars /\ WF_vars(Guard)

-----------------------------------------------------------------------------
Truth ==
  CASE world.guard = "anon-reads"         -> AR!Truth
    [] world.guard = "anon-writes"        -> AW!Truth
    [] world.guard = "view-isolation"     -> VI!Truth
    [] world.guard = "storage-isolation"  -> SI!Truth
    [] world.guard = "realtime-isolation" -> RI!Truth
    [] world.guard = "definer-rpc"        -> DR!Truth
    [] world.guard = "identity-trust"     -> IT!Truth
    [] world.guard = "column-exposure"    -> CE!Truth
    [] world.guard = "trigger-visibility" -> TV!Truth
    [] world.guard = "schema-tenancy"     -> ST!Truth
    [] world.guard = "default-privileges" -> DP!Truth
    [] world.guard = "cross-tenant-fk"    -> FK!Truth
    [] world.guard = "role-capabilities"  -> RC!Truth
    [] world.guard = "constraint-oracles" -> CO!Truth
    [] world.guard = "create-grants"      -> CG!Truth
    [] world.guard = "mfa-enforcement"    -> ME!Truth
    [] world.guard = "shadow-tables"      -> SH!Truth
    [] world.guard = "pooler-bleed"       -> PB!Truth

\* The questions answered so.
Answered(says) == {[on |-> a.on, arm |-> a.arm] : a \in {b \in me.said : b.says = says}}

\* The type invariant of the session and of the procedure.
TypeOK ==
  /\ pg.st \in {"closed", "idle", "open", "aborted", "lost"}
  /\ pg.role \in {"conn", "app", "other"}
  /\ \A i \in 1..Len(pg.saves) : DOMAIN pg.saves[i] = {"role", "who", "made"}
  /\ \A a \in me.said : DOMAIN a = {"on", "arm", "says"} /\ a.says \in {"leak", "note", "clear"}
  /\ \A i \in 1..Len(me.todo) : me.todo[i] \in 1..Len(world.targets)
  /\ me.thrown \in BOOLEAN
  /\ me.result \in Results
  /\ fault \in {"none", "lost", "cancelled"}

\* Nothing a guard makes outlives it: the canaries and probe tables are made in
\* transactions that are rolled back on every path, errors and losses included.
NothingKept == pg.kept = {}

\* A guard that fails the build names only what is exposed, the listed
\* misjudgements apart, whatever other target raised before it.
FlaggedIsReal == Answered("leak") \subseteq Truth.exposed \cup Truth.spurious

\* A run that ends with a verdict has a finding or a note about every exposed
\* target, the listed blind spots apart, and has proven none of them isolated.
NothingSilent ==
  Delivered => LET due == Truth.exposed \ Truth.blind
               IN  /\ \A e \in due : \E a \in me.said : a.on = e.on /\ a.says # "clear"
                   /\ due \cap Answered("clear") = {}

\* One target that raises costs no other its finding: what a probe can prove is
\* found whatever the other targets do (savepoints around each probe).
OneFailureIsOneTarget == Delivered /\ fault = "none" => Truth.provable \subseteq Answered("leak")

\* With a canary, nothing is proven in a role that RLS does not bind.
GreenIsControlled == Delivered /\ "canary" \in DOMAIN me.loc /\ Answered("clear") # {} => ~world.bypass

\* Every statement is either guarded or expected to work: the check rejects for
\* a fault, a refused connection or the listed conditions only.
OnlyFaultsThrow ==
  me.at = "done" /\ me.result = "thrown" => fault # "none" \/ world.setup = "refused" \/ Truth.fragile

\* A guard that skips (which is green) throws no finding away, but for two: what
\* storage-isolation found on storage.objects when there is no bucket, and what
\* create-grants found on the database when none of its schemas exists.
SkipsEmptyHanded ==
  me.result = "skip" =>
    \/ LeaksIn(me.said) = {}
    \/ world.guard = "storage-isolation" /\ SI!Dropped
    \/ world.guard = "create-grants" /\ CG!Dropped

\* Every guard comes to an end and closes its connection.
Terminates == <>(me.at = "done")

\* A target on which the fault or the leak is there is not called refused or
\* isolated: a probe that never ran proves nothing.
ProvenWasProbed == Delivered => Truth.exposed \cap Answered("clear") = {}

Contract == INSTANCE GuardContract WITH said <- me.said, verdict <- IF me.at = "done" THEN me.result ELSE "none"

\* The guards keep the contract their runner relies on.
KeepsContract == Contract!Spec
=============================================================================
