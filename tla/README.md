# tenant-guard in TLA+

tenant-guard (`src/`) is a command line tool that fails a CI build when a
multi-tenant database can leak rows across tenants. Static guards read the
migrations and the routes of a repository; runtime guards connect to a test
database, assume the identity of a tenant inside one transaction, try to read
and write what is not theirs, and roll everything back. Its verdict is used as a
merge gate, so its own mistakes matter in both directions: a leak that is missed
(a green build that proves nothing) and a leak that is invented.

This directory is the verification project of that code: TLA+ modules, the TLC
configurations that check them on small instances, and TLAPS proofs. Lines are
those of the sources under `src/`.

## 1. The system

| component | source | state it keeps | operations |
|---|---|---|---|
| rls-proof guard | `src/guards/rls-proof.mjs` | plan, sampled tenants and their row counts, canary, measures, violations, notes, counters | `planTables`, seed, sample, canary, role switch, probes of a pair of tenants or of a sole tenant, classification, rollback, close |
| other probe guards | `anon-reads`, `anon-writes`, `view-isolation`, `storage-isolation`, `realtime-isolation`, `identity-trust`, `definer-rpc`, `default-privileges`, `cross-tenant-fk`, `schema-tenancy`, `column-exposure`, `trigger-visibility` | as above, each with its own probe loop | one transaction (or one per probe), savepoints, `set local role`, `reset role` |
| migration-history guards | `rls-drift`, `definer-grants`, `updatable-view-writethrough`, `migration-collisions` | the catalog a replay of the migrations produces | parse, replay in order, compare with the live catalog or with a rule |
| catalog classifiers | `create-grants`, `constraint-oracles`, `role-capabilities`, `mfa-enforcement`, `shadow-tables` | findings and notes so far | catalog queries, some of them in a `try` of their own, and a classification |
| pooler-bleed guard | `src/guards/pooler-bleed.mjs` | settings found, functions still to read | catalog queries, a walk over functions, a scan of source files, a demonstration on the live connection |
| text guards | `mcp-config`, `route-org-scoping` | none | pattern matching on files |
| command line | `bin/tenant-guard.mjs`, `src/index.mjs` | flags, results, exit code, files written | parse, run one / all guards, report, documents, `list`, `init` |
| results and formats | `src/output/*.mjs`, `src/runner.mjs` | none | `statusOf`, `summarise`, JSON, SARIF, Markdown, human report |
| configuration | `src/config.mjs` | one JSON file | `loadConfig`, inheritance of the identity settings, autodetection |
| GitHub Action | `action.yml` | runner files, step outputs, uploads | install, run, upload, verdict |
| Postgres | external | committed rows, session, transaction, savepoints, role, identity setting | what the guards send |

How they interact: the action runs the CLI; the CLI runs the guards one after
the other; a runtime guard owns one connection and awaits one query at a time;
Postgres is shared with whatever else uses the database. Nothing in the program
runs in parallel with itself, so the concurrency is all at the edges: other
sessions committing between two awaited queries, connections that drop, guards
that throw, documents and summaries written to files other steps use.

What makes each part correct, and hard:

- **probe guards**: nothing is committed whatever happens; a probe sees intact
  data; every measurement runs as the role and tenant it is attributed to
  (`ROLLBACK TO SAVEPOINT` also undoes `SET LOCAL`); an error outside a savepoint
  aborts the transaction and everything after it fails; a table is only counted
  as proven when it is isolated, a leak is only reported when it exists, and
  every table has an answer.
- **migration-history guards**: the replay of grants, revokes, creations, drops
  and renames ends in the state Postgres ends in, in whatever order they come.
- **command line and action**: the exit code tells the truth, a document that was
  asked for is delivered or the call fails, a step never uploads another's
  report, findings reach code scanning even though the step fails.

## 2. Modules

| module | models | role |
|---|---|---|
| `PgSession` | a Postgres session (external) | rows, policies, privileges, transaction block, savepoints, role, identity; other sessions' commits; a dropped connection |
| `RlsProof` | `rls-proof.mjs`, `prove()` 524-1072 and `run()` 1082-1113 | EXTENDS `PgSession`; one action per awaited query |
| `RlsProofProperties` | | what the guard promises |
| `MCRlsProof` | | table shapes, rows, configurations for TLC |
| `RlsProofTheorems` | | theorems of the guard: what a session step keeps, types, nothing committed, no trace, who asks; what a verdict rests on, and that it is true |
| `Cli` | `bin/tenant-guard.mjs`, `src/index.mjs`, `src/output/json.mjs` | one process: arguments, guards, report, documents, exit |
| `CiJob` | `action.yml` | EXTENDS `Cli`; a job of action and shell steps |
| `CiJobProperties`, `MCCiJob` | | what a job is promised; jobs for TLC |
| `CiProof` | | theorems: types, processes, jobs; rls-drift, migration-collisions and definer-grants over any history |
| `Catalog` | the Postgres catalog (external) | what one statement, and one migration, does to tables, row level security, policies, functions and EXECUTE, views and who may write through them |
| `MigrationGuards` | `migration-collisions.mjs`, `definer-grants.mjs`, `rls-drift.mjs` 82-111 | EXTENDS `Catalog`; what each guard concludes from the files |
| `UpdatableViews` | `updatable-view-writethrough.mjs` | EXTENDS `MigrationGuards`; the last definition of a view, its net grants, what it is stacked on, the verdict |
| `MigrationHistory` | `rls-drift.mjs` | EXTENDS `UpdatableViews`; merges, deployments, statements by hand, and rls-drift reading files, then policies, then flags |
| `ProbeGuard` | what the probing guards have in common | session, awaited statements with and without a catch, savepoints, self-check, verdict, one fault |
| `AnonReads`, `AnonWrites`, `ViewIsolation`, `StorageIsolation`, `RealtimeIsolation`, `DefinerRpc`, `IdentityTrust`, `ColumnExposure`, `TriggerVisibility`, `SchemaTenancy`, `DefaultPrivileges`, `CrossTenantFk`, `RoleCapabilities`, `ConstraintOracles`, `CreateGrants`, `MfaEnforcement`, `ShadowTables`, `PoolerBleed` | the guard of that name under `src/guards/` | EXTEND `ProbeGuard`; one action per awaited statement, and what is really exposed |
| `GuardContract` | what `src/runner.mjs` and `src/output/json.mjs` rely on | abstract specification of one call of a guard |
| `ProbeGuards`, `MCProbeGuards` | `runEverything`, `src/index.mjs` 168-180 | any one of the guards; its properties; databases for TLC |
| `ProbeGuardsProof`, `ProbeGuardsSteady` | | theorems of the probing guards: nothing kept, empty-handed skips, nothing proven without row level security; what every statement finds of its session |
| `ProbeGuardsAnswers`, `ProbeGuardsReads`, `ProbeGuardsServices`, `ProbeGuardsVerdicts` | | theorems of the probing guards: what every answer means, guard by guard (those that read the catalog; relations and schemas; storage, realtime and functions; the rest), and from it that findings are real, that nothing is silent, the contract, and that only faults reject |
| `MigrationHistoryProperties`, `MCMigrationHistory` | | the conclusions against a fresh deployment of the same files; migrations for TLC |

### PgSession

Postgres is not code of the repository; it is modelled from what the guards send
to it and rely on. A table is its row level security flags, one policy predicate
per command (`own`, `all`, `shared` with NULL, `open`, none), the app role's
grants, NOT NULL, a BEFORE INSERT trigger and the commands a constraint refuses.
A row is an id, a tenant (or NULL) and one bit for all its other columns. Three
copies of the data are kept: `committed`, `work` (what the guard's transaction
sees) and `others` (what the database would hold had the guard never run). The
two rules everything depends on are there: an error with no savepoint to return
to aborts the block, and a statement sent outside a block commits by itself
(`Apply`). Isolation is READ COMMITTED, so a commit of another session
(`CommitElsewhere`) is visible to the next statement, except where the guard's
own transaction changed the row.

### RlsProof

`pc` walks `prove()`: `start`, plan, seed, sample/counts (Pass 1, privileged),
canary, role switch, `table` (next table), `probe` (its script), unwind, close.
The statements that measure one table are a sequence `todo`, built by
`ForeignScript` (one tenant, 839-862) or `PairScript` (two tenants, 913-977) in
the order the code sends them; `probe.phase` is the position inside one
savepointed probe. Each action is one awaited query with everything the code does
with its answer, so commits of other sessions and a lost connection interleave
with all of them. `m` holds the numbers `classifyTableResult` gets, `result` the
accumulated report. Counts are really counted over the rows of `work`; SQL text,
messages and suggested fixes are left out.

### Cli and CiJob

A process parses its command line, runs the guards of its command, prints the
report unless a document goes to stdout, writes JSON, SARIF and Markdown in that
order (`emit`, 261-268) and exits with `summarise().exitCode`. What a guard
finds is a nondeterministic `pass`, `fail` or `skip`; it may also throw
(`GuardThrows`): nothing between `runEverything` and the top level catches it. A
write may fail and leave a torn file, the process may be killed. A job is a
sequence of steps; an action step runs install, CLI, outputs, upload, verdict;
`launched` and `calls` are history.

### MigrationGuards, UpdatableViews and MigrationHistory

A migration is the digits its name starts with and the number they stand for (`2_a.sql` and
`02_b.sql` share the number and not the prefix, and migration-collisions groups by prefix), a
rank (code-unit order of names, the order of runners
and of migration-collisions), another rank (`localeCompare`, the order of
definer-grants) and a sequence of statements; a statement is its kind and the
objects it names. The guards read text with patterns; the model keeps which
statements each pattern finds (no `DROP TABLE`, no `RENAME`, no `IF EXISTS`) and
leaves the patterns out. `Fresh(files)` applies the same files to an empty
`Catalog`, which refuses statements as Postgres does, and is the reference every
property compares a guard with. rls-drift is stepped: its files are read before
its two queries, and merges, deployments (the pending file that comes first, in
one transaction) and statements run by hand come in between. `asOf` is history.
For views the catalog keeps shape, base, `security_invoker`, rules and the write
privileges each role holds; a new view has the default privileges, which the
platform grants (`PlatformGrants`), and `WritesThrough` follows a stack of views
down to a table. The guard sees none of that: it replays grants in two lanes
(PUBLIC, and all browser roles together) over the views of the whole history.

### ProbeGuard and the probing guards

Eighteen guards are written by one convention and share no code. Twelve probe: connect, plan from
the catalog, `begin`, a self-check with a deny-all canary, `set local role`, one
probe per target, `rollback` in a `finally`, `client.end()` in the next one. What
differs, and what goes wrong, is which statement stands inside which `try` and
which savepoint. So `ProbeGuard` has one operator for each place a statement can
stand in: `Await` (outside every catch: an error rejects the guard), `Attempt`
(inside a `try` without a savepoint: the block stays aborted), `Guarded` (inside
a savepoint whose catch rolls back to it) and `Undo` (the rollback itself). A
guard module is its list of targets, one action per awaited statement in terms of
these four, and the function that classifies a target. The other six
(`RoleCapabilities` to `PoolerBleed`) read the catalog and judge, without a
transaction: their `finally` has nothing to roll back (`Leave`), and what can go
wrong is a read that fails after another has found something, a question answered
from the wrong set of facts, and, in pooler-bleed, a walk that ends early.
`PoolerBleed` runs its demonstration on any of `Backends`, as behind a transaction
pooler, where what one statement sets the next need not see.

The session is coarser than `PgSession`: no rows, only state, role, identity,
savepoints and what the guard made (`made` inside the block, `kept` when it is
committed). What a target does is data: for a view, for example, whether the
connection finds one tenant in it or two, and whether the application then finds
nothing, its own rows, all rows, or those of the tenant before it. `me.at` is the
statement the guard awaits, `me.todo` the targets that are left, `me.loc` its
local variables, `me.said` the answers, as [on, arm, says]: a `leak`, a `note`,
or `clear` for what is counted as proven.

Each module ends with what is true of its targets, stated from the rules of
Postgres and not from the guard: `Exposed` (the questions whose true answer is
"leaks"), and the exceptions the properties make, each a named set with its
reason: `Blind` (exposed, and the code cannot see it), `Spurious` (not exposed,
and the code may say so), `Fragile` (conditions other than a fault in which the
code rejects), `Provable` (exposed, and a probe that runs can show it).

`GuardContract` is a call seen from the runner: answers are added, no question is
answered both "leak" and "clear", and one verdict fits the answers. `KeepsContract`
is the refinement: `said <- me.said`, `verdict <- me.result` once the guard is done.

## 3. Runs

| run | constants | what it shows |
|---|---|---|
| `rls_verdicts` | two tables, three tenants, 19 shapes beside 6 others, with a pair of tenants, NULL rows or one tenant, and a table of each kind the properties except; reads only or reads and writes; quiet database | `TypeOK`; reported leaks are possible (`LeaksAreReal`); proven tables are isolated between the tenants compared (`ProvenIsolated`) |
| `rls_faults` | 16 configurations, 13 databases; one commit of another session, one lost connection, each between any two statements | `Unharmed`, `NoTrace`, `ActsAsClaimed`, `NoVacuousPass`, `GreenMeansControlled`, `EveryTableAnswered`; `Terminates` |
| `rls_denied_hides_leak`, `rls_sole_no_policy`, `rls_concurrent_insert`, `rls_failed_delete` | the smallest database that shows each | violations, section 5 |
| `ci_jobs` | 25 jobs of one or two steps, among them JSON and SARIF sent to one file and an action step that only lists the guards; two static and two runtime guards, one failure (write, kill, npm, upload); 50,139 states | `TypeOK`, `GreenCallDelivers`, `OneVoice`, `SummaryKept`, `GreenJobIsClean`, `UploadIsOwn`, `FindingsUploaded` |
| `ci_lost_failure` | one action step, no external failure | violation, section 5 |
| `migration_history` | up to three of 14 migrations over two tables, two policies and two functions, or three of 18 over a table, a view and a view of the view; one of five statements by hand; 377,466 states | `HistoryTypeOK`; rls-drift: `NoFalseDrift`, `CleanMeansReproducible`; migration-collisions: `InversionBreaksFresh`, `OrderHazardNamed`; definer-grants: `DefinerSound`, `DefinerComplete`; updatable-view-writethrough: `WriteThroughSound`, `WriteThroughNamed` |
| `probe_guards` | eighteen guards, 9797 databases and configurations with one or two targets, roles that can be assumed or not, bypass row level security or not, a connection refused, lost or a statement cancelled anywhere; 105,540 states | `TypeOK`, `NothingKept`, `FlaggedIsReal`, `NothingSilent`, `OneFailureIsOneTarget`, `GreenIsControlled`, `OnlyFaultsThrow`, `SkipsEmptyHanded`; `Terminates`; the refinement `KeepsContract` |
| `fk_refused` | one or two foreign keys, roles that cannot be assumed | violation, section 5 |
| `drift_renamed_table` | two migrations, the second renames a table | violation, section 5 |

Why these bounds. The guard handles tables one after the other and carries from
one to the next only the transaction, the role and the report, so two tables
exhibit every carry-over. It samples two tenants; a third one is needed for a row
of nobody compared. Three rows distinguish "one", "two" and "none reached" of a
tenant, and the bit `open` distinguishes two rows of one tenant. One commit and
one drop put each single fault between any two statements; what several faults
do is covered by the proofs of `Unharmed` and `NoTrace`, which hold for all
bounds. For the job: an action step only shares files, the summary and the job's
status with the ones before it, so two steps exhibit every pair; two guards of
each kind give "one failed, the next one throws". For migrations: an inversion needs a
reader, a creator and something in front of or between them, and a policy's last
state depends on two files after the one that creates it, so three files show
each; the 13 files hold every kind of conflict in both name orders. A view's verdict
depends on its definition, one more statement about its grants and one about what
it is stacked on, and the 18 files bring each exception of the two properties about
views to bear. For the
probing guards: they too take one target after the other, so a pair of targets
(one that raises in some way, one that leaks) shows what the first leaves to the
second; schema-tenancy groups by pairs and gets up to four; every combination of
the facts a classifier reads is enumerated for one target, and only the ones that
raise or leak for pairs. One fault can strike between any two statements.

Named bounds: `MaxWrites` (commits of other sessions), `MaxDrops` (lost
connections), `MaxFaults` (failed writes, kills, unreachable services),
`MaxFiles` (files in the repository), `Projects` (the sets of files one repository
draws from: tables and functions, grants of a view, shapes of a view), `MaxEdits` (statements by hand); `fault`
admits one lost connection or cancelled statement in a run of a probing guard (a
statement outside a transaction is not cancelled: nothing of it would remain);
`SampleLimit` is the code's `sampleLimit`. `MaxDrops` is 0 in `rls_verdicts`: a
connection lost during a probe makes `probeWrite` return 0 affected rows (689),
which the last table of the plan then counts as blocked; the report is then
about a database nobody reached. `LeaksAreReal` and `ProvenIsolated` say what that
leaves of a verdict, and their theorems hold for any number of lost connections.

Fairness: `FairSpec` is `Spec` with weak fairness of the guard's own actions. The
code awaits every query and `pg` settles a query when it is answered or the
connection ends; there is no retry loop to starve. Waiting for another session's
lock has no timeout in the code and is not modelled. Commits of other sessions
and drops have no fairness.

For the probing guards the fairness is `WF_vars(Guard)`, for the same reason;
faults have none.

Deadlock is checked in every run but those of the probing guards, where it is the
end of a call (`Terminates` says that every call gets there). In the others a finished guard and a finished job stutter
explicitly, and rls-drift runs again.

## 4. Theorems

Thirty-two theorems are proved with TLAPS, for every value of the constants that
meets the assumptions below. Each inductive invariant was checked with TLC on the
databases, jobs and configurations of section 3 before it was proved. The last
step of each theorem combines initial states, steps and implication with PTL; a
step is one lemma per action, or per group of actions that touch the same things.

### rls-proof

From `SentinelAssumption`, `BoundAssumption`, `SetupAssumption`,
`InputAssumption` (distinct sentinels, well-formed inputs, finitely many rows,
two distinct tenants to seed, `SampleLimit` at least 1) and, for
`NoTableUnanswered` only, `OrderAssumption`: a table is planned once.
`planTables` guarantees that for introspected tables (161); tables
named in `cfg.tables` are not made distinct by the code, and a table named twice
really is judged twice.

- `TypesKept`: `Spec => []TypeOK`. The type invariant alone is not inductive: the
  actions read `plan[i]` and take `Head(todo)`. `TypeInv` adds `InPlan` (inside
  a table the index is in the plan), `ProbeInHand` (a probe under way is the head
  of a non-empty script, and `before`/`after` occur only for inserts), and
  `PgInv` (rows, and every savepoint's copy of them, are finite, so that the
  counts are numbers). Its first part proves `PgInv` for each operation of a
  session.
- `NothingCommitted`: `Spec => []Unharmed`. A statement commits by itself only on
  an idle connection, so `HarmlessInv` adds that from the first seed statement
  to the last probe the connection is never idle: it is in a transaction block,
  aborted, lost or closed.
- `ProbesLeaveNoTrace`: `Spec => []NoTrace`. `TraceInv` strengthens it with
  `ApartFromSeed` (the rows of others and of the seed have different ids),
  `CleanStart`, `OpenOnlyInside` (places with an open block) and `Bracketed`
  (inside a probe there is exactly one savepoint, and it holds the baseline,
  with commits of others applied to it): rolling back to it then restores the
  baseline whatever the probe did and whoever committed meanwhile.
- `GreenIsGrounded`: `Spec => []GreenMeansControlled`. No statement of the code
  checks the control or the sampling before the verdict: what enforces them is
  that a failure of either leaves the session in an error, and that the role
  switch, outside every catch, then rejects. `ControlInv` says that (an
  incomplete sampling or an unready canary implies a session error up to the
  role switch, and neither is left after it), `Undecided` that nothing is decided before the
  first table and nothing reported before the last.
- `NothingProvenVacuously`: `Spec => []NoVacuousPass`. A role that bypasses row
  level security is refused when the canary is read; it gets past only if that
  read fails, and a failed read is caught. `BoundInv` is what makes this safe:
  the session is then in an error, no measure of a table succeeds, and nothing is
  proven or read only. A table its owner bypasses is passed over before its script.
- `NoTableUnanswered`: `Spec => []EveryTableAnswered`. `AnswerInv`: the tables of
  the plan before `i` have their answer, those from `i` on have none (`Judged`),
  what is proven is not blamed, and only scanned tables are decided, which are
  finitely many (`Counted`). Without its second half a table could become both proven and
  blamed; that half needs `OrderAssumption` (`DistinctPlan`).
- `NoLeakInvented`, `ProvenTablesIsolate`: `Spec => []LeaksAreReal` and
  `[]ProvenIsolated`, from one invariant, `QuietInv`: while no other session has
  committed (`writes = 0`), every place of a script knows what it knows of the
  table in hand. `SampledInv`: the counts of Pass 1 are those of the rows there.
  `ScriptInv`: a statement compares two different tenants and subtracts what the
  acting one owns. `PhaseInv`, `ProbeInv`: a probe works on the unchanged rows,
  and on the one it inserted. `EvidenceInv`: the outcome of a probe, before it is
  recorded, is a leak there is, or settles the question it asked. `MeasuredInv`:
  so is what is recorded. `AskedInv`: each question about the table is still in the script,
  or settled, or there is a measure that keeps the table from being proven. Where a count
  exceeds the number of own rows, a row of somebody else is among the counted
  (`MoreThanOwn`), which is what makes a difference of counts evidence.
  The properties name what this rests on: a sample of more than one tenant
  (`Undersampled`, `SeenWhole`), no stamped rows hidden from their tenant
  (`Mislaid`), and for proven tables an identity the policies read, policies that
  treat the rows of a tenant alike (`Plain`: a count of foreign rows may otherwise be
  hidden by own rows out of reach) and a one-tenant table whose write probes were all
  sent (`AskedWhole`). Each of these conditions is one the code does not establish; section 5
  says what happens where it does not hold.
- `MeasuredAsClaimed`: `Spec => []ActsAsClaimed`. Rolling back to a savepoint
  restores role and identity, so what a probe changes is put back by the undo and
  not by the script. `IdentityInv`: a script changes its tenant only by a "become"
  (`WellScripted`, proved of `ForeignScript` and `PairScript`), the role is the
  app's from the role switch on (`AppRole`), the identity is the one the next
  measure names (`Impersonating`), and the savepoint of a probe holds both, also
  when an error has aborted the block (`Restorable`).

### The command line and the job

From `GuardAssumption`, `WordAssumption` (`"run" \in STRING`: the provers'
encoding of strings does not say so), `PathAssumption`, `FaultAssumption`,
`JobAssumption` (the files of the steps are distinct) and `SlotAssumption`: no
shell step writes its documents to the SARIF path of an action step after it.
action.yml makes that path from `RUNNER_TEMP` and the name of the step (144-146)
and does not clear it. A job whose shell step writes there first makes the action
upload a stale report when its own process dies before it writes, and
`UploadIsOwn` is false.

- `JobTypesKept`: `Spec => []TypeOK`. `TypeInv` = `CliType` /\ `JobType` /\
  `AtStep`: what a step does depends on its kind, so the places of an action step
  are only reached by one.
- `OneVoiceOnly`, `GreenCallsDeliver`, `SummaryIsKept`: about a process.
  `ProcessInv` says what each place of it knows: while parsing nothing was
  printed (`Parsing`, `Silent`), results and guards left are the command's
  (`Running`), at most one of the documents goes to standard output and the
  report only if none does (`Emitting`, `Voice`), what is no longer pending is
  in its file with this call's results (`Recorded`), an exit code of 0 needs all
  of it (`Ended`, `Unheard`, `OnlyClean`). That at most one document can claim
  standard output is a lemma about the usage checks of the command line.
- `GreenJobsAreClean`, `UploadsAreOwn`, `FindingsAreUploaded`: about a job.
  `JobInv` ties processes to steps (`Staffed`, `Launches`), a bad exit code to a
  failed step or one that is about to fail (`Answered`), and files to their writers: the SARIF path
  of an action step is absent until its own process writes it (`Slots`, `Mine`),
  an upload is some call's (`UploadsAreCalls`), and without a fault the report
  of a call that heard all its guards is uploaded, or about to be (`Reported`).

### The probing guards

From `WorldAssumption` (a database of a guard carries the guard's name, and a
number of targets) and one assumption for each of nine guards that says what the
fields of its databases can be: there is one `realtime.messages`, and its tenants
are counted (`RealtimeAssumption`); a role counts no more rows of a table than
there are (`TriggerAssumption`); the tenant can be written where there is one
(`TrustAssumption`); the rest are ranges (`CapabilityAssumption`,
`OracleAssumption`, `GrantAssumption`, `MfaAssumption`, `BleedAssumption`,
`TenancyAssumption`, `RpcAssumption`). TLC evaluates them on every database of the
runs. Each theorem has one lemma per guard's procedure.

- `NothingOutlivesAGuard`: `Spec => []NothingKept`. A statement outside a
  transaction commits at once, so `KeptInv` lists, guard by guard, the places
  (`Inside`) that are never reached with an idle connection, from BEGIN to
  ROLLBACK, and says that nothing is kept. The guards that make something are
  only ever there when they do, and no guard ever commits.
- `SkipsAreEmptyHanded`: `Spec => []SkipsEmptyHanded`. `HandsInv`: up to the last
  place from which a guard can still skip (`Early`) it has said nothing. For
  default-privileges the place is not enough (it comes back to plan again): until
  it has `scanned` it has said nothing; for create-grants neither,
  as long as it has no schema. The two exceptions (section 5: storage-isolation
  and create-grants) are `Excused`.
- `GreenGuardsAreControlled`: `Spec => []GreenIsControlled`. At a verdict the code
  no longer knows whether its self-check ran: the session must remember it.
  `GroundInv` follows the six guards that have one (`Controlled`), in a role that
  bypasses row level security, past the canary. Between making the row and reading it
  (`Checking`) a session that still answers has the row; a reading of it refuses,
  so that the places after it are reached with a broken session only (`Doomed`) and
  the ones that take the answer of a probe never (`Barred`). storage-isolation
  needs one fact more: its listing of a bucket rolls back to a savepoint, which
  brings an aborted block back to life, so the row must be there whatever state
  the session is in.
- `AnswersTyped`, `FindingsAreReal`, `NothingIsSilent`, `EachTargetForItself`:
  `Spec =>` `[]TypeOK`, `[]FlaggedIsReal`, `[]NothingSilent`,
  `[]OneFailureIsOneTarget`, all from one invariant, `Answering`. Its common part
  says what an answer means the moment it is given (`Meaning`: a finding is about what is
  exposed or a listed misjudgement, what is called isolated is not exposed or a
  listed blind spot; `Agreed`: no question is answered both ways), what the session
  can be (`Session`), and that no target is on the list twice (`Queue`). Each guard adds two
  parts. `...Know` is what its code knows at each place: which
  targets have no answer yet, what the local variables hold of the database (the rows a
  role found, what a savepoint restored), and, without a fault, that the session is
  live. `...Pending` says that an exposed target without its answer is still ahead of the
  guard: on the list, or at hand at a place that will answer it. A guard that
  delivers a verdict is past its last place, so nothing is pending.
  For each guard there are lemmas for how it begins, one for its step, one for a lost connection or a
  cancelled statement, and one for its end. A fault is what makes this more than a reading of the
  classifiers: a cancelled statement aborts the block, and every later answer must
  then be a note, or come from facts read before it.
  `Kept`, the sublist of targets of some kind, is proved to be one for lists of any length, by a
  least counterexample on the number of targets (`Listable`, `Keeping`).
- `ContractIsKept`: `Spec => KeepsContract`, the refinement of `GuardContract`.
  Every step is shown to add answers or to give the verdict that fits them
  (`Plays`); that no question is answered both ways is `Agreed`.
- `OnlyFaultsReject`: `Spec => []OnlyFaultsThrow`. `SteadyInv` says what every place
  needs of the session (`Fits`): an open block at the places of `Inside`, a savepoint
  as well at those of `Held`, where one is released or undone, an idle connection
  before BEGIN; an aborted block only where the code expects one (`Loose`, `Ends`).
  While nothing has happened that may make a guard reject (`Clear`), nothing was
  thrown and the session fits (`Calm`). Two guards need to know where they are in
  their list, too (`Placed`): storage-isolation reads as two tenants only in a bucket
  that is not settled without, realtime-isolation only with two tenants in a table
  that has row level security and a policy. identity-trust needs what `Answering`
  knows of its list, and `ProbeGuardsVerdicts` adds it.

### The migration guards

From `CatalogAssumption` (there is a relation, and the platform's grants are grants),
`FileAssumption` (files are well formed, no two have the same name, and a prefix stands for
one number) and `HistoryAssumption` (ranges of the bounds, the statements run by hand and
the allowlist). `Files` may be infinite; a repository is finite because files are merged one
at a time.

What a guard concludes is a fold over files and statements, and what it is compared with, a
fresh deployment, is another. The library's induction theorems take an operator and cannot be
cited, so the proofs follow the folds themselves: a fold over a sequence has a trace, the values it
goes through (`FoldExists`; `OutcomeTrace` and `AppliedTrace` for the statements of a migration,
`FreshTrace` for a deployment, `DeclareTrace` and `DeclaredTrace` for the replay of rls-drift),
and what holds at the start of a trace and is kept by each step of it holds at the end, by a
least counterexample (`CountingUp`). The order of the files is the number of names that come
before, so that what is deployed when a file runs is what comes before it (`OrderBefore`,
`FreshSteps`).

- `HistoryTyped`: `Spec => []HistoryTypeOK`. `HistoryInv` adds that the repository is finite
  and the catalog `Coherent`: flags and policies are of tables there are, which each of the twenty kinds
  of statement keeps (`AfterSound`).
- `NobodyAccused`: `Spec => []NoFalseDrift`. A policy the database has is declared by the
  files deployed so far, or its table was renamed (`Explained`); each statement keeps that,
  so it holds of `live` as long as nothing was done by hand (`ExplainedInv`). `SeenPolicies` and
  `SeenRls` carry it to the moment of each query, and `DriftReported` to the report.
- `CleanIsReproducible`: `Spec => []CleanMeansReproducible`. Over a fresh deployment in which nothing
  is dropped or renamed and every flag has its table, the replay and the catalog agree
  after every statement and every file (`Agree`, `FileAgrees`, `FreshAgrees`); a silent report then says
  that what was seen is what the replay declares.
- `InversionsBreakFresh`: `Spec => []InversionBreaksFresh`. What a database holds was created
  by an earlier file or named by a rename (`FileMakes`, `FreshNeeds`), and a statement that is
  not refused finds what it needs (`NeedsAreMet`): in a history that applies, no
  file needs what only a later one creates. What the guard looked at, the first of the prefix,
  stands for what exists at each of them (`NotThereBefore`).
- `OrderHazardsAreNamed`: `Spec => []OrderHazardNamed`. What a statement of a migration wants, the
  migration is seen to read (`LackIsRead`), unless it wants it only in statements the guard does not
  look at (`Unread`, `WantIsRead`); and what exists before its group exists before it
  (`PriorIsEarlier`).
- `DefinersAreOpen`: `Spec => []DefinerSound`. When the guard and the runner agree on the order
  of names, the latest definition of a function that no file drops is the one a fresh database has
  (`Tracks`, `LatestTracks`); and a function that nobody revoked may be called by PUBLIC
  (`Callable`) in a set of catalogs that no statement of the history leaves (`HistoryStays`).
- `OpenDefinersAreNamed`: `Spec => []DefinerComplete`. From a REVOKE from PUBLIC on, a function
  that nobody grants or drops stays closed (`Withdrawn`, `Leads`), so a function PUBLIC may
  call in the end was not revoked, and is reported.

### Only model-checked

- The properties of updatable-view-writethrough (`WriteThroughSound`, `WriteThroughNamed`). It
  selects from the statements of the whole history laid end to end (`FlattenSeq`, `SelectSeq`),
  which the library defines by recursion and the provers cannot unfold.
- `Terminates` of both: liveness, out of TLAPS's reach.

## 5. Where the code departs from its documentation

With a run each:

1. `rls_denied_hides_leak`: a table whose SELECT is denied (`noAccess`,
   rls-proof.mjs:978-981) leaves the transaction aborted. Every later table fails
   with 25P02, is only noted, and the report is ok although a later table leaks.
2. `rls_sole_no_policy`: in the one-tenant branch a table with row level security
   on and no policy is counted as proven (897); THREAT-MODEL.md:56 says never.
3. `rls_concurrent_insert`: own rows are counted in Pass 1 and subtracted later
   (942); a row committed meanwhile becomes an invented write leak.
4. `rls_failed_delete`: the whole-table DELETE is refused because of one
   referenced row, counts as nothing affected (689), and the table is proven
   although its other rows can be deleted by any tenant.
5. `ci_lost_failure`: a guard has failed, a later guard of `all` throws; the
   results exist only in a local array (index.mjs:172-178) and reach no document,
   though action.yml:153 wants failures to reach the upload.
6. `drift_renamed_table`: rls-drift does not replay `ALTER TABLE ... RENAME TO`, so
   after a rename a policy that is in a migration is reported as "in NO migration
   ... applied out-of-band" (rls-drift.mjs:176), on a database where every
   migration is deployed and nothing was done by hand.
7. `fk_refused`: when `set local role` is refused, cross-tenant-fk reads the
   permission error as the database refusing the re-point (547), and a key through
   which tenants reach each other is reported as "attempted and refused"; 419-421
   says that "blocked" is reserved for a probe the database raised on.

Met while modelling, with no run of their own (the properties except each of the
cases that concern them by name; for the probing guards in `Blind`, `Spurious`
and `Fragile` of the module):

- anon-reads, anon-writes, view-isolation, definer-rpc: the read of the canary is
  in a `try` without a savepoint (anon-reads.mjs:388-390); where it fails for
  another reason than row level security (a canceled statement), the block is
  aborted, and the next `savepoint` stands outside every catch.
- a connection that cannot create a temporary table or cannot assume the role
  makes most guards reject with the driver's error, where the comments
  expect a note.
- storage-isolation and realtime-isolation: a denied read sets `noAccess` and
  leaves the block aborted; `reset role` (storage 534, realtime 383) then throws,
  so the verdict prepared for that case is never given.
- identity-trust: a forged count that is denied or fails stands outside any
  savepoint; `reset role` (861) then rejects the whole guard.
- storage-isolation lists a bucket as the anonymous role under the identity the
  bucket before left behind (450): a policy that reads the identity and not
  the role then makes the listing look public.
- anon-reads and trigger-visibility take every error of a count for a count of
  zero (426, 385): one hides a leak, the other invents one.
- definer-rpc takes a `search_path` for pinned as soon as `pg_temp` is in it
  (598-602), also where it comes before the function's schema.
- identity-trust takes a policy without any expression for an open one; Postgres
  lets nothing pass it.
- storage-isolation returns `skipped` together with the violation it has found
  when row level security is off on `storage.objects` and there is no bucket
  (412); create-grants drops its findings on the database when none of its
  schemas exists (604-610). A skip is green either way (`SkipsEmptyHanded`).
- create-grants: an allow-listed PUBLIC on the database also hides the roles that
  hold a grant of their own (586), and a database ACL that cannot be read is
  passed over without a note (602).
- constraint-oracles takes an INCLUDEd tenant column for a key column (`indkey`
  lists both), and an expression that merely mentions the tenant for one value
  per tenant (268); beside an expression over unguessable columns it does not
  look at the plain columns of the key (273-275; 289-290 says "Mixed keys stay
  oracles").
- role-capabilities goes by the name of a function, whoever wrote it.
- mfa-enforcement: a policy that mentions the assurance level without asking for
  it passes for a gate and not for the grant that undoes one; when the role
  members cannot be read it is quieter (419, as its comment says).
- shadow-tables does not see a name that is put together at run time, and only notes
  one that resolves to no table. It keeps strings (162-164 of the file), so that it finds a write in a
  string a trigger executes, and also a table that a body only names in a message
  (`raise exception 'do not insert into archive_log directly'`, shadow-tables-audit.test.mjs:49),
  in a disabled trigger or in a branch that is never taken: no row of a tenant comes there, and
  the finding says that rows do. A restrictive policy of any kind, or a tenant column on a table
  with row level security, ends the matter.
- pooler-bleed follows helpers four calls deep (180); what lies deeper is neither
  judged nor noted. A DISCARD or RESET ALL anywhere in the sources turns a finding
  into a note, and a file that is too large or not scanned is silent beside one
  that sets the value for a transaction only.

- rls-drift takes `ALTER TABLE IF EXISTS t ENABLE ROW LEVEL SECURITY` for a
  declaration even where `t` does not exist yet: it is clean on a database where
  the flag was set by hand, and a fresh one has it off. It does not replay `DROP
  TABLE` either, so a table created again keeps the policies of the old one in
  the declared state (a note, never a failure).
- migration-collisions calls an inversion "conclusive" (18-21), also when the
  earlier file only asks for the object with IF EXISTS, and also when an
  unrelated rename produced the name.
- migration-collisions computes what exists before a group for its first file (337) and says
  of every object an inversion reads "No earlier migration creates it either" (349). A file of
  another prefix may be applied between two of the group and create it: with `2-t.sql`, `20_u.sql`, `2_u.sql`
  and `2_v.sql`, where `20_u.sql` creates a table and `2_u.sql` reads it and `2_v.sql` creates it if it is
  not there, the build fails although the history applies. `InversionBreaksFresh` excepts
  objects created by a file between two of the prefix, and no others.
- migration-collisions does not read the table, function or view of a DROP, nor the view of an
  ALTER VIEW or a CREATE RULE (215). With `0002_b.sql`: `drop table u` and `0002_c.sql`: `create
  table u`, a fresh database stops at the first, the guard names no inversion, and its note says of
  the pair that "nothing in them depends on the other" (387). `OrderHazardNamed` excepts
  objects the file wants in such statements only.
- definer-grants counts a REVOKE from `anon` alone as one (394-401), which its
  header (10-11) calls a no-op; a later GRANT, or a DROP and a new CREATE, reopens
  a function that was once revoked; a dropped function stays reported. It sorts
  with `localeCompare` (35-37), which migration-collisions measured to differ from
  the order of runners (50-58).

- updatable-view-writethrough takes a revoke `ON ALL TABLES IN SCHEMA` for one of
  every view of the history (277, 348), also of a view created after it, which got
  its default privileges later: a lockdown in the first migration silences the
  guard about views of later ones (359-362 calls such a revoke "PROVEN gone"). The
  browser roles share one lane (281-284), so a revoke from `anon` alone counts for
  `authenticated` too. A rule or INSTEAD OF trigger on a view that is an aggregate
  makes it writable, which 395-396 says of any view, but 415 returns "safe" before
  the rule is looked at. ALTER VIEW ... SET (security_invoker) and ALTER DEFAULT
  PRIVILEGES ... REVOKE are not read; a view that was dropped stays reported, and
  so does a rule that went with its view.

Found while proving. The first five are of the probing guards; TLC had not met them on
its databases, and where a database was missing `MCProbeGuards` has it now:

- anon-writes: what stops the probe of a view is dropped without a word (428), a lost
  connection as well as a cancelled statement; when it is lost in the last probe of
  the list the guard still delivers a verdict. `Blind` named the cancelled ones only.
- constraint-oracles: `indkey` lists INCLUDEd columns, so an index that is unique in
  other columns and only includes one that could be guessed is taken for one by
  which it can be guessed: a finding about nothing (268-275).
- identity-trust: an UPDATE policy without USING lets no row be updated, and is taken
  for an open one as a policy without WITH CHECK is.
- storage-isolation: an upload that is cancelled is caught like one that was refused
  (621-637) and the bucket is then counted as isolated; the model had it reject.
- cross-tenant-fk: rows that cross already are reported whether or not the role can
  be assumed; the exception for roles that cannot was wider than the code.
- rls-proof: a trigger stamps an inserted row with the acting tenant, whose SELECT
  policy hides it: its count does not grow (717), and a cross-tenant insert is
  reported that did not happen, where 696-699 infers that "the row landed in the OTHER
  tenant". An identity the policies do not read has the same effect (`Mislaid`).
- rls-proof: with `sampleLimit: 1` every table is handled as a one-tenant table
  (821). `foreign` is then some other tenant of the database (823), and what it
  writes to its own rows counts as a cross-tenant WRITE, because 852-854 reason that
  `mine` "is the only tenant in this table" (`Undersampled`, `SeenWhole`).
- rls-proof: in the one-tenant branch a denied SELECT also skips the write probes
  (861), and the table is counted as proven; 895 says "Only counts as fully proven
  when the writes were actually probed." (`AskedWhole`)
- `--json` and `--sarif` naming the same file is accepted (bin 140-151 refuse only
  two documents on standard output): the second overwrites the first and the
  process exits 0. `GreenCallDelivers` excepts it by name.
- An action step whose command is `help`, `list` or `init` is accepted, exits 0
  and uploads nothing; `FindingsUploaded` speaks of calls that ran guards.
- A table named twice in `cfg.tables` is judged twice and counted twice.

- rls-proof, one-tenant branch: an identity the policies do not read is proven
  (README.md:618-620 expects a note); the tenant hop is not probed (932-936 does it
  for pairs), which is why `ProvenIsolated` says "where two tenants were compared".
- with `probeWrites: false` a pair table is counted among the proven (1029), a
  sole-tenant table is reported as read only (897).
- 940-942 subtract counts, not row sets: own rows out of reach cancel foreign
  rows in reach.
- `json.mjs:58` calls the document's `exitCode` "the same code the process exits
  with"; when a later document cannot be written the process exits 1 whatever the
  JSON file on disk says.
- exit code 1 means "a guard failed" (bin, HELP) and is also Node's code for an
  uncaught exception, so `result=fail` is published for a crash.
- action.yml:189 uploads every invocation under one category, `tenant-guard`;
  what code scanning does with two of them in one job is not modelled.

## 6. Not modelled, and the plan

Of the probing guards the words of findings and fixes are left out, and the
recognition of things by pattern (a function body, a policy expression, a column
name, the tables a trigger reads or writes, the calls in a source file) is a fact of the target: the model has what
follows from it. The tokenizer of pooler-bleed and the comment blanking of
shadow-tables are therefore not there. Not modelled in the components above: the aggregated TRUNCATE note of rls-proof
(1039-1055, one catalog flag, changes no state), the notes of definer-grants (each
reads one definition), the note of migration-collisions on a tie without any
dependency, overloads of a function, the choice among several tenant
columns of one table, sequence grants, the `error` event of the pg client, lock
waits, the layout of the documents, SARIF fingerprints and locations.

Plan, in order of importance:

1. `PgSession` (done), 2. `RlsProof` with its properties and theorems (done),
3. `Cli` and `CiJob` (done).
4. `Catalog`, `MigrationGuards`, `UpdatableViews`, `MigrationHistory` (done for the
   four guards that read migrations).
5. The other guards on a database (done: `ProbeGuard`, eighteen modules,
   `GuardContract`).
6. The configuration inheritance as operators, checked against a reference
   definition over bounded inputs.
7. Theorems (done: section 4). Left: updatable-view-writethrough, once its
   choice from the whole history is written without `FlattenSeq`.

Left out for good: `mcp-config` and `route-org-scoping` (pattern matching on
text, no state), the version constant, examples, scripts and tests.
