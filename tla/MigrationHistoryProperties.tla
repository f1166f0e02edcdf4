---------------------- MODULE MigrationHistoryProperties ----------------------
(***************************************************************************)
(* What the guards that read migrations promise, against what applying the *)
(* same files to an empty database does. The guards read text; the catalog *)
(* says whether the text meant what they took it to mean.                  *)
(***************************************************************************)
EXTENDS MigrationHistory

\* A history applied to an empty database, in the order runners use.
Apply(done, f) == IF done.ok THEN Outcome(done.cat, f.stmts) ELSE done
Fresh(fs) == FoldLeft(Apply, [ok |-> TRUE, cat |-> EmptyCatalog], InOrder(fs))
FreshBefore(fs, f) == Fresh(Before(fs, f))

\* What a refused statement wants and the catalog lacks.
Lacks(cat, s) ==
  (IF NeedsTable(s) THEN {s.table} \ cat.tables ELSE {})
  \cup (IF NeedsRoutine(s) THEN {s.routine} \ cat.routines ELSE {})
  \cup (IF NeedsView(s) THEN {s.view} \ cat.views ELSE {})
  \cup (IF NeedsBase(s) THEN {s.base} \ (cat.tables \cup cat.views) ELSE {})

\* The objects for want of which a fresh database stops at f.
StopsFor(fs, f) ==
  LET before == FreshBefore(fs, f)
      Upto(k) == Outcome(before.cat, SubSeq(f.stmts, 1, k))
  IN  IF ~before.ok \/ Applies(before.cat, f.stmts) THEN {}
      ELSE LET k == CHOOSE n \in 1..Len(f.stmts) : ~Upto(n).ok /\ \A j \in 1..(n-1) : Upto(j).ok
           IN  Lacks(Upto(k-1).cat, f.stmts[k])

\* What a statement names in a place that migration-collisions does not take for a reference.
Unread(s) ==
  (IF s.kind = "drop table" THEN {s.table} ELSE {})
  \cup (IF s.kind = "drop function" THEN {s.routine} ELSE {})
  \cup (IF s.kind \in {"drop view", "alter view", "create rule"} THEN {s.view} ELSE {})

OnlyUnread(f, o) == \A s \in ToSet(f.stmts) : o \in Lacks(EmptyCatalog, s) => o \in Unread(s)

FirstCreator(fs, f, o) ==
  {g \in fs : f.rank < g.rank /\ o \in CreatedObjects(g)
              /\ \A h \in fs : f.rank < h.rank /\ h.rank < g.rank => o \notin CreatedObjects(h)}

\* An ENABLE ... IF EXISTS found no table: it declares what it did not do.
EnabledNothing(fs) ==
  \E f \in fs : \E s \in ToSet(f.stmts) :
    s.kind = "enable rls" /\ s.ifExists /\ s.table \notin FreshBefore(fs, f).cat.tables

Posture(cat) == [rls |-> cat.rls, policies |-> cat.policies]

-----------------------------------------------------------------------------
\* TYPE. A migration is deployed once, and rls-drift never compares the database with an empty
\* set of files: it would report every policy (rls-drift.mjs:268-283).
HistoryTypeOK ==
  /\ repo \subseteq Files /\ ToSet(deployed) \subseteq repo
  /\ \A j, k \in 1..Len(deployed) : deployed[j] = deployed[k] => j = k
  /\ live \in Catalogs /\ live.rls \subseteq live.tables
  /\ \A p \in live.policies : p[1] \in live.tables
  /\ check \in {"idle", "skipped", "policies", "rls", "done"}
  /\ read \subseteq repo /\ (check \in {"policies", "rls", "done"} => read # {})

\* Tables that got their name from a rename.
Renamed(fs) == {s.to : s \in OfKind(fs, {"rename table"})}

\* rls-drift. When every file was deployed in order before the first query, nothing
\* else was before the last, and nobody touched the database by hand, the build is not failed,
\* whatever the order in which policies were dropped and created again. Renamed tables are
\* excepted: see UndeclaredIsOutOfBand.
UpToDate == check = "done" /\ asOf = [policies |-> InOrder(read), rls |-> InOrder(read)]

NoFalseDrift ==
  UpToDate /\ edits = <<>> =>
    /\ {p \in report.undeclaredPolicies : p[1] \notin Renamed(read)} = {}
    /\ report.undeclaredRls \subseteq Renamed(read)

\* rls-drift. When it reports nothing and notes nothing, the policies and flags it saw
\* are those a fresh database gets from the files, whatever was deployed, in whatever order, and
\* whatever was done by hand: the posture is in version control (header, lines 1-17). Excepted:
\* tables dropped or renamed, and ALTER TABLE IF EXISTS of a table there is not.
CleanMeansReproducible ==
  check = "done" /\ report = Silence /\ Fresh(read).ok
    /\ OfKind(read, {"drop table", "rename table"}) = {} /\ ~EnabledNothing(read) =>
      LET fresh == Posture(Fresh(read).cat)
      IN  /\ {p \in fresh.policies : ~Allowed(p)} = {p \in seen.policies : ~Allowed(p)}
          /\ fresh.rls \ DriftAllow = seen.rls \ DriftAllow

\* Made by a file that runs after another of the prefix of f, and before f.
CreatedBetween(fs, f, o) ==
  \E g \in SharedPrefix(fs, f.prefix) : \E h \in fs :
    g.rank < h.rank /\ h.rank < f.rank /\ o \in CreatedObjects(h)

\* migration-collisions. An inversion that fails the build is a history that does not apply to
\* an empty database (lines 18-21), unless all the file asks of the object is conditional on
\* IF EXISTS, or the name came from a rename: the guard looks at neither. An object made by a file
\* that runs between two of the prefix is excepted: what exists is computed for the first (337).
InversionBreaksFresh ==
  \A v \in Inversions(repo) :
    \/ ~Fresh(repo).ok
    \/ CreatedBetween(repo, v.earlier, v.object)
    \/ v.object \in Renamed(repo)
    \/ \A s \in ToSet(v.earlier.stmts) : v.object \notin Lacks(EmptyCatalog, s)

\* migration-collisions. A fresh database that stops because an object does not exist
\* yet, which the files create only later, under the same prefix or against the numbering, is
\* named: as an inversion or as a crossing. Excepted: objects the file only drops, or of which it
\* only alters a view or makes a rule. The scan for references (migration-collisions.mjs:215)
\* matches none of these, and the note on the prefix then says that nothing in its files depends
\* on the other (387).
OrderHazardNamed ==
  \A f \in repo : \A o \in StopsFor(repo, f) \ (CreatedBefore(repo, f) \cup CreatedObjects(f)) :
    \/ OnlyUnread(f, o)
    \/ \A g \in FirstCreator(repo, f, o) :
         LET v == [earlier |-> f, later |-> g, object |-> o]
         IN  /\ f.prefix = g.prefix /\ f.prefix \in Collisions(repo) \ Grandfather => v \in Inversions(repo)
             /\ f.number > g.number /\ ~NumberingGrandfathered => v \in Crossings(repo)

\* The order of names is the same to the guard and to the runner.
OrdersAgree(fs) == \A f, g \in fs : f.rank < g.rank <=> f.locale < g.locale
Dropped(fs, fn) == \E s \in OfKind(fs, {"drop function"}) : s.routine = fn

\* definer-grants. A function it reports is, after a fresh deployment, a function that writes as
\* its owner and that PUBLIC may call: the latest definition counts, in the order of the files.
DefinerSound ==
  OfKind(repo, {"create function"}) # {} /\ OrdersAgree(repo) /\ Fresh(repo).ok =>
    \A fn \in FindDefinerGrantViolations(repo) :
      LET f == Fresh(repo).cat.code[fn]
      IN  Dropped(repo, fn) \/ (f.definer /\ f.writes /\ "public" \in f.open)

\* definer-grants. A function it is silent about cannot, after a fresh deployment, be called by
\* PUBLIC and write as its owner, unless it is allowed to or older than the baseline, was granted
\* or dropped on the way, or EXECUTE was only ever revoked from anon.
DefinerComplete ==
  OfKind(repo, {"create function"}) # {} /\ OrdersAgree(repo) /\ Fresh(repo).ok =>
    \A fn \in Routines :
      LET f == Fresh(repo).cat.code[fn]
      IN  f.definer /\ f.writes /\ ~f.trigger /\ "public" \in f.open =>
            \/ fn \in FindDefinerGrantViolations(repo) \cup Allowlist
            \/ Latest(repo)[fn].number <= Baseline
            \/ Dropped(repo, fn)
            \/ \E s \in OfKind(repo, {"grant"}) : s.routine = fn
            \/ \E s \in OfKind(repo, {"revoke"}) : s.routine = fn /\ s.grantee = "anon"

-----------------------------------------------------------------------------
(* updatable-view-writethrough.                                            *)

OnView(s, v) == s.everything \/ s.view = v

\* A schema-wide statement that came before the view it is taken to be about; a DROP
\* VIEW in between makes the guard forget it.
BeforeItsView(fs, kind, v) ==
  LET all == Statements(InOrder(fs))
  IN  \E i, j \in 1..Len(all) :
        /\ i < j /\ all[i].kind = kind /\ all[i].everything
        /\ all[j].kind = "create view" /\ all[j].view = v
        /\ \A k \in i..j : ~(all[k].kind = "drop view" /\ all[k].view = v)

\* Revoked from one of the roles a browser has and never from another.
RevokedFromOne(fs, v) ==
  LET losers == {s.grantee : s \in {r \in OfKind(fs, {"revoke writes"}) : OnView(r, v)}} \cap ExposedRoles
  IN  losers # {} /\ losers # ExposedRoles

ViewAltered(fs, v) == \E s \in OfKind(fs, {"alter view"}) : s.view = v
ViewDropped(fs, v) == \E s \in OfKind(fs, {"drop view"}) : s.view = v
OwnRule(fs, v)     == v \in ExtractInsteadWritable(fs)

\* updatable-view-writethrough. After a fresh deployment, a view through which somebody may
\* write with its owner's rights is named, or allowed to be; except when ALTER VIEW made it so, when
\* a rule takes the writes of an aggregate, when the revoke the guard trusts came before the view or
\* when only one of the browser's roles lost the privilege (lines 265-368, 398-481).
WriteThroughNamed ==
  LET fresh == Fresh(repo)
  IN  ExtractViews(repo) # {} /\ fresh.ok /\ OrdersAgree(repo) =>
        \A v \in WritesThrough(fresh.cat) \ ViewAllowlist :
          \/ ClassifyView(repo, v) # "safe"
          \/ ViewAltered(repo, v) \/ RevokedFromOne(repo, v)
          \/ FinalView(repo, v).shape = "aggregate" /\ OwnRule(repo, v)
          \/ BeforeItsView(repo, "revoke writes", v)

\* updatable-view-writethrough. A view that fails the build is, after a fresh deployment, one
\* through which somebody may write with its owner's rights, whatever it is stacked on and in
\* whatever order it was granted, revoked, replaced and made again; except when it was altered, when
\* its rule or the view itself went with a DROP VIEW, when the grant came before the view, or when the
\* default privileges the guard assumes were revoked (lines 204-219, 265-368, 398-481).
WriteThroughSound ==
  LET fresh == Fresh(repo)
  IN  ExtractViews(repo) # {} /\ fresh.ok /\ OrdersAgree(repo) =>
        \A v \in Violations(repo) :
          \/ v \in WritesThrough(fresh.cat)
          \/ v \notin fresh.cat.views
          \/ ViewAltered(repo, v)
          \/ \E w \in Views : OwnRule(repo, w) /\ ViewDropped(repo, w)
          \/ ClassifyView(repo, v) = "granted" /\ BeforeItsView(repo, "grant writes", v)
          \/ ClassifyView(repo, v) = "default" /\ OfKind(repo, {"default revoke"}) # {}

-----------------------------------------------------------------------------
\* CLAIM of rls-drift.mjs:176: a policy it reports "exists in the database but is in NO
\* migration - it was applied out-of-band (dashboard/psql)". Refuted by a renamed table.
UndeclaredIsOutOfBand ==
  UpToDate /\ report.undeclaredPolicies # {} => edits # <<>>
=============================================================================
