-------------------------- MODULE MigrationHistory --------------------------
(***************************************************************************)
(* A repository of migrations, the database they are deployed to, and CI   *)
(* checking both. Files are merged in any order; a deployment applies the  *)
(* pending file that comes first; an operator may change the database by   *)
(* hand; rls-drift (src/src/guards/rls-drift.mjs) reads the files, then the*)
(* policies, then the row level security flags, and compares.              *)
(***************************************************************************)
EXTENDS UpdatableViews

CONSTANTS HandEdits,   \* statements an operator may run on the database
          MaxEdits,    \* BOUND: how many of them
          MaxFiles,    \* BOUND: files in the repository
          Projects,    \* BOUND: sets of files; a repository draws its files from one
          DriftAllow   \* rls-drift allowlist: tables, or policies, managed elsewhere

ASSUME HistoryAssumption ==
  /\ HandEdits \subseteq Statement /\ MaxEdits \in Nat /\ MaxFiles \in Nat
  /\ Projects \subseteq SUBSET Files
  /\ DriftAllow \subseteq Relations \cup (Relations \X PolicyNames)

VARIABLES repo,      \* the files of the repository
          deployed,  \* Seq: files applied to the database, in order
          live,      \* its catalog
          edits,     \* statements run by hand so far
          check,     \* where rls-drift is
          read,      \* the files it read
          seen,      \* what its queries returned
          report,    \* what it reports
          asOf       \* HISTORY: the files deployed when each query ran

database == <<deployed, live, edits>>
drift    == <<check, read, seen, report, asOf>>
history  == <<repo, database, drift>>

Silence == [undeclaredPolicies |-> {}, missingPolicies |-> {}, undeclaredRls |-> {}, missingRls |-> {}]
Unasked == [policies |-> <<>>, rls |-> <<>>]

HistoryInit ==
  /\ repo = {} /\ deployed = <<>> /\ live = EmptyCatalog /\ edits = <<>>
  /\ check = "idle" /\ read = {} /\ seen = Nothing /\ report = Silence /\ asOf = Unasked

-----------------------------------------------------------------------------
\* A branch is merged: its files appear, possibly in front of deployed ones.
Merge ==
  /\ Cardinality(repo) < MaxFiles
  /\ \E project \in Projects : \E f \in project \ repo :
       repo \subseteq project /\ repo' = repo \cup {f}
  /\ UNCHANGED <<database, drift>>

Pending == repo \ ToSet(deployed)

\* The migration runner; a file that fails changes nothing.
Deploy ==
  /\ Pending # {}
  /\ LET f == Head(InOrder(Pending))
     IN  /\ Applies(live, f.stmts)
         /\ live' = Applied(live, f.stmts)
         /\ deployed' = Append(deployed, f)
  /\ UNCHANGED <<repo, edits, drift>>

HandEdit ==
  /\ Len(edits) < MaxEdits
  /\ \E s \in HandEdits :
       /\ ~Refused(live, s)
       /\ live' = After(live, s) /\ edits' = Append(edits, s)
  /\ UNCHANGED <<repo, deployed, drift>>

-----------------------------------------------------------------------------
(* rls-drift.                                                              *)

\* Without files there is nothing to compare with: the guard skips.
SkipDrift ==
  /\ check = "idle" /\ repo = {}
  /\ check' = "skipped" /\ UNCHANGED <<repo, database, read, seen, report, asOf>>

\* MUTANT of ReadFiles: an empty directory is compared like any other.
ReadAnyFiles ==
  /\ check = "idle"
  /\ read' = repo /\ check' = "policies"
  /\ UNCHANGED <<repo, database, seen, report, asOf>>

ReadFiles ==
  /\ check = "idle" /\ repo # {}
  /\ read' = repo /\ check' = "policies"
  /\ UNCHANGED <<repo, database, seen, report, asOf>>

QueryPolicies ==
  /\ check = "policies"
  /\ seen' = [seen EXCEPT !.policies = live.policies]
  /\ asOf' = [asOf EXCEPT !.policies = deployed]
  /\ check' = "rls"
  /\ UNCHANGED <<repo, database, read, report>>

Allowed(p) == p \in DriftAllow \/ p[1] \in DriftAllow

\* diffState: what the database has and no migration declares, which fails the
\* build, and the reverse, which is noted.
DiffState(declared, actual) ==
  [undeclaredPolicies |-> {p \in actual.policies \ declared.policies : ~Allowed(p)},
   missingPolicies    |-> {p \in declared.policies \ actual.policies : ~Allowed(p)},
   undeclaredRls      |-> (actual.rls \ declared.rls) \ DriftAllow,
   missingRls         |-> (declared.rls \ actual.rls) \ DriftAllow]

QueryRls ==
  /\ check = "rls"
  /\ seen' = [seen EXCEPT !.rls = live.rls]
  /\ report' = DiffState(ParseDeclaredState(read), seen')
  /\ asOf' = [asOf EXCEPT !.rls = deployed]
  /\ check' = "done"
  /\ UNCHANGED <<repo, database, read>>

\* The next CI run.
Again ==
  /\ check \in {"done", "skipped"}
  /\ check' = "idle" /\ read' = {} /\ seen' = Nothing /\ report' = Silence
  /\ asOf' = Unasked
  /\ UNCHANGED <<repo, database>>

HistoryNext ==
  \/ Merge \/ Deploy \/ HandEdit
  \/ SkipDrift \/ ReadFiles \/ QueryPolicies \/ QueryRls \/ Again

HistorySpec == HistoryInit /\ [][HistoryNext]_history
=============================================================================
