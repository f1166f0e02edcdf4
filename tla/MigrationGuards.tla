--------------------------- MODULE MigrationGuards ---------------------------
(***************************************************************************)
(* What the guards that read migration files conclude from them:           *)
(* migration-collisions, definer-grants and the declared state of rls-drift *)
(* (src/src/guards). Each is a pure function of the files; none asks a     *)
(* database. Pattern matching on SQL text is abstracted to what it finds   *)
(* in a statement; which statements it does not look at is kept.           *)
(***************************************************************************)
EXTENDS Catalog

CONSTANTS Files,        \* migration files a checkout may hold
          Grandfather,  \* prefixes migration-collisions is told to ignore
          NumberingGrandfathered,  \* it is told to ignore unpadded numbers
          Baseline,     \* definer-grants: numbers up to it are not judged
          Allowlist     \* definer-grants: functions that are open on purpose

\* rank orders names by code unit, as migration runners do; locale by
\* localeCompare; prefix is the leading digits and number what they stand for, ""
\* and 0 when there are none.
File == [rank: Nat, locale: Nat, prefix: STRING, number: Nat, stmts: Seq(Statement)]

ASSUME FileAssumption ==
  /\ Files \subseteq File
  /\ \A f, g \in Files : f.rank = g.rank \/ f.locale = g.locale => f = g
  /\ \A f, g \in Files : f.prefix = g.prefix => f.number = g.number
  /\ Baseline \in Nat /\ Grandfather \subseteq STRING
  /\ NumberingGrandfathered \in BOOLEAN /\ Allowlist \subseteq Routines

\* A file's place is the number of files whose names come before.
Before(files, f) == {g \in files : g.rank < f.rank}
InOrder(files) ==
  [k \in 1..Cardinality(files) |-> CHOOSE f \in files : Cardinality(Before(files, f)) = k - 1]
InLocale(files) ==
  [k \in 1..Cardinality(files) |-> CHOOSE f \in files : Cardinality({g \in files : g.locale < f.locale}) = k - 1]

Statements(fs) == FlattenSeq([k \in 1..Len(fs) |-> fs[k].stmts])

-----------------------------------------------------------------------------
(* migration-collisions.                                                   *)

\* Tables, views and functions a file creates, whether or not they exist already.
CreatedObjects(f) ==
  {s.table : s \in {x \in ToSet(f.stmts) : x.kind = "create table"}}
  \cup {s.routine : s \in {x \in ToSet(f.stmts) : x.kind = "create function"}}
  \cup {s.view : s \in {x \in ToSet(f.stmts) : x.kind = "create view"}}

\* Names a file reads when it applies. IF EXISTS is not looked at, and what a DROP
\* or an ALTER VIEW names is not either, nor the view a rule is for.
ReferencedObjects(f) ==
  {s.table : s \in {x \in ToSet(f.stmts) :
               \/ x.kind \in {"rename table", "use table", "enable rls", "disable rls",
                              "create policy", "drop policy"}
               \/ x.kind = "create function" /\ x.resolved}}
  \cup {s.routine : s \in {x \in ToSet(f.stmts) : x.kind \in {"grant", "revoke"}}}
  \cup {s.base : s \in {x \in ToSet(f.stmts) : NeedsBase(x)}}
  \cup {s.view : s \in {x \in ToSet(f.stmts) : x.kind \in {"grant writes", "revoke writes"} /\ ~x.everything}}

\* Names only a function body reads that is not resolved at CREATE.
DeferredReferences(f) ==
  {s.table : s \in {x \in ToSet(f.stmts) : x.kind = "create function" /\ ~x.resolved}}
    \ ReferencedObjects(f)

Read(files)      == [f \in files |-> ReferencedObjects(f)]
ReadLater(files) == [f \in files |-> DeferredReferences(f)]

CreatedBefore(files, f) == UNION {CreatedObjects(g) : g \in Before(files, f)}

\* MUTANT of FindDependencyInversions: only the next file of the group is searched.
NextFileOnly(group, prior, refs) ==
  {v \in [earlier: group, later: group, object: Relations \cup Routines \cup Views] :
     /\ v.earlier.rank < v.later.rank
     /\ v.object \in refs[v.earlier] \ (prior \cup CreatedObjects(v.earlier))
     /\ v.object \notin CreatedBefore(group, v.earlier)
     /\ v.object \in CreatedObjects(v.later)
     /\ ~\E h \in group : v.earlier.rank < h.rank /\ h.rank < v.later.rank}

\* The first file of a group that reads, and the first later one that creates, an
\* object that does not exist yet when the former runs.
FindDependencyInversions(group, prior, refs) ==
  {v \in [earlier: group, later: group, object: Relations \cup Routines \cup Views] :
     /\ v.earlier.rank < v.later.rank
     /\ v.object \in refs[v.earlier] \ (prior \cup CreatedObjects(v.earlier))
     /\ v.object \notin CreatedBefore(group, v.earlier)
     /\ v.object \in CreatedObjects(v.later)
     /\ \A h \in group : v.earlier.rank < h.rank /\ h.rank < v.later.rank =>
                           v.object \notin CreatedObjects(h)}

\* The digits themselves are compared: 2_a.sql and 02_b.sql share no prefix.
SharedPrefix(files, n) == {f \in files : f.prefix = n}
Collisions(files) ==
  {n \in {f.prefix : f \in files} \ {""} : Cardinality(SharedPrefix(files, n)) > 1}

\* MUTANT of PriorCreated: the group is judged on its own.
PriorForgotten(files, n) == {}

\* What the database contains when the first file of the group runs.
PriorCreated(files, n) ==
  LET group == SharedPrefix(files, n)
      first == CHOOSE f \in group : \A g \in group : f.rank <= g.rank
  IN  CreatedBefore(files, first)

\* The violations of migration-collisions.
Inversions(files) ==
  UNION {FindDependencyInversions(SharedPrefix(files, n), PriorCreated(files, n), Read(files))
           : n \in Collisions(files) \ Grandfather}

\* Its notes on functions that are broken until a later file runs.
DeferredInversions(files) ==
  UNION {FindDependencyInversions(SharedPrefix(files, n), PriorCreated(files, n), ReadLater(files))
           : n \in {c \in Collisions(files) \ Grandfather :
                      FindDependencyInversions(SharedPrefix(files, c), PriorCreated(files, c),
                                               Read(files)) = {}}}

\* Its notes on unpadded numbers: dependencies that cross the padding gap.
NumberingDisagrees(files) ==
  ~NumberingGrandfathered /\ \E f, g \in files : f.rank < g.rank /\ f.number > g.number
Crossings(files) ==
  IF ~NumberingDisagrees(files) THEN {}
  ELSE {v \in FindDependencyInversions(files, {}, Read(files)) :
          v.earlier.number > v.later.number}

-----------------------------------------------------------------------------
(* definer-grants.                                                         *)

\* What is known of a function: the file of its latest definition, and what that is.
Definition == [number: Nat, definer: BOOLEAN, trigger: BOOLEAN, writes: BOOLEAN]
Undefined  == [f \in Routines |-> [number |-> 0, definer |-> FALSE, trigger |-> FALSE, writes |-> FALSE]]

\* A definition replaces the one before it.
Redefine(number, latest, s) ==
  IF s.kind # "create function" THEN latest
  ELSE [latest EXCEPT ![s.routine] =
          [number |-> number, definer |-> s.definer, trigger |-> s.trigger, writes |-> s.writes]]
DefinedBy(latest, f) == FoldLeft(LAMBDA d, s : Redefine(f.number, d, s), latest, f.stmts)

\* MUTANT of Latest: by prefix alone, files of one prefix as the directory
\* happens to list them.
ByNumber(f, g) == f.number < g.number \/ (f.number = g.number /\ f.rank > g.rank)
LatestByNumber(files) == FoldLeft(DefinedBy, Undefined, SetToSortSeq(files, ByNumber))

\* The latest definition of each function over the whole history, in filename
\* order as localeCompare has it.
Latest(files) == FoldLeft(DefinedBy, Undefined, InLocale(files))

\* MUTANT of Revoked: the REVOKE may name another function.
RevokedByAny(files, fn) == \E f \in files : \E s \in ToSet(f.stmts) : s.kind = "revoke"

\* A REVOKE of EXECUTE on the function, from PUBLIC or anon, anywhere in history.
Revoked(files, fn) ==
  \E f \in files : \E s \in ToSet(f.stmts) :
    s.kind = "revoke" /\ s.routine = fn /\ s.grantee \in {"public", "anon"}

\* Its violations: the latest definition is an unrevoked definer function that
\* writes.
FindDefinerGrantViolations(files) ==
  {fn \in Routines :
     /\ LET latest == Latest(files)[fn]
        IN  latest.definer /\ ~latest.trigger /\ latest.writes /\ latest.number > Baseline
     /\ fn \notin Allowlist
     /\ ~Revoked(files, fn)}

-----------------------------------------------------------------------------
(* rls-drift.                                                              *)

Nothing == [rls |-> {}, policies |-> {}]

\* MUTANT of Declare: a DROP POLICY is not replayed.
DeclareNoDrop(state, s) ==
  CASE s.kind = "create policy" -> [state EXCEPT !.policies = @ \cup {<<s.table, s.policy>>}]
    [] s.kind = "enable rls"    -> [state EXCEPT !.rls = @ \cup {s.table}]
    [] s.kind = "disable rls"   -> [state EXCEPT !.rls = @ \ {s.table}]
    [] OTHER                    -> state

\* One event of the replay; tables that are dropped or renamed are none.
Declare(state, s) ==
  CASE s.kind = "create policy" -> [state EXCEPT !.policies = @ \cup {<<s.table, s.policy>>}]
    [] s.kind = "drop policy"   -> [state EXCEPT !.policies = @ \ {<<s.table, s.policy>>}]
    [] s.kind = "enable rls"    -> [state EXCEPT !.rls = @ \cup {s.table}]
    [] s.kind = "disable rls"   -> [state EXCEPT !.rls = @ \ {s.table}]
    [] OTHER                    -> state

DeclareFile(state, f) == FoldLeft(Declare, state, f.stmts)
DeclaredBy(fs) == FoldLeft(DeclareFile, Nothing, fs)

\* MUTANT of ParseDeclaredState: the files in the order of localeCompare.
ParseInLocale(files) == DeclaredBy(InLocale(files))

ParseDeclaredState(files) == DeclaredBy(InOrder(files))
=============================================================================
