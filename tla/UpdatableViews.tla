---------------------------- MODULE UpdatableViews ----------------------------
(***************************************************************************)
(* updatable-view-writethrough: from the migrations alone, the views that  *)
(* let a browser's role write to a table with the rights of the view's     *)
(* owner. A pure function of the files, like the others.                   *)
(***************************************************************************)
EXTENDS MigrationGuards

CONSTANTS ViewAllowlist,   \* views that are writable on purpose
          AssumeWrites     \* assumeDefaultWriteGrants: "auto", "yes" or "no"

ASSUME ViewAssumption == ViewAllowlist \subseteq Views /\ AssumeWrites \in {"auto", "yes", "no"}

ExposedRoles == {"anon", "authenticated"}

OfKind(files, kinds) == {s \in UNION {ToSet(f.stmts) : f \in files} : s.kind \in kinds}

-----------------------------------------------------------------------------
(* The views.                                                              *)

\* Views that were ever created; a DROP VIEW does not take one away.
ExtractViews(files) == {s.view : s \in OfKind(files, {"create view"})}

\* MUTANT of FinalView: the first definition counts.
FirstView(files, v) ==
  Head(SelectSeq(Statements(InLocale(files)), LAMBDA s : s.kind = "create view" /\ s.view = v))

\* The last definition across the history; ALTER VIEW is not read.
FinalView(files, v) ==
  Last(SelectSeq(Statements(InLocale(files)), LAMBDA s : s.kind = "create view" /\ s.view = v))

ExtractInsteadWritable(files) == {s.view : s \in OfKind(files, {"create rule"})}

\* Whether a write reaches a table through what the view selects from; unknown
\* for a relation the files do not define.
ResolveBaseWritable(files, v) ==
  LET views == ExtractViews(files)
      Below[n \in 0..Cardinality(views), w \in views] ==
        LET d == FinalView(files, w)
        IN  IF d.shape = "computed" THEN "blocked"
            ELSE IF d.base \notin views \/ n = 0 THEN "unknown"
            ELSE IF FinalView(files, d.base).shape = "materialized" THEN "blocked"
            ELSE IF d.base \in ExtractInsteadWritable(files) THEN "writable"
            ELSE IF FinalView(files, d.base).shape = "aggregate" THEN "blocked"
            ELSE Below[n-1, d.base]
  IN  Below[Cardinality(views), v]

-----------------------------------------------------------------------------
(* The grants.                                                             *)

\* All exposed roles share a lane, PUBLIC has its own.
Lane(role) == IF role = "public" THEN "pub" ELSE "role"

ApplyGrant(entry, s) ==
  LET what == {Lane(s.grantee)} \X s.privs
  IN  IF s.kind = "grant writes" THEN [granted |-> entry.granted \cup what, revoked |-> entry.revoked \ what]
      ELSE [granted |-> entry.granted \ what, revoked |-> entry.revoked \cup what]

\* Every view of the history has an entry from the beginning; a schema-wide
\* statement is for all entries, DROP VIEW clears one.
Replay(state, s) ==
  [v \in DOMAIN state |->
     IF s.kind \in {"grant writes", "revoke writes"} /\ (s.everything \/ s.view = v) THEN ApplyGrant(state[v], s)
     ELSE IF s.kind = "drop view" /\ s.view = v THEN [granted |-> {}, revoked |-> {}]
     ELSE state[v]]

NetWriteGrants(files) ==
  FoldLeft(Replay, [v \in ExtractViews(files) |-> [granted |-> {}, revoked |-> {}]], Statements(InLocale(files)))

Granted(files, v) == {p \in Privileges : \E l \in {"role", "pub"} : <<l, p>> \in NetWriteGrants(files)[v].granted}

\* MUTANT of RevokedWrites: a revoke from PUBLIC counts like one from the roles.
RevokedFromAny(files, v) ==
  {p \in Privileges \ Granted(files, v) : \E l \in {"role", "pub"} : <<l, p>> \in NetWriteGrants(files)[v].revoked}

RevokedWrites(files, v) ==
  {p \in Privileges \ Granted(files, v) : <<"role", p>> \in NetWriteGrants(files)[v].revoked}

\* A history that mentions an exposed role is one of a platform that grants
\* writes on every new object.
DetectDefaultWriteGrants(files) ==
  \E s \in OfKind(files, {"grant", "revoke", "grant writes", "revoke writes", "default grant", "default revoke"}) :
    s.grantee \in ExposedRoles

Assumes(files) == AssumeWrites = "yes" \/ (AssumeWrites = "auto" /\ DetectDefaultWriteGrants(files))

-----------------------------------------------------------------------------
ClassifyView(files, v) ==
  LET view == FinalView(files, v)
  IN  IF \/ view.shape \in {"materialized", "aggregate"}
         \/ view.invoker
         \/ ResolveBaseWritable(files, v) = "blocked" /\ v \notin ExtractInsteadWritable(files)
        THEN "safe"
      ELSE IF Granted(files, v) # {} THEN "granted"
      ELSE IF RevokedWrites(files, v) = Privileges THEN "safe"
      ELSE IF Assumes(files) THEN "default" ELSE "note"

\* The views that fail the build.
Violations(files) ==
  {v \in ExtractViews(files) \ ViewAllowlist : ClassifyView(files, v) \in {"granted", "default"}}
=============================================================================
