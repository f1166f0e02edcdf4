-------------------------- MODULE MCMigrationHistory --------------------------
(***************************************************************************)
(* A handful of migrations two branches might write about a table, another *)
(* table and a function, with names that sort differently by code unit, by *)
(* localeCompare and by number; and those another project might write      *)
(* about a table, a view of it and a view of that view.                    *)
(***************************************************************************)
EXTENDS MigrationHistoryProperties

CONSTANTS t, u, profiles, listing, p, q, purge, grow

MCRelations == {t, u}
MCPolicyNames == {p, q}
MCRoutines == {purge, grow}
MCViews == {profiles, listing}
MCPlatformGrants == {"anon", "authenticated"} \X Privileges

S(kind) == [kind |-> kind, table |-> t, to |-> u, policy |-> p, routine |-> purge,
            view |-> profiles, base |-> u, shape |-> "plain", invoker |-> FALSE, replace |-> FALSE,
            privs |-> Privileges, everything |-> FALSE,
            grantee |-> "public", ifExists |-> FALSE, definer |-> FALSE,
            writes |-> FALSE, trigger |-> FALSE, resolved |-> FALSE]

CreateT  == S("create table")
EnableT  == S("enable rls")
Policy   == S("create policy")
PolicyIf == [S("drop policy") EXCEPT !.ifExists = TRUE]
Definer  == [S("create function") EXCEPT !.definer = TRUE, !.writes = TRUE]
OfU(s)   == [s EXCEPT !.table = u]
OfGrow(s)   == [s EXCEPT !.routine = grow]

\* 0001_base, 0002_T.., 0002_a.., 0002_idem.., 0003_.., 9_.. and 10_..
Base    == [prefix |-> "0001", number |-> 1, rank |-> 10, locale |-> 10, stmts |-> <<CreateT, EnableT, Policy>>]
Secure  == [prefix |-> "0002", number |-> 2, rank |-> 20, locale |-> 23, stmts |-> <<PolicyIf, EnableT>>]
Remake  == [prefix |-> "0002", number |-> 2, rank |-> 21, locale |-> 22, stmts |-> <<PolicyIf, Policy>>]
Idem    == [prefix |-> "0002", number |-> 2, rank |-> 23, locale |-> 24, stmts |-> <<[CreateT EXCEPT !.ifExists = TRUE]>>]
Careful == [prefix |-> "0002", number |-> 2, rank |-> 22, locale |-> 21, stmts |-> <<[EnableT EXCEPT !.ifExists = TRUE]>>]
Writer  == [prefix |-> "0003", number |-> 3, rank |-> 30, locale |-> 30, stmts |-> <<Definer>>]
Tamed   == [prefix |-> "0003", number |-> 3, rank |-> 31, locale |-> 31, stmts |-> <<[Definer EXCEPT !.definer = FALSE]>>]
Closed  == [prefix |-> "0003", number |-> 3, rank |-> 32, locale |-> 32,
            stmts |-> <<OfGrow(Definer), OfGrow(S("revoke"))>>]
Reader  == [prefix |-> "0002", number |-> 2, rank |-> 24, locale |-> 25,
            stmts |-> <<OfU([S("create function") EXCEPT !.resolved = TRUE])>>]
DropU   == [prefix |-> "0002", number |-> 2, rank |-> 25, locale |-> 20, stmts |-> <<OfU(S("drop table"))>>]
SecondU == [prefix |-> "0002", number |-> 2, rank |-> 26, locale |-> 26, stmts |-> <<OfU(CreateT)>>]
Moved   == [prefix |-> "0004", number |-> 4, rank |-> 40, locale |-> 40, stmts |-> <<S("rename table")>>]
Ten     == [prefix |-> "10", number |-> 10, rank |-> 8, locale |-> 8, stmts |-> <<OfU(S("use table"))>>]
Nine    == [prefix |-> "9", number |-> 9, rank |-> 90, locale |-> 90, stmts |-> <<OfU(CreateT)>>]

TableFiles == {Base, Secure, Remake, Idem, Careful, Writer, Tamed, Closed, Reader, DropU,
               SecondU, Moved, Ten, Nine}

From(role, s)  == [s EXCEPT !.grantee = role]
Everywhere(s)  == [s EXCEPT !.everything = TRUE]
FromBoth(s)    == <<From("anon", s), From("authenticated", s)>>
Replaced(s)    == [s EXCEPT !.replace = TRUE]
ViewFile(n, stmts) == [prefix |-> ToString(n), number |-> n, rank |-> 100 + n, locale |-> 100 + n, stmts |-> stmts]

\* What may come before 23_shared and after it: to the grants of the view, and to the view.
GrantAll   == ViewFile(20, <<From("anon", Everywhere(S("grant writes")))>>)
Lockdown   == ViewFile(21, FromBoth(Everywhere(S("revoke writes"))))
NoDefaults == ViewFile(22, FromBoth(S("default revoke")))
Shared     == ViewFile(23, <<OfU(CreateT), S("create view"),
                             From("anon", [S("grant writes") EXCEPT !.privs = {}])>>)  \* SELECT
Totals     == ViewFile(24, <<Replaced([S("create view") EXCEPT !.shape = "aggregate"])>>)
Invoker    == ViewFile(25, <<Replaced([S("create view") EXCEPT !.invoker = TRUE])>>)
Reset      == ViewFile(26, <<S("alter view")>>)
Secured    == ViewFile(27, <<[S("alter view") EXCEPT !.invoker = TRUE]>>)
Ruled      == ViewFile(28, <<S("create rule")>>)
Stored     == ViewFile(29, <<S("drop view"), [S("create view") EXCEPT !.shape = "materialized"]>>)
Dynamic    == ViewFile(30, <<S("drop view"), [S("create view") EXCEPT !.shape = "computed"]>>)
Locked     == ViewFile(31, <<From("anon", S("revoke writes")),
                             From("authenticated", Everywhere(S("revoke writes")))>>)
LockedAnon == ViewFile(32, <<From("anon", S("revoke writes"))>>)
LockedPub  == ViewFile(33, <<S("revoke writes")>>)
Granted1   == ViewFile(34, <<From("anon", [S("grant writes") EXCEPT !.privs = {"delete"}])>>)
Anew       == ViewFile(35, <<S("drop view"), S("create view")>>)
Retired    == ViewFile(36, <<[S("drop view") EXCEPT !.ifExists = TRUE]>>)
Thin       == ViewFile(37, <<[S("create view") EXCEPT !.view = listing, !.base = profiles]>>)

GrantFiles == {GrantAll, Lockdown, NoDefaults, Shared, Locked, LockedAnon, LockedPub, Granted1,
               Anew, Retired}
ShapeFiles == {Shared, Totals, Invoker, Reset, Secured, Ruled, Stored, Dynamic, Locked, Anew, Thin}

MCFiles == TableFiles \cup GrantFiles \cup ShapeFiles
MCProjects == {TableFiles, GrantFiles, ShapeFiles}
RenameFiles == {Base, Moved}
RenameProjects == {RenameFiles}

MCHandEdits == {Policy, S("drop policy"), [Policy EXCEPT !.policy = q], S("disable rls"), EnableT}
MCDriftAllow == {<<t, q>>}
MCGrandfather == {}
=============================================================================
