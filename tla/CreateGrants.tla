----------------------------- MODULE CreateGrants -----------------------------
(***************************************************************************)
(* The create-grants guard: who may create objects in the schemas and in   *)
(* the database. A place (a schema, or world.database) says whether PUBLIC *)
(* may, which roles may by a grant of their own (direct) and which by      *)
(* ownership, membership or as superuser (indirect); world.roles are the   *)
(* roles the server has, of the application's and the anonymous one.       *)
(***************************************************************************)
EXTENDS ProbeGuard

CONSTANT Worlds

Init == Enter(Worlds, [none |-> 0])

Run == Connect \/ Disconnect

-----------------------------------------------------------------------------
\* The application may be what migrations run as; no stranger should create.
ClassifyCreateGrant(holder) == IF holder = "app" THEN "note" ELSE "leak"

Says(on, holders) == {[on |-> on, arm |-> h, says |-> ClassifyCreateGrant(h)] : h \in holders}

\* What only words the findings: definer functions, schemas one can write to,
\* the version of the server. Each is read in a try of its own.
Context ==
  \/ Attempt("plan", FALSE, pg, To("writable"), To("writable"))
  \/ Attempt("writable", FALSE, pg, To("version"), To("version"))
  \/ Attempt("version", FALSE, pg, To("schemas"), To("schemas"))

\* A row per schema and role: none when neither role exists.
Schemas == IF world.roles = {} THEN {} ELSE {k \in 1..Len(world.targets) : world.targets[k].exists}

SchemaHolders(t) ==
  (IF t.public THEN {"PUBLIC"} ELSE {})
  \cup {r \in world.roles : r \in t.direct \/ (~t.public /\ r \in t.indirect)}

SchemaGrants ==
  Await("schemas", FALSE, pg,
    [To("database") EXCEPT !.said = @ \cup UNION {Says(k, SchemaHolders(world.targets[k]) \ world.allow) : k \in Schemas}])

\* PUBLIC, allowed or not, ends the matter for the database.
DatabaseHolders ==
  LET d == world.database
  IN  IF world.roles = {} THEN {}
      ELSE IF d.public THEN {"PUBLIC"} ELSE world.roles \cap (d.direct \cup d.indirect)

\* MUTANT of Concluded: a database whose ACL cannot be read skips the guard.
ConcludedTogether(said) ==
  [To("close") EXCEPT !.said = said, !.result = IF Schemas = {} \/ ~world.database.exists THEN "skip" ELSE @]

\* Nothing scanned is a skip, whatever the database said.
Concluded(said) ==
  [To("close") EXCEPT !.said = said, !.result = IF Schemas = {} THEN "skip" ELSE @]

DatabaseGrants ==
  Attempt("database", ~world.database.exists, pg,
          Concluded(me.said \cup Says(0, DatabaseHolders \ world.allow)), Concluded(me.said))

Check == Context \/ SchemaGrants \/ DatabaseGrants \/ Leave

Next == Run \/ Check

-----------------------------------------------------------------------------
(* Who really may create, and where the guard does not say so.             *)

Places == {k \in 1..Len(world.targets) : world.targets[k].exists} \cup {0}
Place(k) == IF k = 0 THEN world.database ELSE world.targets[k]

\* Whoever may create, and still could after every grant to PUBLIC is revoked.
Exposed ==
  {e \in [on : Places, arm : {"PUBLIC", "app", "anon"} \ world.allow] :
     LET p == Place(e.on)
     IN  IF e.arm = "PUBLIC" THEN p.public
         ELSE e.arm \in world.roles /\ e.arm \in p.direct \cup p.indirect}

\* Behind PUBLIC an inherited right is not seen, nor any right on the database;
\* a database whose ACL cannot be read is passed over.
Blind ==
  {e \in Exposed : LET p == Place(e.on)
                   IN  \/ e.arm # "PUBLIC" /\ p.public /\ (e.on = 0 \/ e.arm \notin p.direct)
                       \/ e.on = 0 /\ (~p.exists \/ fault = "lost")}

Provable == {e \in Exposed \ Blind : e.arm # "app"}

Spurious == {}
Fragile  == FALSE

\* What is known of the database is dropped with the skip.
Dropped == Schemas = {} /\ world.roles # {}

Truth == [exposed |-> Exposed, blind |-> Blind, provable |-> Provable, spurious |-> Spurious, fragile |-> Fragile]
=============================================================================
