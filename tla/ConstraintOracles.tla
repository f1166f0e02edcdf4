-------------------------- MODULE ConstraintOracles --------------------------
(***************************************************************************)
(* The constraint-oracles guard: a unique (or exclusion) index on a tenant *)
(* table without the tenant in its key tells whether a value exists in     *)
(* another tenant, and so does a foreign key between tenant tables. A      *)
(* column is the tenant, a guessable one, a uuid or a secret. An index is  *)
(* the columns of its key, what it INCLUDEs, and the columns an expression *)
(* in it names (with world.scoped: so that it is one value per tenant).    *)
(***************************************************************************)
EXTENDS ProbeGuard

CONSTANT Worlds

Init == Enter(Worlds, [none |-> 0])

Run == Connect \/ Disconnect

-----------------------------------------------------------------------------
Unguessable == {"uuid"}

\* pg_index.indkey lists the columns of the key and the included ones.
Columns(t) == t.key \cup t.includes

ClassifyUniqueIndex(t) ==
  IF ~t.tenant \/ t.primary THEN "skip"
  ELSE IF "tenant" \in Columns(t) THEN "safe"
  ELSE IF t.expression
    THEN IF "tenant" \in t.names THEN "safe"
         ELSE IF t.names = {} THEN "note"
         ELSE IF t.names \subseteq Unguessable THEN "skip" ELSE "leak"
  ELSE IF Columns(t) \subseteq Unguessable THEN "skip"
  ELSE IF Columns(t) = {"secret"} THEN "note" ELSE "leak"

ClassifyForeignKey(t) == IF ~t.tenant \/ ~t.parent \/ "tenant" \in t.key THEN "safe" ELSE "note"

Kind(kind) == {k \in 1..Len(world.targets) : world.targets[k].kind = kind /\ ~world.targets[k].allow}

Found(kind) ==
  {[on |-> k, arm |-> kind,
    says |-> IF kind = "fk" THEN ClassifyForeignKey(world.targets[k]) ELSE ClassifyUniqueIndex(world.targets[k])] :
     k \in Kind(kind)}

Reported(kind) == {a \in Found(kind) : a.says \in {"leak", "note"}}

TenantColumns == Await("plan", FALSE, pg, To("facts"))
ColumnFacts   == Await("facts", FALSE, pg, To("unique"))
UniqueIndexes == Await("unique", FALSE, pg, [To("fk") EXCEPT !.said = @ \cup Reported("unique")])
ForeignKeys   == Await("fk", FALSE, pg, [To("close") EXCEPT !.said = @ \cup Reported("fk")])

Check == TenantColumns \/ ColumnFacts \/ UniqueIndexes \/ ForeignKeys \/ Leave

Next == Run \/ Check

-----------------------------------------------------------------------------
(* What really is an oracle: the value of the key is one for all tenants,  *)
(* and there is something in it to guess. A credential is one on purpose.  *)

Scoped(t) == "tenant" \in t.key \/ (t.expression /\ "tenant" \in t.names /\ t.scoped)

Guessable(t) == "guess" \in t.key \/ (t.expression /\ "guess" \in t.names)

Exposed ==
  {[on |-> k, arm |-> "unique"] : k \in {i \in Kind("unique") :
     LET t == world.targets[i] IN t.tenant /\ ~Scoped(t) /\ Guessable(t)}}
  \cup {[on |-> k, arm |-> "fk"] : k \in {i \in Kind("fk") :
     LET t == world.targets[i] IN t.tenant /\ t.parent /\ "tenant" \notin t.key}}

\* A primary key is left out; an included tenant column, or one that an
\* expression only mentions, passes for one of the key; beside an expression the
\* plain columns of the key are not looked at.
Blind ==
  {e \in Exposed : LET t == world.targets[e.on]
                   IN  /\ e.arm = "unique"
                       /\ \/ t.primary
                          \/ "tenant" \in t.includes
                          \/ t.expression /\ ("tenant" \in t.names \/ t.names \subseteq Unguessable)}

Provable == {e \in Exposed \ Blind : e.arm = "unique" /\ (world.targets[e.on].expression => world.targets[e.on].names # {})}

\* Keys with a secret and something else, and those whose index only includes
\* what could be guessed.
Spurious == {[on |-> k, arm |-> "unique"] : k \in {i \in Kind("unique") :
               LET t == world.targets[i]
               IN  ~Guessable(t) /\ ("secret" \in Columns(t) \cup t.names \/ "guess" \in t.includes)}}
Fragile  == FALSE

Truth == [exposed |-> Exposed, blind |-> Blind, provable |-> Provable, spurious |-> Spurious, fragile |-> Fragile]
=============================================================================
