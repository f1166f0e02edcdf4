--------------------------- MODULE StorageIsolation ---------------------------
(***************************************************************************)
(* The storage-isolation guard: buckets whose tenants are folders. Tenant  *)
(* A and B are the first two folders of a bucket. A target says what the   *)
(* policies on storage.objects let the visitor (anon) list and the         *)
(* application role read and upload: nothing of it (denied: no grant),     *)
(* no row, the folder of the identity in force, every row.                 *)
(***************************************************************************)
EXTENDS ProbeGuard

CONSTANT Worlds

Init == Enter(Worlds, [canary |-> FALSE, cross |-> FALSE, own |-> FALSE, hop |-> FALSE, ownHop |-> FALSE, failed |-> "no"])

Run == Connect \/ Disconnect

-----------------------------------------------------------------------------
(* What the session sees.                                                  *)

Reaches(access, who, folder) ==
  /\ access # "denied"
  /\ \/ ~world.rls
     \/ access = "all"
     \/ access = "own" /\ who = folder

\* buildBecomeTenant: the hook of the configuration may set what no policy reads.
Becomes(x) == IF world.hook = "other" THEN pg.who ELSE x

Folders(b) == CASE b.folders = "flat" -> {"-"} [] b.folders = "one" -> {"A"} [] OTHER -> {"A", "B"}

Listed(b) == \E f \in Folders(b) : Reaches(b.anon, pg.who, f)

-----------------------------------------------------------------------------
(* Presence of the schema, the RLS flag, the buckets left after filters.   *)
Plan ==
  LET flagged == IF world.rls THEN me ELSE Said(me, 0, "rls", "leak")
  IN  Await("plan", FALSE, pg,
        IF ~world.present THEN Ending(me, "skip")
        ELSE IF world.targets = <<>> THEN Ending(flagged, "skip")
        ELSE [flagged EXCEPT !.at = "begin"])

Begin == Await("begin", FALSE, Began(pg), To("canary"))

SelfCheck == CreateCanary("next") \/ CheckCanary("reads")

\* The visitor is asked first, whatever the folders of the bucket.
NextBucket ==
  /\ me.at = "next"
  /\ IF me.todo = <<>> THEN Do(pg, To("finally"))
     ELSE IF ~world.anonRole \/ Target.public THEN Do(pg, To("settle"))
     ELSE Await("next", FALSE, Saved(pg), To("listing"))

\* The savepoint is undone whether the listing worked or not.
BucketListing ==
  Guarded("listing", Target.anon = "denied", Undone(pg),
          IF Listed(Target) THEN Said(To("settle"), Current, "listing", "leak") ELSE To("settle"),
          To("settle"))

\* Public buckets are a catalog fact; one folder is nothing to compare.
Settled == Target.public \/ Target.folders # "two"

SettleBucket ==
  \/ /\ me.at = "settle" /\ Settled
     /\ Do(pg, Onward(Said(me, Current, "tenant",
                IF Target.public /\ Target.folders = "two" THEN "leak" ELSE "note")))
  \/ me.at = "settle" /\ ~Settled /\ Await("settle", ~world.member, AsRole(pg, "app"), To("check"))

\* A looks into B's folder and its own, then B into A's.
ProbeReads ==
  LET sees(who, folder) == Reaches(Target.reads, Becomes(who), folder)
  IN  Attempt("reads", world.hook = "fails" \/ Target.reads = "denied", Acting(pg, Becomes("B")),
        [To("uploads") EXCEPT !.loc.cross = sees("A", "B") \/ sees("B", "A"),
                              !.loc.own = sees("A", "A")],
        [To("reset") EXCEPT !.loc.failed =
           IF pg.st = "open" /\ world.hook # "fails" THEN "denied" ELSE "error"])

\* One upload each into the own folder and, when that works, the other one,
\* each undone in its savepoint. One that is cancelled is one that failed, and
\* the verdict does not ask which of the two it was.
ProbeUpload ==
  LET own == Reaches(Target.writes, pg.who, "B")
      hop == own /\ Reaches(Target.writes, pg.who, "A")
  IN  \/ Attempt("uploads", FALSE, pg,
            [To("reset") EXCEPT !.loc.ownHop = world.uploads /\ own, !.loc.hop = world.uploads /\ hop],
            [To("reset") EXCEPT !.loc.failed = IF world.uploads THEN "error" ELSE @])
      \/ /\ me.at = "uploads" /\ world.uploads /\ pg.st = "aborted"
         /\ Do([pg EXCEPT !.st = "open"], [To("reset") EXCEPT !.loc.ownHop = FALSE, !.loc.hop = FALSE])

ClassifyBucket(l) ==
  IF l.failed # "no" THEN "note"
  ELSE IF l.cross \/ l.hop THEN "leak"
  ELSE IF l.own THEN "clear" ELSE "note"

\* reset role stands outside the catch: after an error it can only raise too.
ResetRole ==
  Await("reset", FALSE, AsRole(pg, "conn"),
        Onward([Said(me, Current, "tenant", ClassifyBucket(me.loc)) EXCEPT !.loc.failed = "no"]))

\* Objects no row refers to, asked with the connection's own rights.
ClassifyOrphans ==
  Attempt("after", world.orphans = "error", pg,
          IF world.orphans \in {"some", "unlinked"} THEN Said(To("close"), 0, "orphans", "note")
          ELSE To("close"),
          IF world.orphans = "off" THEN To("close") ELSE Said(To("close"), 0, "orphans", "note"))

Check ==
  \/ Plan \/ Begin \/ SelfCheck \/ NextBucket \/ BucketListing \/ SettleBucket
  \/ ProbeReads \/ ProbeUpload \/ ResetRole \/ RollBack("after") \/ ClassifyOrphans

Next == Run \/ Check

-----------------------------------------------------------------------------
(* What is really wrong with the buckets, and what may stop the guard.     *)

Open(access) == access = "all" \/ (access # "denied" /\ ~world.rls)

Exposed ==
  (IF world.rls THEN {} ELSE {[on |-> 0, arm |-> "rls"]})
  \cup {[on |-> k, arm |-> "listing"] : k \in {i \in 1..Len(world.targets) :
          LET b == world.targets[i] IN world.anonRole /\ ~b.public /\ Open(b.anon)}}
  \cup {[on |-> k, arm |-> "tenant"] : k \in {i \in 1..Len(world.targets) :
          LET b == world.targets[i]
          IN  /\ b.folders = "two"
              /\ b.public \/ Open(b.reads) \/ (world.uploads /\ Open(b.writes))}}

\* A listing or an upload that was cancelled has only failed.
Blind == {e \in Exposed :
            /\ fault = "cancelled"
            /\ \/ e.arm = "listing"
               \/ e.arm = "tenant" /\ ~world.targets[e.on].public /\ ~Open(world.targets[e.on].reads)}

Provable == Exposed

\* The identity of the bucket before is still in force when the visitor lists.
Spurious == [on : 2..Len(world.targets), arm : {"listing"}]

Fragile ==
  \/ ~world.temp
  \/ \E i \in 1..Len(world.targets) :
       LET b == world.targets[i]
       IN  ~b.public /\ b.folders = "two"
           /\ (~world.member \/ world.hook = "fails" \/ b.reads = "denied")

\* Without buckets the guard skips, and with it goes what it found on the table.
Dropped == ~world.rls /\ world.targets = <<>>

Truth == [exposed |-> Exposed, blind |-> Blind, provable |-> Provable, spurious |-> Spurious, fragile |-> Fragile]
=============================================================================
