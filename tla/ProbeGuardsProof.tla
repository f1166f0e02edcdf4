--------------------------- MODULE ProbeGuardsProof ---------------------------
(***************************************************************************)
(* Three promises of every probing guard, for any databases, faults and    *)
(* interleaving: what it makes does not outlive it, a skip, which a        *)
(* pipeline counts as green, hides no leak, and a guard with a self-check  *)
(* proves nothing in a role that bypasses the policies. Each has its       *)
(* inductive invariant, one lemma for every guard's procedure and the      *)
(* theorem that puts the eighteen together.                                *)
(***************************************************************************)
EXTENDS ProbeGuards, TLAPS

\* The session and the procedure never lose a field.
Shaped ==
  /\ DOMAIN pg = {"st", "role", "who", "saves", "made", "kept"}
  /\ DOMAIN me = {"at", "todo", "loc", "said", "thrown", "result"}

-----------------------------------------------------------------------------
(* Nothing is kept. A statement commits at once when no transaction is     *)
(* open, so what a guard makes is only safe at places it cannot reach with *)
(* an idle session. Inside are those places, from the BEGIN on.            *)

Inside ==
  CASE world.guard = "anon-reads" ->
         {"surface", "facts", "canary", "role", "check", "next", "count", "undo"}
    [] world.guard = "anon-writes" ->
         {"canary", "role", "check", "next", "UPDATE", "DELETE", "probe"}
    [] world.guard = "view-isolation" ->
         {"surface", "tenants", "deps", "nested", "canary", "role", "check", "next", "forward", "reverse"}
    [] world.guard = "storage-isolation" ->
         {"canary", "next", "listing", "settle", "check", "reads", "uploads", "reset"}
    [] world.guard = "realtime-isolation" ->
         {"tenants", "canary", "role", "check", "forward", "reverse", "own", "publish", "other", "intrude", "reset"}
    [] world.guard = "definer-rpc" ->
         {"canary", "role", "check", "become", "next", "call", "control", "sentinel"}
    [] world.guard = "default-privileges" -> {"role", "create", "read", "undo", "failed"}
    [] OTHER -> {}

KeptInv == Shaped /\ pg.kept = {} /\ (pg.st = "idle" => me.at \notin Inside)

LEMMA KeptInit == Init => KeptInv
BY DEF Init, KeptInv, Shaped, Inside, Closed,
       AR!Init, AR!Enter, AR!Closed, AR!Entered, AW!Init, AW!Enter, AW!Closed, AW!Entered, VI!Init, VI!Enter,
       VI!Closed, VI!Entered, SI!Init, SI!Enter, SI!Closed, SI!Entered, RI!Init, RI!Enter, RI!Closed,
       RI!Entered, DR!Init, DR!Enter, DR!Closed, DR!Entered, IT!Init, IT!Enter, IT!Closed, IT!Entered,
       CE!Init, CE!Enter, CE!Closed, CE!Entered, TV!Init, TV!Enter, TV!Closed, TV!Entered, ST!Init, ST!Enter,
       ST!Closed, ST!Entered, DP!Init, DP!Enter, DP!Closed, DP!Entered, FK!Init, FK!Enter, FK!Closed,
       FK!Entered, RC!Init, RC!Enter, RC!Closed, RC!Entered, CO!Init, CO!Enter, CO!Closed, CO!Entered,
       CG!Init, CG!Enter, CG!Closed, CG!Entered, ME!Init, ME!Enter, ME!Closed, ME!Entered, SH!Init, SH!Enter,
       SH!Closed, SH!Entered, PB!Init, PB!Enter, PB!Closed, PB!Entered

LEMMA AnonReadsStep ==
  ASSUME KeptInv, world.guard = "anon-reads", AR!Next
  PROVE  KeptInv'
<1> USE DEF KeptInv, Shaped, Inside
<1> USE DEF AR!Attempt, AR!Await, AR!Closed, AR!Do, AR!Ending, AR!Failed, AR!Live, AR!Said, AR!Thrown, AR!To
<1>1. CASE AR!PlanRelations BY <1>1 DEF AR!PlanRelations
<1>2. CASE AR!UnprotectedTables BY <1>2 DEF AR!Planned, AR!UnprotectedTables
<1>3. CASE AR!Begin BY <1>3 DEF AR!Began, AR!Begin
<1>4. CASE AR!NextSurface BY <1>4 DEF AR!NextSurface, AR!Saved
<1>5. CASE AR!ReadSurface BY <1>5 DEF AR!Guarded, AR!ReadSurface, AR!Released, AR!Undone
<1>6. CASE AR!SelfCheck BY <1>6 DEF AR!AsRole, AR!CheckCanary, AR!CreateCanary, AR!Made, AR!RolledBack, AR!SelfCheck,
      AR!SwitchRole
<1>7. CASE AR!NextRelation BY <1>7 DEF AR!Answer, AR!NextRelation, AR!Onward, AR!Saved
<1>8. CASE AR!CountVisible BY <1>8 DEF AR!CountVisible
<1>9. CASE AR!UndoProbe BY <1>9 DEF AR!Answer, AR!Onward, AR!Released, AR!Undo, AR!UndoProbe, AR!Undone
<1>10. CASE AR!RollBack("close") BY <1>10 DEF AR!RollBack, AR!RolledBack
<1>11. CASE AR!Connect BY <1>11 DEF AR!Connect
<1>12. CASE AR!Disconnect BY <1>12 DEF AR!Disconnect, AR!Verdict
<1> QED BY <1>1, <1>2, <1>3, <1>4, <1>5, <1>6, <1>7, <1>8, <1>9, <1>10, <1>11, <1>12 DEF AR!Next, AR!Check, AR!Run

LEMMA AnonWritesStep ==
  ASSUME KeptInv, world.guard = "anon-writes", AW!Next
  PROVE  KeptInv'
<1> USE DEF KeptInv, Shaped, Inside
<1> USE DEF AW!Await, AW!Closed, AW!Do, AW!Ending, AW!Failed, AW!Live, AW!Onward, AW!Thrown, AW!To
<1>1. CASE AW!PlanSurface BY <1>1 DEF AW!PlanSurface
<1>2. CASE AW!PlanViews BY <1>2 DEF AW!Attempt, AW!PlanViews, AW!Planned
<1>3. CASE AW!Begin BY <1>3 DEF AW!Began, AW!Begin
<1>4. CASE AW!SelfCheck BY <1>4 DEF AW!AsRole, AW!Attempt, AW!CheckCanary, AW!CreateCanary, AW!Made, AW!RolledBack,
      AW!Said, AW!SelfCheck, AW!SwitchRole
<1>5. CASE AW!NextTarget BY <1>5 DEF AW!NextTarget
<1>6. CASE AW!OpenProbe BY <1>6 DEF AW!After, AW!OpenProbe, AW!Saved
<1>7. CASE AW!ProbeWrite BY <1>7 DEF AW!After, AW!Guarded, AW!ProbeWrite, AW!Recorded, AW!Released, AW!Said, AW!Undone
<1>8. CASE AW!RollBack("close") BY <1>8 DEF AW!RollBack, AW!RolledBack
<1>9. CASE AW!Connect BY <1>9 DEF AW!Connect
<1>10. CASE AW!Disconnect BY <1>10 DEF AW!Disconnect, AW!Verdict
<1> QED BY <1>1, <1>2, <1>3, <1>4, <1>5, <1>6, <1>7, <1>8, <1>9, <1>10 DEF AW!Next, AW!Check, AW!Run

LEMMA ViewIsolationStep ==
  ASSUME KeptInv, world.guard = "view-isolation", VI!Next
  PROVE  KeptInv'
<1> USE DEF KeptInv, Shaped, Inside
<1> USE DEF VI!Await, VI!Closed, VI!Do, VI!Failed, VI!Guarded, VI!Live, VI!Onward, VI!Released, VI!Said, VI!Saved,
      VI!Thrown, VI!To, VI!Undone
<1>1. CASE VI!PlanViews BY <1>1 DEF VI!Ending, VI!PlanViews, VI!Planned
<1>2. CASE VI!Begin BY <1>2 DEF VI!Began, VI!Begin
<1>3. CASE VI!NextSurface BY <1>3 DEF VI!NextSurface
<1>4. CASE VI!DistinctTenants BY <1>4 DEF VI!DistinctTenants, VI!Surfaced
<1>5. CASE VI!NestedViewDeps BY <1>5 DEF VI!NestedViewDeps, VI!Surfaced
<1>6. CASE VI!SelfCheck BY <1>6 DEF VI!AsRole, VI!Attempt, VI!CheckCanary, VI!CreateCanary, VI!Ending, VI!Made,
      VI!RolledBack, VI!SelfCheck, VI!SwitchRole
<1>7. CASE VI!NextView BY <1>7 DEF VI!NextView
<1>8. CASE VI!ProbeForward BY <1>8 DEF VI!Acting, VI!ProbeForward, VI!Unproven
<1>9. CASE VI!ProbeReverse BY <1>9 DEF VI!Acting, VI!ProbeReverse, VI!Unproven
<1>10. CASE VI!RollBack("close") BY <1>10 DEF VI!RollBack, VI!RolledBack
<1>11. CASE VI!Connect BY <1>11 DEF VI!Connect
<1>12. CASE VI!Disconnect BY <1>12 DEF VI!Disconnect, VI!Verdict
<1> QED BY <1>1, <1>2, <1>3, <1>4, <1>5, <1>6, <1>7, <1>8, <1>9, <1>10, <1>11, <1>12 DEF VI!Next, VI!Check, VI!Run

LEMMA StorageIsolationStep ==
  ASSUME KeptInv, world.guard = "storage-isolation", SI!Next
  PROVE  KeptInv'
<1> USE DEF KeptInv, Shaped, Inside
<1> USE DEF SI!Attempt, SI!Await, SI!Closed, SI!Do, SI!Failed, SI!Live, SI!Said, SI!Thrown, SI!To
<1>1. CASE SI!Plan BY <1>1 DEF SI!Ending, SI!Plan
<1>2. CASE SI!Begin BY <1>2 DEF SI!Began, SI!Begin
<1>3. CASE SI!SelfCheck BY <1>3 DEF SI!CheckCanary, SI!CreateCanary, SI!Ending, SI!Made, SI!RolledBack, SI!SelfCheck
<1>4. CASE SI!NextBucket BY <1>4 DEF SI!NextBucket, SI!Saved
<1>5. CASE SI!BucketListing BY <1>5 DEF SI!BucketListing, SI!Guarded, SI!Released, SI!Undone
<1>6. CASE SI!SettleBucket BY <1>6 DEF SI!AsRole, SI!Onward, SI!SettleBucket
<1>7. CASE SI!ProbeReads BY <1>7 DEF SI!Acting, SI!ProbeReads
<1>8. CASE SI!ProbeUpload BY <1>8 DEF SI!ProbeUpload
<1>9. CASE SI!ResetRole BY <1>9 DEF SI!AsRole, SI!Onward, SI!ResetRole
<1>10. CASE SI!RollBack("after") BY <1>10 DEF SI!RollBack, SI!RolledBack
<1>11. CASE SI!ClassifyOrphans BY <1>11 DEF SI!ClassifyOrphans
<1>12. CASE SI!Connect BY <1>12 DEF SI!Connect
<1>13. CASE SI!Disconnect BY <1>13 DEF SI!Disconnect, SI!Verdict
<1> QED BY <1>1, <1>2, <1>3, <1>4, <1>5, <1>6, <1>7, <1>8, <1>9, <1>10, <1>11, <1>12, <1>13 DEF SI!Next, SI!Check, SI!Run

LEMMA RealtimeIsolationStep ==
  ASSUME KeptInv, world.guard = "realtime-isolation", RI!Next
  PROVE  KeptInv'
<1> USE DEF KeptInv, Shaped, Inside
<1> USE DEF RI!Attempt, RI!Await, RI!Closed, RI!Do, RI!Failed, RI!Live, RI!RolledBack, RI!Said, RI!Thrown, RI!To
<1>1. CASE RI!PlanChannels BY <1>1 DEF RI!Ending, RI!PlanChannels
<1>2. CASE RI!Publication BY <1>2 DEF RI!Publication
<1>3. CASE RI!ReadRls BY <1>3 DEF RI!Messages, RI!ReadRls
<1>4. CASE RI!Begin BY <1>4 DEF RI!Began, RI!Begin
<1>5. CASE RI!DistinctTopicTenants BY <1>5 DEF RI!DistinctTopicTenants, RI!Messages
<1>6. CASE RI!SelfCheck BY <1>6 DEF RI!AsRole, RI!CheckCanary, RI!CreateCanary, RI!Ending, RI!Made, RI!SelfCheck,
      RI!SwitchRole
<1>7. CASE RI!ProbeForward BY <1>7 DEF RI!Acting, RI!ProbeForward, RI!Unproven
<1>8. CASE RI!ProbeReverse BY <1>8 DEF RI!Acting, RI!ProbeReverse, RI!Unproven
<1>9. CASE RI!OpenBroadcast BY <1>9 DEF RI!OpenBroadcast, RI!Saved, RI!Unproven
<1>10. CASE RI!ProbeBroadcast BY <1>10 DEF RI!Guarded, RI!ProbeBroadcast, RI!Released, RI!Undone
<1>11. CASE RI!ResetRole BY <1>11 DEF RI!AsRole, RI!Messages, RI!ResetRole
<1>12. CASE RI!RollBack("close") BY <1>12 DEF RI!RollBack
<1>13. CASE RI!Connect BY <1>13 DEF RI!Connect
<1>14. CASE RI!Disconnect BY <1>14 DEF RI!Disconnect, RI!Verdict
<1> QED BY <1>1, <1>2, <1>3, <1>4, <1>5, <1>6, <1>7, <1>8, <1>9, <1>10, <1>11, <1>12, <1>13, <1>14 DEF RI!Next, RI!Check, RI!Run

LEMMA DefinerRpcStep ==
  ASSUME KeptInv, world.guard = "definer-rpc", DR!Next
  PROVE  KeptInv'
<1> USE DEF KeptInv, Shaped, Inside
<1> USE DEF DR!Attempt, DR!Await, DR!Closed, DR!Do, DR!Failed, DR!Live, DR!Onward, DR!Said, DR!Thrown, DR!To
<1>1. CASE DR!PlanFunctions BY <1>1 DEF DR!Ending, DR!PlanFunctions
<1>2. CASE DR!SampleTenants BY <1>2 DEF DR!SampleTenants
<1>3. CASE DR!WritableSchemas BY <1>3 DEF DR!WritableSchemas
<1>4. CASE DR!Begin BY <1>4 DEF DR!Began, DR!Begin
<1>5. CASE DR!SelfCheck BY <1>5 DEF DR!AsRole, DR!CheckCanary, DR!CreateCanary, DR!Ending, DR!Made, DR!RolledBack,
      DR!SelfCheck, DR!SwitchRole
<1>6. CASE DR!BecomeTenant BY <1>6 DEF DR!Acting, DR!BecomeTenant
<1>7. CASE DR!NextFunction BY <1>7 DEF DR!BodyChecks, DR!NextFunction, DR!NotCalled, DR!Saved
<1>8. CASE DR!CallFunction BY <1>8 DEF DR!CallFunction, DR!Guarded, DR!Released, DR!Undone
<1>9. CASE DR!ControlArm BY <1>9 DEF DR!ControlArm, DR!Saved
<1>10. CASE DR!CallWithSentinel BY <1>10 DEF DR!CallWithSentinel, DR!Guarded, DR!Released, DR!Undone
<1>11. CASE DR!RollBack("close") BY <1>11 DEF DR!RollBack, DR!RolledBack
<1>12. CASE DR!Connect BY <1>12 DEF DR!Connect
<1>13. CASE DR!Disconnect BY <1>13 DEF DR!Disconnect, DR!Verdict
<1> QED BY <1>1, <1>2, <1>3, <1>4, <1>5, <1>6, <1>7, <1>8, <1>9, <1>10, <1>11, <1>12, <1>13 DEF DR!Next, DR!Check, DR!Run

LEMMA IdentityTrustStep ==
  ASSUME KeptInv, world.guard = "identity-trust", IT!Next
  PROVE  KeptInv'
<1> USE DEF KeptInv, Shaped, Inside
<1> USE DEF IT!Await, IT!Do, IT!Failed, IT!Live, IT!Thrown, IT!To
<1>1. CASE IT!PlanPolicies BY <1>1 DEF IT!Ending, IT!PlanPolicies
<1>2. CASE IT!DefinerFunctions BY <1>2 DEF IT!DefinerFunctions
<1>3. CASE IT!AuthorityTables BY <1>3 DEF IT!AuthorityTables
<1>4. CASE IT!Begin BY <1>4 DEF IT!Began, IT!Begin
<1>5. CASE IT!NextTable BY <1>5 DEF IT!NextTable, IT!Onward
<1>6. CASE IT!SwitchToForge BY <1>6 DEF IT!AsRole, IT!SwitchRole, IT!SwitchToForge
<1>7. CASE IT!ForgeNobody BY <1>7 DEF IT!Acting, IT!Attempt, IT!ForgeNobody, IT!Said, IT!Swallowed
<1>8. CASE IT!ForgeVictim BY <1>8 DEF IT!Acting, IT!Attempt, IT!ForgeVictim, IT!Said, IT!Swallowed
<1>9. CASE IT!ResetRole BY <1>9 DEF IT!AsRole, IT!Onward, IT!ResetRole
<1>10. CASE IT!RollBack("self") BY <1>10 DEF IT!Closed, IT!RollBack, IT!RolledBack
<1>11. CASE IT!SelfEscalation BY <1>11 DEF IT!SelfEscalation
<1>12. CASE IT!PolicyText BY <1>12 DEF IT!PolicyText
<1>13. CASE IT!Connect BY <1>13 DEF IT!Connect
<1>14. CASE IT!Disconnect BY <1>14 DEF IT!Closed, IT!Disconnect, IT!Verdict
<1> QED BY <1>1, <1>2, <1>3, <1>4, <1>5, <1>6, <1>7, <1>8, <1>9, <1>10, <1>11, <1>12, <1>13, <1>14 DEF IT!Next, IT!Check, IT!Run

LEMMA ColumnExposureStep ==
  ASSUME KeptInv, world.guard = "column-exposure", CE!Next
  PROVE  KeptInv'
<1> USE DEF KeptInv, Shaped, Inside
<1> USE DEF CE!Await, CE!Do, CE!Failed, CE!Live, CE!Said, CE!Thrown, CE!To
<1>1. CASE CE!PlanRelations BY <1>1 DEF CE!Ending, CE!HandOff, CE!PlanRelations
<1>2. CASE CE!GrantPaths BY <1>2 DEF CE!GrantPaths
<1>3. CASE CE!Begin BY <1>3 DEF CE!Began, CE!Begin
<1>4. CASE CE!AssumeRole BY <1>4 DEF CE!AsRole, CE!AssumeRole, CE!Attempt
<1>5. CASE CE!NextRelation BY <1>5 DEF CE!NextRelation, CE!Saved
<1>6. CASE CE!ProbeRelation BY <1>6 DEF CE!Guarded, CE!Onward, CE!ProbeRelation, CE!Released, CE!Undone
<1>7. CASE CE!RollBack("handoff") BY <1>7 DEF CE!Closed, CE!RollBack, CE!RolledBack
<1>8. CASE CE!Finish BY <1>8 DEF CE!Finish, CE!HandOff
<1>9. CASE CE!Connect BY <1>9 DEF CE!Connect
<1>10. CASE CE!Disconnect BY <1>10 DEF CE!Closed, CE!Disconnect, CE!Verdict
<1> QED BY <1>1, <1>2, <1>3, <1>4, <1>5, <1>6, <1>7, <1>8, <1>9, <1>10 DEF CE!Next, CE!Check, CE!Run

LEMMA TriggerVisibilityStep ==
  ASSUME KeptInv, world.guard = "trigger-visibility", TV!Next
  PROVE  KeptInv'
<1> USE DEF KeptInv, Shaped, Inside
<1> USE DEF TV!Await, TV!Do, TV!Failed, TV!Live, TV!Thrown, TV!To
<1>1. CASE TV!PlanTriggers BY <1>1 DEF TV!Ending, TV!PlanTriggers
<1>2. CASE TV!Begin BY <1>2 DEF TV!Began, TV!Begin
<1>3. CASE TV!NextTotal BY <1>3 DEF TV!NextTotal, TV!Saved
<1>4. CASE TV!CountTotal BY <1>4 DEF TV!CountTotal, TV!Guarded, TV!Released, TV!Undone
<1>5. CASE TV!Switch BY <1>5 DEF TV!AsRole, TV!Switch
<1>6. CASE TV!NextVisible BY <1>6 DEF TV!NextVisible, TV!Saved
<1>7. CASE TV!CountVisible BY <1>7 DEF TV!CountVisible, TV!Guarded, TV!Released, TV!Undone
<1>8. CASE TV!RollBack("judge") BY <1>8 DEF TV!Closed, TV!RollBack, TV!RolledBack
<1>9. CASE TV!ClassifyTriggers BY <1>9 DEF TV!ClassifyTriggers
<1>10. CASE TV!Connect BY <1>10 DEF TV!Connect
<1>11. CASE TV!Disconnect BY <1>11 DEF TV!Closed, TV!Disconnect, TV!Verdict
<1> QED BY <1>1, <1>2, <1>3, <1>4, <1>5, <1>6, <1>7, <1>8, <1>9, <1>10, <1>11 DEF TV!Next, TV!Check, TV!Run

LEMMA SchemaTenancyStep ==
  ASSUME KeptInv, world.guard = "schema-tenancy", ST!Next
  PROVE  KeptInv'
<1> USE DEF KeptInv, Shaped, Inside
<1> USE DEF ST!Await, ST!Do, ST!Failed, ST!Live, ST!Thrown, ST!To
<1>1. CASE ST!PlanSchemas BY <1>1 DEF ST!Ending, ST!PlanSchemas
<1>2. CASE ST!Begin BY <1>2 DEF ST!Began, ST!Begin
<1>3. CASE ST!SwitchRole("next") BY <1>3 DEF ST!AsRole, ST!SwitchRole
<1>4. CASE ST!NextAttempt BY <1>4 DEF ST!NextAttempt, ST!NextSchema, ST!Onward, ST!Said, ST!Saved
<1>5. CASE ST!ProbeTable BY <1>5 DEF ST!Guarded, ST!NextSchema, ST!Onward, ST!ProbeTable, ST!Released, ST!Said,
      ST!Undone
<1>6. CASE ST!ResetRole BY <1>6 DEF ST!AsRole, ST!ResetRole
<1>7. CASE ST!RollBack("judge") BY <1>7 DEF ST!Closed, ST!RollBack, ST!RolledBack
<1>8. CASE ST!ClassifyGroups BY <1>8 DEF ST!ClassifyGroups
<1>9. CASE ST!Connect BY <1>9 DEF ST!Connect
<1>10. CASE ST!Disconnect BY <1>10 DEF ST!Closed, ST!Disconnect, ST!Verdict
<1> QED BY <1>1, <1>2, <1>3, <1>4, <1>5, <1>6, <1>7, <1>8, <1>9, <1>10 DEF ST!Next, ST!Check, ST!Run

LEMMA DefaultPrivilegesStep ==
  ASSUME KeptInv, world.guard = "default-privileges", DP!Next
  PROVE  KeptInv'
<1> USE DEF KeptInv, Shaped, Inside
<1> USE DEF DP!Attempt, DP!Do, DP!Failed, DP!Live, DP!Said, DP!To
<1>1. CASE DP!ReadMitigation BY <1>1 DEF DP!ReadMitigation
<1>2. CASE DP!WhoAmI BY <1>2 DEF DP!WhoAmI
<1>3. CASE DP!DefaultAcl BY <1>3 DEF DP!DefaultAcl
<1>4. CASE DP!NextSchema BY <1>4 DEF DP!Ending, DP!NextSchema
<1>5. CASE DP!Begin BY <1>5 DEF DP!Began, DP!Begin, DP!NextProbe, DP!Onward, DP!Unproven
<1>6. CASE DP!AssumeCreator BY <1>6 DEF DP!AsRole, DP!AssumeCreator, DP!Unproven
<1>7. CASE DP!ProbeCreate BY <1>7 DEF DP!Made, DP!ProbeCreate, DP!Unproven
<1>8. CASE DP!ProbeAcl BY <1>8 DEF DP!ProbeAcl, DP!Unproven
<1>9. CASE DP!UndoProbe BY <1>9 DEF DP!Closed, DP!Concluded, DP!NextProbe, DP!Onward, DP!RolledBack, DP!UndoProbe
<1>10. CASE DP!Connect BY <1>10 DEF DP!Connect
<1>11. CASE DP!Disconnect BY <1>11 DEF DP!Closed, DP!Disconnect, DP!Verdict
<1> QED BY <1>1, <1>2, <1>3, <1>4, <1>5, <1>6, <1>7, <1>8, <1>9, <1>10, <1>11 DEF DP!Next, DP!Check, DP!Run

LEMMA CrossTenantFkStep ==
  ASSUME KeptInv, world.guard = "cross-tenant-fk", FK!Next
  PROVE  KeptInv'
<1> USE DEF KeptInv, Shaped, Inside
<1> USE DEF FK!Attempt, FK!Closed, FK!Do, FK!Failed, FK!Live, FK!Onward, FK!Said, FK!To
<1>1. CASE FK!PlanKeys BY <1>1 DEF FK!Await, FK!Ending, FK!PlanKeys, FK!Thrown
<1>2. CASE FK!NextKey BY <1>2 DEF FK!Answered, FK!NextKey
<1>3. CASE FK!ExistingRows BY <1>3 DEF FK!Answered, FK!ExistingRows
<1>4. CASE FK!ParentTarget BY <1>4 DEF FK!Answered, FK!ParentTarget
<1>5. CASE FK!OtherChildTenant BY <1>5 DEF FK!Answered, FK!OtherChildTenant
<1>6. CASE FK!Vanish BY <1>6 DEF FK!Vanish
<1>7. CASE FK!Begin BY <1>7 DEF FK!Answered, FK!Began, FK!Begin
<1>8. CASE FK!Impersonate BY <1>8 DEF FK!Acting, FK!AsRole, FK!Caught, FK!Impersonate
<1>9. CASE FK!OwnRows BY <1>9 DEF FK!OwnRows
<1>10. CASE FK!Repoint BY <1>10 DEF FK!Caught, FK!Repoint
<1>11. CASE FK!UndoProbe BY <1>11 DEF FK!Answered, FK!RolledBack, FK!UndoProbe
<1>12. CASE FK!RollBack("close") BY <1>12 DEF FK!RollBack, FK!RolledBack
<1>13. CASE FK!Connect BY <1>13 DEF FK!Connect
<1>14. CASE FK!Disconnect BY <1>14 DEF FK!Disconnect, FK!Verdict
<1> QED BY <1>1, <1>2, <1>3, <1>4, <1>5, <1>6, <1>7, <1>8, <1>9, <1>10, <1>11, <1>12, <1>13, <1>14 DEF FK!Next, FK!Check, FK!Run

LEMMA RoleCapabilitiesStep ==
  ASSUME KeptInv, world.guard = "role-capabilities", RC!Next
  PROVE  KeptInv'
<1> USE DEF KeptInv, Shaped, Inside
<1> USE DEF RC!Do, RC!To
<1>1. CASE RC!FunctionGrants BY <1>1 DEF RC!Await, RC!Failed, RC!FunctionGrants, RC!Live, RC!Thrown
<1>2. CASE RC!AuthGrants BY <1>2 DEF RC!Attempt, RC!AuthGrants, RC!Failed, RC!Live, RC!Said
<1>3. CASE RC!Leave BY <1>3 DEF RC!Leave
<1>4. CASE RC!Connect BY <1>4 DEF RC!Connect
<1>5. CASE RC!Disconnect BY <1>5 DEF RC!Closed, RC!Disconnect, RC!Verdict
<1> QED BY <1>1, <1>2, <1>3, <1>4, <1>5 DEF RC!Next, RC!Check, RC!Run

LEMMA ConstraintOraclesStep ==
  ASSUME KeptInv, world.guard = "constraint-oracles", CO!Next
  PROVE  KeptInv'
<1> USE DEF KeptInv, Shaped, Inside
<1> USE DEF CO!Await, CO!Do, CO!Failed, CO!Live, CO!Thrown, CO!To
<1>1. CASE CO!TenantColumns BY <1>1 DEF CO!TenantColumns
<1>2. CASE CO!ColumnFacts BY <1>2 DEF CO!ColumnFacts
<1>3. CASE CO!UniqueIndexes BY <1>3 DEF CO!UniqueIndexes
<1>4. CASE CO!ForeignKeys BY <1>4 DEF CO!ForeignKeys
<1>5. CASE CO!Leave BY <1>5 DEF CO!Leave
<1>6. CASE CO!Connect BY <1>6 DEF CO!Connect
<1>7. CASE CO!Disconnect BY <1>7 DEF CO!Closed, CO!Disconnect, CO!Verdict
<1> QED BY <1>1, <1>2, <1>3, <1>4, <1>5, <1>6, <1>7 DEF CO!Next, CO!Check, CO!Run

LEMMA CreateGrantsStep ==
  ASSUME KeptInv, world.guard = "create-grants", CG!Next
  PROVE  KeptInv'
<1> USE DEF KeptInv, Shaped, Inside
<1> USE DEF CG!Do, CG!Failed, CG!Live, CG!To
<1>1. CASE CG!Context BY <1>1 DEF CG!Attempt, CG!Context
<1>2. CASE CG!SchemaGrants BY <1>2 DEF CG!Await, CG!SchemaGrants, CG!Thrown
<1>3. CASE CG!DatabaseGrants BY <1>3 DEF CG!Attempt, CG!Concluded, CG!DatabaseGrants
<1>4. CASE CG!Leave BY <1>4 DEF CG!Leave
<1>5. CASE CG!Connect BY <1>5 DEF CG!Connect
<1>6. CASE CG!Disconnect BY <1>6 DEF CG!Closed, CG!Disconnect, CG!Verdict
<1> QED BY <1>1, <1>2, <1>3, <1>4, <1>5, <1>6 DEF CG!Next, CG!Check, CG!Run

LEMMA MfaEnforcementStep ==
  ASSUME KeptInv, world.guard = "mfa-enforcement", ME!Next
  PROVE  KeptInv'
<1> USE DEF KeptInv, Shaped, Inside
<1> USE DEF ME!Attempt, ME!Do, ME!Failed, ME!Live, ME!To
<1>1. CASE ME!ReadPolicies BY <1>1 DEF ME!Await, ME!ReadPolicies, ME!Thrown
<1>2. CASE ME!RoleMembers BY <1>2 DEF ME!RoleMembers
<1>3. CASE ME!VerifiedFactors BY <1>3 DEF ME!Ending, ME!VerifiedFactors
<1>4. CASE ME!TenantTables BY <1>4 DEF ME!ClassifyCoverage, ME!Judged, ME!TenantTables
<1>5. CASE ME!Leave BY <1>5 DEF ME!Leave
<1>6. CASE ME!Connect BY <1>6 DEF ME!Connect
<1>7. CASE ME!Disconnect BY <1>7 DEF ME!Closed, ME!Disconnect, ME!Verdict
<1> QED BY <1>1, <1>2, <1>3, <1>4, <1>5, <1>6, <1>7 DEF ME!Next, ME!Check, ME!Run

LEMMA ShadowTablesStep ==
  ASSUME KeptInv, world.guard = "shadow-tables", SH!Next
  PROVE  KeptInv'
<1> USE DEF KeptInv, Shaped, Inside
<1> USE DEF SH!Await, SH!Do, SH!Failed, SH!Live, SH!Thrown, SH!To
<1>1. CASE SH!TenantTables BY <1>1 DEF SH!Ending, SH!TenantTables
<1>2. CASE SH!Triggers BY <1>2 DEF SH!Ending, SH!Triggers
<1>3. CASE SH!Destinations BY <1>3 DEF SH!Destinations
<1>4. CASE SH!Leave BY <1>4 DEF SH!Leave
<1>5. CASE SH!Connect BY <1>5 DEF SH!Connect
<1>6. CASE SH!Disconnect BY <1>6 DEF SH!Closed, SH!Disconnect, SH!Verdict
<1> QED BY <1>1, <1>2, <1>3, <1>4, <1>5, <1>6 DEF SH!Next, SH!Check, SH!Run

LEMMA PoolerBleedStep ==
  ASSUME KeptInv, world.guard = "pooler-bleed", PB!Next
  PROVE  KeptInv'
<1> USE DEF KeptInv, Shaped, Inside
<1> USE DEF PB!Attempt, PB!Do, PB!Failed, PB!Live, PB!Said, PB!To
<1>1. CASE PB!PolicyGucs BY <1>1 DEF PB!Await, PB!PolicyGucs, PB!Thrown
<1>2. CASE PB!PolicyFunctions BY <1>2 DEF PB!Ending, PB!Explored, PB!GaveUp, PB!PolicyFunctions, PB!Walked
<1>3. CASE PB!FunctionBodies BY <1>3 DEF PB!Ending, PB!Explored, PB!FunctionBodies, PB!GaveUp, PB!Walked
<1>4. CASE PB!ScanSources BY <1>4 DEF PB!ScanSources
<1>5. CASE PB!SetPersistent BY <1>5 DEF PB!Demonstrated, PB!SetPersistent
<1>6. CASE PB!LookForPersistent BY <1>6 DEF PB!Demonstrated, PB!LookForPersistent
<1>7. CASE PB!SetTransient BY <1>7 DEF PB!Demonstrated, PB!SetTransient
<1>8. CASE PB!LookTransient BY <1>8 DEF PB!Demonstrated, PB!LookTransient
<1>9. CASE PB!Unset BY <1>9 DEF PB!Demonstrated, PB!Unset
<1>10. CASE PB!Leave BY <1>10 DEF PB!Leave
<1>11. CASE PB!Connect BY <1>11 DEF PB!Connect
<1>12. CASE PB!Disconnect BY <1>12 DEF PB!Closed, PB!Disconnect, PB!Verdict
<1> QED BY <1>1, <1>2, <1>3, <1>4, <1>5, <1>6, <1>7, <1>8, <1>9, <1>10, <1>11, <1>12 DEF PB!Next, PB!Check, PB!Run

\* The other two actions: a lost connection and a cancelled statement.
LEMMA FaultStep == ASSUME KeptInv, Drop \/ Cancel PROVE KeptInv'
BY DEF KeptInv, Shaped, Inside, Drop, Cancel, Closed, Failed

LEMMA KeptStep == KeptInv /\ [Next]_vars => KeptInv'
<1> SUFFICES ASSUME KeptInv, [Next]_vars PROVE KeptInv'
  OBVIOUS
<1>1. CASE Guard
  BY <1>1, AnonReadsStep, AnonWritesStep, ViewIsolationStep, StorageIsolationStep, RealtimeIsolationStep,
     DefinerRpcStep, IdentityTrustStep, ColumnExposureStep, TriggerVisibilityStep, SchemaTenancyStep,
     DefaultPrivilegesStep, CrossTenantFkStep, RoleCapabilitiesStep, ConstraintOraclesStep, CreateGrantsStep,
     MfaEnforcementStep, ShadowTablesStep, PoolerBleedStep
     DEF Guard
<1>2. CASE Drop \/ Cancel BY <1>2, FaultStep
<1>3. CASE UNCHANGED vars BY <1>3 DEF KeptInv, Shaped, Inside, vars
<1> QED BY <1>1, <1>2, <1>3 DEF Next

\* The canaries and probe tables a guard makes to check itself are made in a
\* transaction that every path rolls back: nothing of them is left in the
\* database, errors, cancelled statements and lost connections included.
THEOREM NothingOutlivesAGuard == Spec => []NothingKept
<1>1. KeptInv => NothingKept BY DEF KeptInv, NothingKept
<1> QED BY <1>1, KeptInit, KeptStep, PTL DEF Spec

-----------------------------------------------------------------------------
(* Skips are empty-handed. A guard skips before it has probed anything,    *)
(* and then it must not have found anything either; the two that may are   *)
(* Excused, and column-exposure, which skips inside its transaction, has   *)
(* the verdict skip on its way through finally.                            *)

\* The places before the first finding.
Early ==
  CASE world.guard = "anon-reads"       -> {"start", "plan", "unprotected"}
    [] world.guard = "anon-writes"      -> {"start", "plan", "views"}
    [] world.guard = "column-exposure"  -> {"start", "plan", "grants", "begin", "role"}
    [] world.guard = "create-grants"    -> {"start", "plan", "writable", "version", "schemas"}
    [] world.guard = "mfa-enforcement"  -> {"start", "plan", "members", "factors"}
    [] world.guard = "shadow-tables"    -> {"start", "plan", "triggers"}
    [] world.guard = "pooler-bleed"     -> {"start", "plan", "functions", "bodies"}
    [] OTHER                            -> {"start", "plan"}

\* No leak was found so far.
Silent == \A a \in me.said : a.says # "leak"

\* The two skips that throw findings away.
Excused ==
  \/ world.guard = "storage-isolation" /\ SI!Dropped
  \/ world.guard = "create-grants" /\ CG!Dropped

Formed ==
  /\ DOMAIN me = {"at", "todo", "loc", "said", "thrown", "result"}
  /\ world.guard = "default-privileges" => DOMAIN me.loc = {"as", "others", "scanned"}

HandsInv ==
  /\ Formed
  /\ me.at \in Early => Silent
  /\ world.guard = "default-privileges" /\ ~me.loc.scanned => Silent
  /\ world.guard = "create-grants" /\ CG!Schemas = {} /\ me.at \in Early \cup {"database"} => me.said = {}
  /\ me.result = "skip" => Silent \/ Excused
  /\ me.result # "none" =>
       \/ me.at \in {"close", "done"}
       \/ world.guard = "column-exposure" /\ me.at \in {"finally", "handoff"} /\ me.result = "skip"

LEMMA HandsInit == Init => HandsInv
<1> SUFFICES ASSUME Init PROVE HandsInv
  OBVIOUS
<1> DEFINE Fresh(g) == /\ DOMAIN me = {"at", "todo", "loc", "said", "thrown", "result"}
                       /\ me.at = "start" /\ me.said = {} /\ me.result = "none"
                       /\ world.guard = g
<1>g. /\ Fresh("default-privileges") /\ DOMAIN me.loc = {"as", "others", "scanned"} => HandsInv
      /\ \A g \in Names : g # "default-privileges" /\ Fresh(g) => HandsInv
  BY DEF HandsInv, Formed, Silent
<1>1. CASE AR!Init
  <2>1. Fresh("anon-reads")
    BY <1>1, WorldAssumption DEF Names, AR!Init, AR!Enter, AR!Entered
  <2> QED BY <2>1, <1>g DEF Names
<1>2. CASE AW!Init
  <2>1. Fresh("anon-writes")
    BY <1>2, WorldAssumption DEF Names, AW!Init, AW!Enter, AW!Entered
  <2> QED BY <2>1, <1>g DEF Names
<1>3. CASE VI!Init
  <2>1. Fresh("view-isolation")
    BY <1>3, WorldAssumption DEF Names, VI!Init, VI!Enter, VI!Entered
  <2> QED BY <2>1, <1>g DEF Names
<1>4. CASE SI!Init
  <2>1. Fresh("storage-isolation")
    BY <1>4, WorldAssumption DEF Names, SI!Init, SI!Enter, SI!Entered
  <2> QED BY <2>1, <1>g DEF Names
<1>5. CASE RI!Init
  <2>1. Fresh("realtime-isolation")
    BY <1>5, WorldAssumption DEF Names, RI!Init, RI!Enter, RI!Entered
  <2> QED BY <2>1, <1>g DEF Names
<1>6. CASE DR!Init
  <2>1. Fresh("definer-rpc")
    BY <1>6, WorldAssumption DEF Names, DR!Init, DR!Enter, DR!Entered
  <2> QED BY <2>1, <1>g DEF Names
<1>7. CASE IT!Init
  <2>1. Fresh("identity-trust")
    BY <1>7, WorldAssumption DEF Names, IT!Init, IT!Enter, IT!Entered
  <2> QED BY <2>1, <1>g DEF Names
<1>8. CASE CE!Init
  <2>1. Fresh("column-exposure")
    BY <1>8, WorldAssumption DEF Names, CE!Init, CE!Enter, CE!Entered
  <2> QED BY <2>1, <1>g DEF Names
<1>9. CASE TV!Init
  <2>1. Fresh("trigger-visibility")
    BY <1>9, WorldAssumption DEF Names, TV!Init, TV!Enter, TV!Entered
  <2> QED BY <2>1, <1>g DEF Names
<1>10. CASE ST!Init
  <2>1. Fresh("schema-tenancy")
    BY <1>10, WorldAssumption DEF Names, ST!Init, ST!Enter, ST!Entered
  <2> QED BY <2>1, <1>g DEF Names
<1>11. CASE DP!Init
  <2>1. Fresh("default-privileges") /\ DOMAIN me.loc = {"as", "others", "scanned"}
    BY <1>11, WorldAssumption DEF Names, DP!Init, DP!Enter, DP!Entered
  <2> QED BY <2>1, <1>g
<1>12. CASE FK!Init
  <2>1. Fresh("cross-tenant-fk")
    BY <1>12, WorldAssumption DEF Names, FK!Init, FK!Enter, FK!Entered
  <2> QED BY <2>1, <1>g DEF Names
<1>13. CASE RC!Init
  <2>1. Fresh("role-capabilities")
    BY <1>13, WorldAssumption DEF Names, RC!Init, RC!Enter, RC!Entered
  <2> QED BY <2>1, <1>g DEF Names
<1>14. CASE CO!Init
  <2>1. Fresh("constraint-oracles")
    BY <1>14, WorldAssumption DEF Names, CO!Init, CO!Enter, CO!Entered
  <2> QED BY <2>1, <1>g DEF Names
<1>15. CASE CG!Init
  <2>1. Fresh("create-grants")
    BY <1>15, WorldAssumption DEF Names, CG!Init, CG!Enter, CG!Entered
  <2> QED BY <2>1, <1>g DEF Names
<1>16. CASE ME!Init
  <2>1. Fresh("mfa-enforcement")
    BY <1>16, WorldAssumption DEF Names, ME!Init, ME!Enter, ME!Entered
  <2> QED BY <2>1, <1>g DEF Names
<1>17. CASE SH!Init
  <2>1. Fresh("shadow-tables")
    BY <1>17, WorldAssumption DEF Names, SH!Init, SH!Enter, SH!Entered
  <2> QED BY <2>1, <1>g DEF Names
<1>18. CASE PB!Init
  <2>1. Fresh("pooler-bleed")
    BY <1>18, WorldAssumption DEF Names, PB!Init, PB!Enter, PB!Entered
  <2> QED BY <2>1, <1>g DEF Names
<1> QED
  BY <1>1, <1>2, <1>3, <1>4, <1>5, <1>6, <1>7, <1>8, <1>9, <1>10, <1>11, <1>12, <1>13, <1>14, <1>15, <1>16,
     <1>17, <1>18
  DEF Init

LEMMA AnonReadsHands ==
  ASSUME HandsInv, world.guard = "anon-reads", AR!Next
  PROVE  HandsInv'
<1>u. world' = world
  BY DEF AR!Next, AR!Check, AR!Run, AR!Answer, AR!Attempt, AR!Await, AR!Begin, AR!CheckCanary,
      AR!Connect, AR!CountVisible, AR!CreateCanary, AR!Disconnect, AR!Do, AR!Guarded, AR!NextRelation, AR!NextSurface,
      AR!PlanRelations, AR!ReadSurface, AR!RollBack, AR!SelfCheck, AR!SwitchRole, AR!Undo, AR!UndoProbe,
      AR!UnprotectedTables, AR!Verdict
<1>w. Early = {"start", "plan", "unprotected"} /\ Early' = {"start", "plan", "unprotected"} /\ Excused' = Excused
  BY <1>u DEF Early, Excused, SI!Dropped, CG!Dropped, CG!Schemas
<1> USE <1>w DEF HandsInv, Formed, Silent
<1> USE DEF AR!Attempt, AR!Await, AR!Do, AR!Ending, AR!Said, AR!Thrown, AR!To
<1>1. CASE AR!PlanRelations BY <1>1 DEF AR!PlanRelations
<1>2. CASE AR!UnprotectedTables BY <1>2 DEF AR!Planned, AR!UnprotectedTables
<1>3. CASE AR!Begin BY <1>3 DEF AR!Begin
<1>4. CASE AR!NextSurface BY <1>4 DEF AR!NextSurface
<1>5. CASE AR!ReadSurface BY <1>5 DEF AR!Guarded, AR!ReadSurface
<1>6. CASE AR!SelfCheck BY <1>6 DEF AR!CheckCanary, AR!CreateCanary, AR!SelfCheck, AR!SwitchRole
<1>7. CASE AR!NextRelation BY <1>7 DEF AR!Answer, AR!NextRelation, AR!Onward
<1>8. CASE AR!CountVisible BY <1>8 DEF AR!CountVisible
<1>9. CASE AR!UndoProbe BY <1>9 DEF AR!Answer, AR!Onward, AR!Undo, AR!UndoProbe
<1>10. CASE AR!RollBack("close") BY <1>10 DEF AR!RollBack
<1>11. CASE AR!Connect BY <1>11 DEF AR!Connect
<1>12. CASE AR!Disconnect BY <1>12 DEF AR!Disconnect, AR!Verdict
<1> QED BY <1>1, <1>2, <1>3, <1>4, <1>5, <1>6, <1>7, <1>8, <1>9, <1>10, <1>11, <1>12 DEF AR!Next, AR!Check, AR!Run

LEMMA AnonWritesHands ==
  ASSUME HandsInv, world.guard = "anon-writes", AW!Next
  PROVE  HandsInv'
<1>u. world' = world
  BY DEF AW!Next, AW!Check, AW!Run, AW!After, AW!Attempt, AW!Await, AW!Begin, AW!CheckCanary,
      AW!Connect, AW!CreateCanary, AW!Disconnect, AW!Do, AW!Guarded, AW!NextTarget, AW!OpenProbe, AW!PlanSurface,
      AW!PlanViews, AW!ProbeWrite, AW!Recorded, AW!RollBack, AW!SelfCheck, AW!SwitchRole, AW!Verdict
<1>w. Early = {"start", "plan", "views"} /\ Early' = {"start", "plan", "views"} /\ Excused' = Excused
  BY <1>u DEF Early, Excused, SI!Dropped, CG!Dropped, CG!Schemas
<1> USE <1>w DEF HandsInv, Formed, Silent
<1> USE DEF AW!Await, AW!Do, AW!Ending, AW!Onward, AW!Thrown, AW!To
<1>1. CASE AW!PlanSurface BY <1>1 DEF AW!PlanSurface
<1>2. CASE AW!PlanViews BY <1>2 DEF AW!Attempt, AW!PlanViews, AW!Planned
<1>3. CASE AW!Begin BY <1>3 DEF AW!Begin
<1>4. CASE AW!SelfCheck BY <1>4 DEF AW!Attempt, AW!CheckCanary, AW!CreateCanary, AW!Said, AW!SelfCheck, AW!SwitchRole
<1>5. CASE AW!NextTarget BY <1>5 DEF AW!NextTarget
<1>6. CASE AW!OpenProbe BY <1>6 DEF AW!After, AW!OpenProbe
<1>7. CASE AW!ProbeWrite BY <1>7 DEF AW!After, AW!Guarded, AW!ProbeWrite, AW!Recorded, AW!Said
<1>8. CASE AW!RollBack("close") BY <1>8 DEF AW!RollBack
<1>9. CASE AW!Connect BY <1>9 DEF AW!Connect
<1>10. CASE AW!Disconnect BY <1>10 DEF AW!Disconnect, AW!Verdict
<1> QED BY <1>1, <1>2, <1>3, <1>4, <1>5, <1>6, <1>7, <1>8, <1>9, <1>10 DEF AW!Next, AW!Check, AW!Run

LEMMA ViewIsolationHands ==
  ASSUME HandsInv, world.guard = "view-isolation", VI!Next
  PROVE  HandsInv'
<1>u. world' = world
  BY DEF VI!Next, VI!Check, VI!Run, VI!Attempt, VI!Await, VI!Begin, VI!CheckCanary, VI!Connect,
      VI!CreateCanary, VI!Disconnect, VI!DistinctTenants, VI!Do, VI!Guarded, VI!NestedViewDeps, VI!NextSurface,
      VI!NextView, VI!PlanViews, VI!ProbeForward, VI!ProbeReverse, VI!RollBack, VI!SelfCheck, VI!Surfaced,
      VI!SwitchRole, VI!Unproven, VI!Verdict
<1>w. Early = {"start", "plan"} /\ Early' = {"start", "plan"} /\ Excused' = Excused
  BY <1>u DEF Early, Excused, SI!Dropped, CG!Dropped, CG!Schemas
<1> USE <1>w DEF HandsInv, Formed, Silent
<1> USE DEF VI!Await, VI!Do, VI!Guarded, VI!Onward, VI!Said, VI!Thrown, VI!To
<1>1. CASE VI!PlanViews BY <1>1 DEF VI!Ending, VI!PlanViews, VI!Planned
<1>2. CASE VI!Begin BY <1>2 DEF VI!Begin
<1>3. CASE VI!NextSurface BY <1>3 DEF VI!NextSurface
<1>4. CASE VI!DistinctTenants BY <1>4 DEF VI!DistinctTenants, VI!Surfaced
<1>5. CASE VI!NestedViewDeps BY <1>5 DEF VI!NestedViewDeps, VI!Surfaced
<1>6. CASE VI!SelfCheck BY <1>6 DEF VI!Attempt, VI!CheckCanary, VI!CreateCanary, VI!Ending, VI!SelfCheck, VI!SwitchRole
<1>7. CASE VI!NextView BY <1>7 DEF VI!NextView
<1>8. CASE VI!ProbeForward BY <1>8 DEF VI!ProbeForward, VI!Unproven
<1>9. CASE VI!ProbeReverse BY <1>9 DEF VI!ProbeReverse, VI!Unproven
<1>10. CASE VI!RollBack("close") BY <1>10 DEF VI!RollBack
<1>11. CASE VI!Connect BY <1>11 DEF VI!Connect
<1>12. CASE VI!Disconnect BY <1>12 DEF VI!Disconnect, VI!Verdict
<1> QED BY <1>1, <1>2, <1>3, <1>4, <1>5, <1>6, <1>7, <1>8, <1>9, <1>10, <1>11, <1>12 DEF VI!Next, VI!Check, VI!Run

LEMMA StorageIsolationHands ==
  ASSUME HandsInv, world.guard = "storage-isolation", SI!Next
  PROVE  HandsInv'
<1>u. world' = world
  BY DEF SI!Next, SI!Check, SI!Run, SI!Attempt, SI!Await, SI!Begin, SI!BucketListing,
      SI!CheckCanary, SI!ClassifyOrphans, SI!Connect, SI!CreateCanary, SI!Disconnect, SI!Do, SI!Guarded, SI!NextBucket,
      SI!Plan, SI!ProbeReads, SI!ProbeUpload, SI!ResetRole, SI!RollBack, SI!SelfCheck, SI!SettleBucket, SI!Verdict
<1>w. Early = {"start", "plan"} /\ Early' = {"start", "plan"} /\ Excused' = Excused
  BY <1>u DEF Early, Excused, SI!Dropped, CG!Dropped, CG!Schemas
<1> USE <1>w DEF HandsInv, Formed, Silent
<1> USE DEF SI!Attempt, SI!Await, SI!Do, SI!Said, SI!Thrown, SI!To
<1>1. CASE SI!Plan BY <1>1 DEF SI!Ending, SI!Plan, Excused, SI!Dropped
<1>2. CASE SI!Begin BY <1>2 DEF SI!Begin
<1>3. CASE SI!SelfCheck BY <1>3 DEF SI!CheckCanary, SI!CreateCanary, SI!Ending, SI!SelfCheck
<1>4. CASE SI!NextBucket BY <1>4 DEF SI!NextBucket
<1>5. CASE SI!BucketListing BY <1>5 DEF SI!BucketListing, SI!Guarded
<1>6. CASE SI!SettleBucket BY <1>6 DEF SI!Onward, SI!SettleBucket
<1>7. CASE SI!ProbeReads BY <1>7 DEF SI!ProbeReads
<1>8. CASE SI!ProbeUpload BY <1>8 DEF SI!ProbeUpload
<1>9. CASE SI!ResetRole BY <1>9 DEF SI!Onward, SI!ResetRole
<1>10. CASE SI!RollBack("after") BY <1>10 DEF SI!RollBack
<1>11. CASE SI!ClassifyOrphans BY <1>11 DEF SI!ClassifyOrphans
<1>12. CASE SI!Connect BY <1>12 DEF SI!Connect
<1>13. CASE SI!Disconnect BY <1>13 DEF SI!Disconnect, SI!Verdict
<1> QED BY <1>1, <1>2, <1>3, <1>4, <1>5, <1>6, <1>7, <1>8, <1>9, <1>10, <1>11, <1>12, <1>13 DEF SI!Next, SI!Check, SI!Run

LEMMA RealtimeIsolationHands ==
  ASSUME HandsInv, world.guard = "realtime-isolation", RI!Next
  PROVE  HandsInv'
<1>u. world' = world
  BY DEF RI!Next, RI!Check, RI!Run, RI!Attempt, RI!Await, RI!Begin, RI!CheckCanary, RI!Connect,
      RI!CreateCanary, RI!Disconnect, RI!DistinctTopicTenants, RI!Do, RI!Guarded, RI!Messages, RI!OpenBroadcast,
      RI!PlanChannels, RI!ProbeBroadcast, RI!ProbeForward, RI!ProbeReverse, RI!Publication, RI!ReadRls,
      RI!ResetRole, RI!RollBack, RI!SelfCheck, RI!SwitchRole, RI!Unproven, RI!Verdict
<1>w. Early = {"start", "plan"} /\ Early' = {"start", "plan"} /\ Excused' = Excused
  BY <1>u DEF Early, Excused, SI!Dropped, CG!Dropped, CG!Schemas
<1> USE <1>w DEF HandsInv, Formed, Silent
<1> USE DEF RI!Attempt, RI!Await, RI!Do, RI!Said, RI!Thrown, RI!To
<1>1. CASE RI!PlanChannels BY <1>1 DEF RI!Ending, RI!PlanChannels
<1>2. CASE RI!Publication BY <1>2 DEF RI!Publication
<1>3. CASE RI!ReadRls BY <1>3 DEF RI!Messages, RI!ReadRls
<1>4. CASE RI!Begin BY <1>4 DEF RI!Begin
<1>5. CASE RI!DistinctTopicTenants BY <1>5 DEF RI!DistinctTopicTenants, RI!Messages
<1>6. CASE RI!SelfCheck BY <1>6 DEF RI!CheckCanary, RI!CreateCanary, RI!Ending, RI!SelfCheck, RI!SwitchRole
<1>7. CASE RI!ProbeForward BY <1>7 DEF RI!ProbeForward, RI!Unproven
<1>8. CASE RI!ProbeReverse BY <1>8 DEF RI!ProbeReverse, RI!Unproven
<1>9. CASE RI!OpenBroadcast BY <1>9 DEF RI!OpenBroadcast, RI!Unproven
<1>10. CASE RI!ProbeBroadcast BY <1>10 DEF RI!Guarded, RI!ProbeBroadcast
<1>11. CASE RI!ResetRole BY <1>11 DEF RI!Messages, RI!ResetRole
<1>12. CASE RI!RollBack("close") BY <1>12 DEF RI!RollBack
<1>13. CASE RI!Connect BY <1>13 DEF RI!Connect
<1>14. CASE RI!Disconnect BY <1>14 DEF RI!Disconnect, RI!Verdict
<1> QED BY <1>1, <1>2, <1>3, <1>4, <1>5, <1>6, <1>7, <1>8, <1>9, <1>10, <1>11, <1>12, <1>13, <1>14 DEF RI!Next, RI!Check, RI!Run

LEMMA DefinerRpcHands ==
  ASSUME HandsInv, world.guard = "definer-rpc", DR!Next
  PROVE  HandsInv'
<1>u. world' = world
  BY DEF DR!Next, DR!Check, DR!Run, DR!Attempt, DR!Await, DR!BecomeTenant, DR!Begin,
      DR!BodyChecks, DR!CallFunction, DR!CallWithSentinel, DR!CheckCanary, DR!Connect, DR!ControlArm, DR!CreateCanary,
      DR!Disconnect, DR!Do, DR!Guarded, DR!NextFunction, DR!NotCalled, DR!PlanFunctions, DR!RollBack,
      DR!SampleTenants, DR!SelfCheck, DR!SwitchRole, DR!Verdict, DR!WritableSchemas
<1>w. Early = {"start", "plan"} /\ Early' = {"start", "plan"} /\ Excused' = Excused
  BY <1>u DEF Early, Excused, SI!Dropped, CG!Dropped, CG!Schemas
<1> USE <1>w DEF HandsInv, Formed, Silent
<1> USE DEF DR!Attempt, DR!Await, DR!Do, DR!Onward, DR!Said, DR!Thrown, DR!To
<1>1. CASE DR!PlanFunctions BY <1>1 DEF DR!Ending, DR!PlanFunctions
<1>2. CASE DR!SampleTenants BY <1>2 DEF DR!SampleTenants
<1>3. CASE DR!WritableSchemas BY <1>3 DEF DR!WritableSchemas
<1>4. CASE DR!Begin BY <1>4 DEF DR!Begin
<1>5. CASE DR!SelfCheck BY <1>5 DEF DR!CheckCanary, DR!CreateCanary, DR!Ending, DR!SelfCheck, DR!SwitchRole
<1>6. CASE DR!BecomeTenant BY <1>6 DEF DR!BecomeTenant
<1>7. CASE DR!NextFunction BY <1>7 DEF DR!BodyChecks, DR!NextFunction, DR!NotCalled
<1>8. CASE DR!CallFunction BY <1>8 DEF DR!CallFunction, DR!Guarded
<1>9. CASE DR!ControlArm BY <1>9 DEF DR!ControlArm
<1>10. CASE DR!CallWithSentinel BY <1>10 DEF DR!CallWithSentinel, DR!Guarded
<1>11. CASE DR!RollBack("close") BY <1>11 DEF DR!RollBack
<1>12. CASE DR!Connect BY <1>12 DEF DR!Connect
<1>13. CASE DR!Disconnect BY <1>13 DEF DR!Disconnect, DR!Verdict
<1> QED BY <1>1, <1>2, <1>3, <1>4, <1>5, <1>6, <1>7, <1>8, <1>9, <1>10, <1>11, <1>12, <1>13 DEF DR!Next, DR!Check, DR!Run

LEMMA IdentityTrustHands ==
  ASSUME HandsInv, world.guard = "identity-trust", IT!Next
  PROVE  HandsInv'
<1>u. world' = world
  BY DEF IT!Next, IT!Check, IT!Run, IT!Attempt, IT!AuthorityTables, IT!Await, IT!Begin,
      IT!Connect, IT!DefinerFunctions, IT!Disconnect, IT!Do, IT!ForgeNobody, IT!ForgeVictim, IT!NextTable,
      IT!PlanPolicies, IT!PolicyText, IT!ResetRole, IT!RollBack, IT!SelfEscalation, IT!Swallowed, IT!SwitchRole,
      IT!SwitchToForge, IT!Verdict
<1>w. Early = {"start", "plan"} /\ Early' = {"start", "plan"} /\ Excused' = Excused
  BY <1>u DEF Early, Excused, SI!Dropped, CG!Dropped, CG!Schemas
<1> USE <1>w DEF HandsInv, Formed, Silent
<1> USE DEF IT!Await, IT!Do, IT!Thrown, IT!To
<1>1. CASE IT!PlanPolicies BY <1>1 DEF IT!Ending, IT!PlanPolicies
<1>2. CASE IT!DefinerFunctions BY <1>2 DEF IT!DefinerFunctions
<1>3. CASE IT!AuthorityTables BY <1>3 DEF IT!AuthorityTables
<1>4. CASE IT!Begin BY <1>4 DEF IT!Begin
<1>5. CASE IT!NextTable BY <1>5 DEF IT!NextTable, IT!Onward
<1>6. CASE IT!SwitchToForge BY <1>6 DEF IT!SwitchRole, IT!SwitchToForge
<1>7. CASE IT!ForgeNobody BY <1>7 DEF IT!Attempt, IT!ForgeNobody, IT!Said, IT!Swallowed
<1>8. CASE IT!ForgeVictim BY <1>8 DEF IT!Attempt, IT!ForgeVictim, IT!Said, IT!Swallowed
<1>9. CASE IT!ResetRole BY <1>9 DEF IT!Onward, IT!ResetRole
<1>10. CASE IT!RollBack("self") BY <1>10 DEF IT!RollBack
<1>11. CASE IT!SelfEscalation BY <1>11 DEF IT!SelfEscalation
<1>12. CASE IT!PolicyText BY <1>12 DEF IT!PolicyText
<1>13. CASE IT!Connect BY <1>13 DEF IT!Connect
<1>14. CASE IT!Disconnect BY <1>14 DEF IT!Disconnect, IT!Verdict
<1> QED BY <1>1, <1>2, <1>3, <1>4, <1>5, <1>6, <1>7, <1>8, <1>9, <1>10, <1>11, <1>12, <1>13, <1>14 DEF IT!Next, IT!Check, IT!Run

LEMMA ColumnExposureHands ==
  ASSUME HandsInv, world.guard = "column-exposure", CE!Next
  PROVE  HandsInv'
<1>u. world' = world
  BY DEF CE!Next, CE!Check, CE!Run, CE!AssumeRole, CE!Attempt, CE!Await, CE!Begin, CE!Connect,
      CE!Disconnect, CE!Do, CE!Finish, CE!GrantPaths, CE!Guarded, CE!HandOff, CE!NextRelation, CE!PlanRelations,
      CE!ProbeRelation, CE!RollBack, CE!Verdict
<1>w. Early = {"start", "plan", "grants", "begin", "role"} /\ Early' = {"start", "plan", "grants", "begin", "role"} /\ Excused' = Excused
  BY <1>u DEF Early, Excused, SI!Dropped, CG!Dropped, CG!Schemas
<1> USE <1>w DEF HandsInv, Formed, Silent
<1> USE DEF CE!Await, CE!Do, CE!Said, CE!Thrown, CE!To
<1>1. CASE CE!PlanRelations BY <1>1 DEF CE!Ending, CE!HandOff, CE!PlanRelations
<1>2. CASE CE!GrantPaths BY <1>2 DEF CE!GrantPaths
<1>3. CASE CE!Begin BY <1>3 DEF CE!Begin
<1>4. CASE CE!AssumeRole BY <1>4 DEF CE!AssumeRole, CE!Attempt
<1>5. CASE CE!NextRelation BY <1>5 DEF CE!NextRelation
<1>6. CASE CE!ProbeRelation BY <1>6 DEF CE!Guarded, CE!Onward, CE!ProbeRelation
<1>7. CASE CE!RollBack("handoff") BY <1>7 DEF CE!RollBack
<1>8. CASE CE!Finish BY <1>8 DEF CE!Finish, CE!HandOff
<1>9. CASE CE!Connect BY <1>9 DEF CE!Connect
<1>10. CASE CE!Disconnect BY <1>10 DEF CE!Disconnect, CE!Verdict
<1> QED BY <1>1, <1>2, <1>3, <1>4, <1>5, <1>6, <1>7, <1>8, <1>9, <1>10 DEF CE!Next, CE!Check, CE!Run

LEMMA TriggerVisibilityHands ==
  ASSUME HandsInv, world.guard = "trigger-visibility", TV!Next
  PROVE  HandsInv'
<1>u. world' = world
  BY DEF TV!Next, TV!Check, TV!Run, TV!Await, TV!Begin, TV!ClassifyTriggers, TV!Connect,
      TV!CountTotal, TV!CountVisible, TV!Disconnect, TV!Do, TV!Guarded, TV!NextTotal, TV!NextVisible, TV!PlanTriggers,
      TV!RollBack, TV!Switch, TV!Verdict
<1>w. Early = {"start", "plan"} /\ Early' = {"start", "plan"} /\ Excused' = Excused
  BY <1>u DEF Early, Excused, SI!Dropped, CG!Dropped, CG!Schemas
<1> USE <1>w DEF HandsInv, Formed, Silent
<1> USE DEF TV!Await, TV!Do, TV!Thrown, TV!To
<1>1. CASE TV!PlanTriggers BY <1>1 DEF TV!Ending, TV!PlanTriggers
<1>2. CASE TV!Begin BY <1>2 DEF TV!Begin
<1>3. CASE TV!NextTotal BY <1>3 DEF TV!NextTotal
<1>4. CASE TV!CountTotal BY <1>4 DEF TV!CountTotal, TV!Guarded
<1>5. CASE TV!Switch BY <1>5 DEF TV!Switch
<1>6. CASE TV!NextVisible BY <1>6 DEF TV!NextVisible
<1>7. CASE TV!CountVisible BY <1>7 DEF TV!CountVisible, TV!Guarded
<1>8. CASE TV!RollBack("judge") BY <1>8 DEF TV!RollBack
<1>9. CASE TV!ClassifyTriggers BY <1>9 DEF TV!ClassifyTriggers
<1>10. CASE TV!Connect BY <1>10 DEF TV!Connect
<1>11. CASE TV!Disconnect BY <1>11 DEF TV!Disconnect, TV!Verdict
<1> QED BY <1>1, <1>2, <1>3, <1>4, <1>5, <1>6, <1>7, <1>8, <1>9, <1>10, <1>11 DEF TV!Next, TV!Check, TV!Run

LEMMA SchemaTenancyHands ==
  ASSUME HandsInv, world.guard = "schema-tenancy", ST!Next
  PROVE  HandsInv'
<1>u. world' = world
  BY DEF ST!Next, ST!Check, ST!Run, ST!Await, ST!Begin, ST!ClassifyGroups, ST!Connect,
      ST!Disconnect, ST!Do, ST!Guarded, ST!NextAttempt, ST!NextSchema, ST!PlanSchemas, ST!ProbeTable, ST!ResetRole,
      ST!RollBack, ST!SwitchRole, ST!Verdict
<1>w. Early = {"start", "plan"} /\ Early' = {"start", "plan"} /\ Excused' = Excused
  BY <1>u DEF Early, Excused, SI!Dropped, CG!Dropped, CG!Schemas
<1> DEFINE notes == [on : {p[1] : p \in ST!NearMissPairs}, arm : {"near"}, says : {"note"}]
           several == IF ST!Cardinality(ST!Groups) > 1 THEN [on : {0}, arm : {"groups"}, says : {"note"}] ELSE {}
           usable  == {k \in UNION ST!Groups : world.targets[k].usable}
           planned == IF ST!Groups = {} THEN ST!Ending([me EXCEPT !.said = notes], "skip")
                      ELSE [me EXCEPT !.said = notes \cup several, !.todo = ST!Kept(usable), !.at = "begin"]
<1>p. ST!PlanSchemas => ST!Await("plan", FALSE, pg, planned) BY DEF ST!PlanSchemas
<1>n. \A a \in notes \cup several : a.says # "leak" OBVIOUS
<1> HIDE DEF notes, several, planned
<1> USE <1>w DEF HandsInv, Formed, Silent
<1> USE DEF ST!Await, ST!Do, ST!Thrown, ST!To
<1>1. CASE ST!PlanSchemas
  <2>1. me.at = "plan" /\ (me' = planned \/ me' = ST!Thrown) BY <1>1, <1>p
  <2>2. CASE me' = planned BY <1>u, <1>n, <2>1, <2>2 DEF planned, ST!Ending
  <2>3. CASE me' = ST!Thrown BY <1>u, <2>1, <2>3
  <2> QED BY <2>1, <2>2, <2>3
<1>2. CASE ST!Begin BY <1>2 DEF ST!Begin
<1>3. CASE ST!SwitchRole("next") BY <1>3 DEF ST!SwitchRole
<1>4. CASE ST!NextAttempt BY <1>4 DEF ST!NextAttempt, ST!NextSchema, ST!Onward, ST!Said
<1>5. CASE ST!ProbeTable BY <1>5 DEF ST!Guarded, ST!NextSchema, ST!Onward, ST!ProbeTable, ST!Said
<1>6. CASE ST!ResetRole BY <1>6 DEF ST!ResetRole
<1>7. CASE ST!RollBack("judge") BY <1>7 DEF ST!RollBack
<1>8. CASE ST!ClassifyGroups BY <1>8 DEF ST!ClassifyGroups
<1>9. CASE ST!Connect BY <1>9 DEF ST!Connect
<1>10. CASE ST!Disconnect BY <1>10 DEF ST!Disconnect, ST!Verdict
<1> QED BY <1>1, <1>2, <1>3, <1>4, <1>5, <1>6, <1>7, <1>8, <1>9, <1>10 DEF ST!Next, ST!Check, ST!Run

LEMMA DefaultPrivilegesHands ==
  ASSUME HandsInv, world.guard = "default-privileges", DP!Next
  PROVE  HandsInv'
<1>u. world' = world
  BY DEF DP!Next, DP!Check, DP!Run, DP!AssumeCreator, DP!Attempt, DP!Begin, DP!Concluded,
      DP!Connect, DP!DefaultAcl, DP!Disconnect, DP!Do, DP!NextProbe, DP!NextSchema, DP!ProbeAcl, DP!ProbeCreate,
      DP!ReadMitigation, DP!UndoProbe, DP!Unproven, DP!Verdict, DP!WhoAmI
<1>w. Early = {"start", "plan"} /\ Early' = {"start", "plan"} /\ Excused' = Excused
  BY <1>u DEF Early, Excused, SI!Dropped, CG!Dropped, CG!Schemas
<1> DEFINE Keeps(m) == /\ DOMAIN m = DOMAIN me /\ DOMAIN m.loc = DOMAIN me.loc /\ m.loc.scanned = me.loc.scanned
                        /\ m.result = me.result /\ \A a \in m.said : a \in me.said \/ a.says = "note"
<1>k. ASSUME Keeps(me'), world' = world, me.at \in Early \/ me'.at \notin Early, me.at \notin {"close", "done"}
      PROVE  HandsInv'
  BY <1>k, <1>w DEF HandsInv, Formed, Silent
<1>m. Keeps(me) BY DEF HandsInv, Formed
<1>t. ASSUME NEW l PROVE Keeps(DP!To(l)) /\ DP!To(l).at = l BY DEF HandsInv, Formed, DP!To
<1>s. ASSUME NEW m, Keeps(m), NEW on, NEW arm
      PROVE  Keeps(DP!Said(m, on, arm, "note")) /\ DP!Said(m, on, arm, "note").at = m.at
  BY <1>s DEF HandsInv, Formed, DP!Said
<1>n. ASSUME NEW m, Keeps(m) PROVE Keeps(DP!NextProbe(m)) /\ DP!NextProbe(m).at \in {"begin", "next"}
  <2>1. CASE m.loc.as = "conn" /\ m.loc.others
    <3>1. DP!NextProbe(m) = [m EXCEPT !.at = "begin", !.loc.as = "other"] BY <2>1 DEF DP!NextProbe
    <3> QED BY <1>n, <3>1 DEF HandsInv, Formed
  <2>2. CASE ~(m.loc.as = "conn" /\ m.loc.others)
    <3>1. DP!NextProbe(m) = [DP!Onward(m) EXCEPT !.loc.as = "conn"] BY <2>2 DEF DP!NextProbe
    <3> QED BY <1>n, <3>1 DEF HandsInv, Formed, DP!Onward
  <2> QED BY <2>1, <2>2
<1>o. Keeps(DP!Unproven) BY <1>m, <1>s DEF DP!Unproven
<1>f. ASSUME NEW m, Keeps(m), NEW l PROVE Keeps([m EXCEPT !.at = l]) /\ [m EXCEPT !.at = l].at = l
  BY <1>f DEF HandsInv, Formed
<1>1. CASE DP!ReadMitigation
  <2>1. me.at = "plan" /\ me' = DP!To("whoami")
    BY <1>1 DEF DP!ReadMitigation, DP!Attempt, DP!Do
  <2>2. CASE me' = DP!To("whoami") BY <1>u, <1>k, <2>1, <2>2, <1>t, <1>w
  <2> QED BY <2>1, <2>2
<1>2. CASE DP!WhoAmI
  <2>1. me.at = "whoami" /\ me' = DP!To("acl")
    BY <1>2 DEF DP!WhoAmI, DP!Attempt, DP!Do
  <2>2. CASE me' = DP!To("acl") BY <1>u, <1>k, <2>1, <2>2, <1>t, <1>w
  <2> QED BY <2>1, <2>2
<1>3. CASE DP!DefaultAcl
  <2>1. /\ me.at = "acl"
        /\ \/ me' = [DP!To("next") EXCEPT !.loc.others = world.others]
           \/ me' = DP!Said(DP!To("next"), 0, "acl", "note")
    BY <1>3 DEF DP!DefaultAcl, DP!Attempt, DP!Do
  <2>2. CASE me' = [DP!To("next") EXCEPT !.loc.others = world.others] BY <1>u, <1>k, <2>1, <2>2, <1>w DEF HandsInv, Formed, DP!To
  <2>3. CASE me' = DP!Said(DP!To("next"), 0, "acl", "note") BY <1>u, <1>k, <2>1, <2>3, <1>t, <1>s, <1>w
  <2> QED BY <2>1, <2>2, <2>3
<1>4. CASE DP!NextSchema BY <1>w, <1>4 DEF HandsInv, Formed, Silent, DP!Attempt, DP!Do, DP!Ending, DP!NextSchema,
      DP!Said, DP!To
<1>5. CASE DP!Begin
  <2>1. /\ me.at = "begin"
        /\ \/ me' = DP!To(IF me.loc.as = "conn" THEN "create" ELSE "role")
           \/ me' = DP!NextProbe(DP!Unproven)
    BY <1>5 DEF DP!Begin, DP!Attempt, DP!Do
  <2>2. CASE me' = DP!To(IF me.loc.as = "conn" THEN "create" ELSE "role") BY <1>u, <1>k, <2>1, <2>2, <1>t, <1>w
  <2>3. CASE me' = DP!NextProbe(DP!Unproven) BY <1>u, <1>k, <2>1, <2>3, <1>o, <1>n, <1>w
  <2> QED BY <2>1, <2>2, <2>3
<1>6. CASE DP!AssumeCreator
  <2>1. /\ me.at = "role"
        /\ \/ me' = DP!To("create")
           \/ me' = [DP!Unproven EXCEPT !.at = "failed"]
    BY <1>6 DEF DP!AssumeCreator, DP!Attempt, DP!Do
  <2>2. CASE me' = DP!To("create") BY <1>u, <1>k, <2>1, <2>2, <1>t, <1>w
  <2>3. CASE me' = [DP!Unproven EXCEPT !.at = "failed"] BY <1>u, <1>k, <2>1, <2>3, <1>o, <1>f, <1>w
  <2> QED BY <2>1, <2>2, <2>3
<1>7. CASE DP!ProbeCreate
  <2>1. /\ me.at = "create"
        /\ \/ me' = DP!To("read")
           \/ me' = [DP!Unproven EXCEPT !.at = "failed"]
    BY <1>7 DEF DP!ProbeCreate, DP!Attempt, DP!Do
  <2>2. CASE me' = DP!To("read") BY <1>u, <1>k, <2>1, <2>2, <1>t, <1>w
  <2>3. CASE me' = [DP!Unproven EXCEPT !.at = "failed"] BY <1>u, <1>k, <2>1, <2>3, <1>o, <1>f, <1>w
  <2> QED BY <2>1, <2>2, <2>3
<1>8. CASE DP!ProbeAcl
  <2>1. /\ me.at = "read"
        /\ \/ me' = DP!To("undo")
           \/ me' = [DP!Unproven EXCEPT !.at = "failed"]
    BY <1>8 DEF DP!ProbeAcl, DP!Attempt, DP!Do
  <2>2. CASE me' = DP!To("undo") BY <1>u, <1>k, <2>1, <2>2, <1>t, <1>w
  <2>3. CASE me' = [DP!Unproven EXCEPT !.at = "failed"] BY <1>u, <1>k, <2>1, <2>3, <1>o, <1>f, <1>w
  <2> QED BY <2>1, <2>2, <2>3
<1>9. CASE DP!UndoProbe
  <2>1. CASE me.at = "failed"
    <3>1. me' = DP!NextProbe(me) BY <1>9, <2>1 DEF DP!UndoProbe, DP!Do
    <3> QED BY <1>u, <1>k, <1>m, <1>n, <1>w, <2>1, <3>1
  <2>2. CASE me.at = "undo"
    <3> DEFINE m == DP!Concluded(DP!ClassifyInherited(DP!Makes))
    <3>1. me' = [m EXCEPT !.loc.scanned = TRUE] BY <1>9, <2>2 DEF DP!UndoProbe, DP!Do
    <3>2. PICK n : m = DP!NextProbe(n) /\ (n = me \/ \E says : n = DP!Said(me, DP!Current, me.loc.as, says))
      BY DEF DP!Concluded
    <3>3. DOMAIN n = DOMAIN me /\ DOMAIN n.loc = DOMAIN me.loc /\ n.result = me.result
      BY <3>2 DEF HandsInv, Formed, DP!Said
    <3>4. DOMAIN m = DOMAIN me /\ DOMAIN m.loc = DOMAIN me.loc /\ m.result = me.result /\ m.at \in {"begin", "next"}
      <4>1. CASE n.loc.as = "conn" /\ n.loc.others
        <5>1. m = [n EXCEPT !.at = "begin", !.loc.as = "other"] BY <3>2, <4>1 DEF DP!NextProbe
        <5> QED BY <3>3, <5>1 DEF HandsInv, Formed
      <4>2. CASE ~(n.loc.as = "conn" /\ n.loc.others)
        <5>1. m = [DP!Onward(n) EXCEPT !.loc.as = "conn"] BY <3>2, <4>2 DEF DP!NextProbe
        <5> QED BY <3>3, <5>1 DEF HandsInv, Formed, DP!Onward
      <4> QED BY <4>1, <4>2
    <3> HIDE DEF m
    <3> QED BY <1>u, <1>w, <2>2, <3>1, <3>4 DEF HandsInv, Formed
  <2> QED BY <1>9, <2>1, <2>2 DEF DP!UndoProbe
<1>10. CASE DP!Connect BY <1>w, <1>10 DEF HandsInv, Formed, Silent, DP!Attempt, DP!Connect, DP!Do, DP!Said, DP!To
<1>11. CASE DP!Disconnect BY <1>w, <1>11 DEF HandsInv, Formed, Silent, DP!Attempt, DP!Disconnect, DP!Do, DP!Said,
      DP!To, DP!Verdict
<1> QED BY <1>1, <1>2, <1>3, <1>4, <1>5, <1>6, <1>7, <1>8, <1>9, <1>10, <1>11 DEF DP!Next, DP!Check, DP!Run

LEMMA CrossTenantFkHands ==
  ASSUME HandsInv, world.guard = "cross-tenant-fk", FK!Next
  PROVE  HandsInv'
<1>u. world' = world
  BY DEF FK!Next, FK!Check, FK!Run, FK!Answered, FK!Attempt, FK!Await, FK!Begin, FK!Caught,
      FK!Connect, FK!Disconnect, FK!Do, FK!ExistingRows, FK!Impersonate, FK!NextKey, FK!OtherChildTenant, FK!OwnRows,
      FK!ParentTarget, FK!PlanKeys, FK!Repoint, FK!RollBack, FK!UndoProbe, FK!Vanish, FK!Verdict
<1>w. Early = {"start", "plan"} /\ Early' = {"start", "plan"} /\ Excused' = Excused
  BY <1>u DEF Early, Excused, SI!Dropped, CG!Dropped, CG!Schemas
<1> USE <1>w DEF HandsInv, Formed, Silent
<1> USE DEF FK!Attempt, FK!Do, FK!Onward, FK!Said, FK!To
<1>1. CASE FK!PlanKeys BY <1>1 DEF FK!Await, FK!Ending, FK!PlanKeys, FK!Thrown
<1>2. CASE FK!NextKey BY <1>2 DEF FK!Answered, FK!NextKey
<1>3. CASE FK!ExistingRows BY <1>3 DEF FK!Answered, FK!ExistingRows
<1>4. CASE FK!ParentTarget BY <1>4 DEF FK!Answered, FK!ParentTarget
<1>5. CASE FK!OtherChildTenant BY <1>5 DEF FK!Answered, FK!OtherChildTenant
<1>6. CASE FK!Vanish BY <1>6 DEF FK!Vanish
<1>7. CASE FK!Begin BY <1>7 DEF FK!Answered, FK!Begin
<1>8. CASE FK!Impersonate BY <1>8 DEF FK!Caught, FK!Impersonate
<1>9. CASE FK!OwnRows BY <1>9 DEF FK!OwnRows
<1>10. CASE FK!Repoint BY <1>10 DEF FK!Caught, FK!Repoint
<1>11. CASE FK!UndoProbe BY <1>11 DEF FK!Answered, FK!UndoProbe
<1>12. CASE FK!RollBack("close") BY <1>12 DEF FK!RollBack
<1>13. CASE FK!Connect BY <1>13 DEF FK!Connect
<1>14. CASE FK!Disconnect BY <1>14 DEF FK!Disconnect, FK!Verdict
<1> QED BY <1>1, <1>2, <1>3, <1>4, <1>5, <1>6, <1>7, <1>8, <1>9, <1>10, <1>11, <1>12, <1>13, <1>14 DEF FK!Next, FK!Check, FK!Run

LEMMA RoleCapabilitiesHands ==
  ASSUME HandsInv, world.guard = "role-capabilities", RC!Next
  PROVE  HandsInv'
<1>u. world' = world
  BY DEF RC!Next, RC!Check, RC!Run, RC!Attempt, RC!AuthGrants, RC!Await, RC!Connect,
      RC!Disconnect, RC!Do, RC!FunctionGrants, RC!Leave, RC!Verdict
<1>w. Early = {"start", "plan"} /\ Early' = {"start", "plan"} /\ Excused' = Excused
  BY <1>u DEF Early, Excused, SI!Dropped, CG!Dropped, CG!Schemas
<1> USE <1>w DEF HandsInv, Formed, Silent
<1> USE DEF RC!Do, RC!To
<1>1. CASE RC!FunctionGrants BY <1>1 DEF RC!Await, RC!FunctionGrants, RC!Thrown
<1>2. CASE RC!AuthGrants BY <1>2 DEF RC!Attempt, RC!AuthGrants, RC!Said
<1>3. CASE RC!Leave BY <1>3 DEF RC!Leave
<1>4. CASE RC!Connect BY <1>4 DEF RC!Connect
<1>5. CASE RC!Disconnect BY <1>5 DEF RC!Disconnect, RC!Verdict
<1> QED BY <1>1, <1>2, <1>3, <1>4, <1>5 DEF RC!Next, RC!Check, RC!Run

LEMMA ConstraintOraclesHands ==
  ASSUME HandsInv, world.guard = "constraint-oracles", CO!Next
  PROVE  HandsInv'
<1>u. world' = world
  BY DEF CO!Next, CO!Check, CO!Run, CO!Await, CO!ColumnFacts, CO!Connect, CO!Disconnect, CO!Do,
      CO!ForeignKeys, CO!Leave, CO!TenantColumns, CO!UniqueIndexes, CO!Verdict
<1>w. Early = {"start", "plan"} /\ Early' = {"start", "plan"} /\ Excused' = Excused
  BY <1>u DEF Early, Excused, SI!Dropped, CG!Dropped, CG!Schemas
<1> USE <1>w DEF HandsInv, Formed, Silent
<1> USE DEF CO!Await, CO!Do, CO!Thrown, CO!To
<1>1. CASE CO!TenantColumns BY <1>1 DEF CO!TenantColumns
<1>2. CASE CO!ColumnFacts BY <1>2 DEF CO!ColumnFacts
<1>3. CASE CO!UniqueIndexes BY <1>3 DEF CO!UniqueIndexes
<1>4. CASE CO!ForeignKeys BY <1>4 DEF CO!ForeignKeys
<1>5. CASE CO!Leave BY <1>5 DEF CO!Leave
<1>6. CASE CO!Connect BY <1>6 DEF CO!Connect
<1>7. CASE CO!Disconnect BY <1>7 DEF CO!Disconnect, CO!Verdict
<1> QED BY <1>1, <1>2, <1>3, <1>4, <1>5, <1>6, <1>7 DEF CO!Next, CO!Check, CO!Run

LEMMA CreateGrantsHands ==
  ASSUME HandsInv, world.guard = "create-grants", CG!Next
  PROVE  HandsInv'
<1>u. world' = world
  BY DEF CG!Next, CG!Check, CG!Run, CG!Attempt, CG!Await, CG!Concluded, CG!Connect, CG!Context,
      CG!DatabaseGrants, CG!Disconnect, CG!Do, CG!Leave, CG!SchemaGrants, CG!Verdict
<1>w. Early = {"start", "plan", "writable", "version", "schemas"} /\ Early' = {"start", "plan", "writable", "version", "schemas"} /\ Excused' = Excused
  BY <1>u DEF Early, Excused, SI!Dropped, CG!Dropped, CG!Schemas
<1>s. CG!Schemas' = CG!Schemas BY <1>u DEF CG!Schemas
<1> USE <1>w DEF HandsInv, Formed, Silent
<1> USE DEF CG!Do, CG!To
<1>1. CASE CG!Context BY <1>s, <1>1 DEF CG!Attempt, CG!Context
<1>2. CASE CG!SchemaGrants
  <2> DEFINE granted == UNION {CG!Says(k, CG!SchemaHolders(world.targets[k]) \ world.allow) : k \in CG!Schemas}
  <2>1. CG!Schemas = {} => granted = {} OBVIOUS
  <2>2. \/ me' = [CG!To("database") EXCEPT !.said = @ \cup granted]
        \/ me' = CG!Thrown
    BY <1>2 DEF CG!SchemaGrants, CG!Await
  <2> HIDE DEF granted
  <2>3. me.at = "schemas" BY <1>2 DEF CG!SchemaGrants, CG!Await
  <2> QED BY <1>u, <1>s, <2>1, <2>2, <2>3 DEF CG!Thrown
<1>3. CASE CG!DatabaseGrants
  <2> DEFINE granted == CG!Says(0, CG!DatabaseHolders \ world.allow)
  <2>1. world.roles = {} => granted = {} BY DEF CG!Says, CG!DatabaseHolders
  <2>2. me.at = "database" /\ (me' = CG!Concluded(me.said \cup granted) \/ me' = CG!Concluded(me.said))
    BY <1>3 DEF CG!DatabaseGrants, CG!Attempt
  <2> HIDE DEF granted
  <2>3. CG!Schemas = {} /\ ~Excused => world.roles = {} BY DEF Excused, CG!Dropped
  <2> QED BY <1>u, <1>s, <2>1, <2>2, <2>3 DEF CG!Concluded
<1>4. CASE CG!Leave BY <1>4 DEF CG!Leave
<1>5. CASE CG!Connect BY <1>s, <1>5 DEF CG!Connect
<1>6. CASE CG!Disconnect BY <1>6 DEF CG!Disconnect, CG!Verdict
<1> QED BY <1>1, <1>2, <1>3, <1>4, <1>5, <1>6 DEF CG!Next, CG!Check, CG!Run

LEMMA MfaEnforcementHands ==
  ASSUME HandsInv, world.guard = "mfa-enforcement", ME!Next
  PROVE  HandsInv'
<1>u. world' = world
  BY DEF ME!Next, ME!Check, ME!Run, ME!Attempt, ME!Await, ME!ClassifyCoverage, ME!Connect,
      ME!Disconnect, ME!Do, ME!Judged, ME!Leave, ME!ReadPolicies, ME!RoleMembers, ME!TenantTables, ME!Verdict,
      ME!VerifiedFactors
<1>w. Early = {"start", "plan", "members", "factors"} /\ Early' = {"start", "plan", "members", "factors"} /\ Excused' = Excused
  BY <1>u DEF Early, Excused, SI!Dropped, CG!Dropped, CG!Schemas
<1> USE <1>w DEF HandsInv, Formed, Silent
<1> USE DEF ME!Attempt, ME!Do, ME!To
<1>1. CASE ME!ReadPolicies BY <1>1 DEF ME!Await, ME!ReadPolicies, ME!Thrown
<1>2. CASE ME!RoleMembers BY <1>2 DEF ME!RoleMembers
<1>3. CASE ME!VerifiedFactors BY <1>3 DEF ME!Ending, ME!VerifiedFactors
<1>4. CASE ME!TenantTables BY <1>4 DEF ME!ClassifyCoverage, ME!Judged, ME!TenantTables
<1>5. CASE ME!Leave BY <1>5 DEF ME!Leave
<1>6. CASE ME!Connect BY <1>6 DEF ME!Connect
<1>7. CASE ME!Disconnect BY <1>7 DEF ME!Disconnect, ME!Verdict
<1> QED BY <1>1, <1>2, <1>3, <1>4, <1>5, <1>6, <1>7 DEF ME!Next, ME!Check, ME!Run

LEMMA ShadowTablesHands ==
  ASSUME HandsInv, world.guard = "shadow-tables", SH!Next
  PROVE  HandsInv'
<1>u. world' = world
  BY DEF SH!Next, SH!Check, SH!Run, SH!Await, SH!Connect, SH!Destinations, SH!Disconnect, SH!Do,
      SH!Leave, SH!TenantTables, SH!Triggers, SH!Verdict
<1>w. Early = {"start", "plan", "triggers"} /\ Early' = {"start", "plan", "triggers"} /\ Excused' = Excused
  BY <1>u DEF Early, Excused, SI!Dropped, CG!Dropped, CG!Schemas
<1> USE <1>w DEF HandsInv, Formed, Silent
<1> USE DEF SH!Await, SH!Do, SH!Thrown, SH!To
<1>1. CASE SH!TenantTables BY <1>1 DEF SH!Ending, SH!TenantTables
<1>2. CASE SH!Triggers BY <1>2 DEF SH!Ending, SH!Triggers
<1>3. CASE SH!Destinations BY <1>3 DEF SH!Destinations
<1>4. CASE SH!Leave BY <1>4 DEF SH!Leave
<1>5. CASE SH!Connect BY <1>5 DEF SH!Connect
<1>6. CASE SH!Disconnect BY <1>6 DEF SH!Disconnect, SH!Verdict
<1> QED BY <1>1, <1>2, <1>3, <1>4, <1>5, <1>6 DEF SH!Next, SH!Check, SH!Run

LEMMA PoolerBleedHands ==
  ASSUME HandsInv, world.guard = "pooler-bleed", PB!Next
  PROVE  HandsInv'
<1>u. world' = world
  BY DEF PB!Next, PB!Check, PB!Run, PB!Attempt, PB!Await, PB!Connect, PB!Demonstrated,
      PB!Disconnect, PB!Do, PB!Explored, PB!FunctionBodies, PB!GaveUp, PB!Leave, PB!LookForPersistent,
      PB!LookTransient, PB!PolicyFunctions, PB!PolicyGucs, PB!ScanSources, PB!SetPersistent, PB!SetTransient,
      PB!Unset, PB!Verdict, PB!Walked
<1>w. Early = {"start", "plan", "functions", "bodies"} /\ Early' = {"start", "plan", "functions", "bodies"} /\ Excused' = Excused
  BY <1>u DEF Early, Excused, SI!Dropped, CG!Dropped, CG!Schemas
<1>x. ASSUME NEW bodies PROVE /\ DOMAIN PB!Explored(bodies) = DOMAIN me /\ PB!Explored(bodies).result = me.result
                                /\ \A a \in PB!Explored(bodies).said : a \in me.said \/ a.says = "note"
  <2> DEFINE notes(holes) == {[on |-> 0, arm |-> "functions", says |-> "note"] : k \in holes}
  <2>1. \A holes : \A a \in notes(holes) : a.says = "note" OBVIOUS
  <2> HIDE DEF notes
  <2>2. PB!Explored(bodies).said = me.said \cup notes(bodies \ {k \in bodies : ~PB!T(k).hole})
    BY DEF HandsInv, Formed, PB!Explored, notes
  <2> QED BY <2>1, <2>2 DEF HandsInv, Formed, PB!Explored
<1>y. ASSUME NEW m, DOMAIN m = DOMAIN me, m.result = me.result, me' = PB!Walked(m), world' = world,
             me.at \in {"functions", "bodies"}, \A a \in m.said : a \in me.said \/ a.says = "note"
      PROVE  HandsInv'
  BY <1>y, <1>w DEF HandsInv, Formed, Silent, PB!Walked, PB!Ending
<1> USE <1>w DEF HandsInv, Formed, Silent
<1> USE DEF PB!Attempt, PB!Do, PB!Said, PB!To
<1>1. CASE PB!PolicyGucs BY <1>1 DEF PB!Await, PB!PolicyGucs, PB!Thrown
<1>2. CASE PB!PolicyFunctions
  <2>1. me.at = "functions" BY <1>2 DEF PB!PolicyFunctions
  <2>2. \/ me' = PB!Walked(PB!Explored({k \in PB!Gucs : PB!T(k).depth > 0}))
        \/ me' = PB!GaveUp
    BY <1>2 DEF PB!PolicyFunctions
  <2>3. CASE me' = PB!Walked(PB!Explored({k \in PB!Gucs : PB!T(k).depth > 0}))
    <3> DEFINE m == PB!Explored({k \in PB!Gucs : PB!T(k).depth > 0})
    <3>1. DOMAIN m = DOMAIN me /\ m.result = me.result /\ \A a \in m.said : a \in me.said \/ a.says = "note" BY <1>x
    <3> HIDE DEF m
    <3>2. me' = PB!Walked(m) BY <2>3 DEF m
    <3> QED BY <1>u, <1>y, <2>1, <3>1, <3>2
  <2>4. CASE me' = PB!GaveUp
    <3> DEFINE m == [PB!Said(me, 0, "functions", "note") EXCEPT !.loc.frontier = {}]
    <3>1. DOMAIN m = DOMAIN me /\ m.result = me.result /\ \A a \in m.said : a \in me.said \/ a.says = "note"
      OBVIOUS
    <3> HIDE DEF m
    <3>2. me' = PB!Walked(m) BY <2>4 DEF m, PB!GaveUp
    <3> QED BY <1>u, <1>y, <2>1, <3>1, <3>2
  <2> QED BY <2>2, <2>3, <2>4
<1>3. CASE PB!FunctionBodies
  <2>1. me.at = "bodies" BY <1>3 DEF PB!FunctionBodies
  <2>2. \/ me' = PB!Walked(PB!Explored(me.loc.frontier))
        \/ me' = PB!Walked([me EXCEPT !.loc.frontier = {}])
        \/ me' = PB!GaveUp
    BY <1>3 DEF PB!FunctionBodies
  <2>3. CASE me' = PB!Walked(PB!Explored(me.loc.frontier))
    <3> DEFINE m == PB!Explored(me.loc.frontier)
    <3>1. DOMAIN m = DOMAIN me /\ m.result = me.result /\ \A a \in m.said : a \in me.said \/ a.says = "note" BY <1>x
    <3> HIDE DEF m
    <3>2. me' = PB!Walked(m) BY <2>3 DEF m
    <3> QED BY <1>u, <1>y, <2>1, <3>1, <3>2
  <2>4. CASE me' = PB!GaveUp
    <3> DEFINE m == [PB!Said(me, 0, "functions", "note") EXCEPT !.loc.frontier = {}]
    <3>1. DOMAIN m = DOMAIN me /\ m.result = me.result /\ \A a \in m.said : a \in me.said \/ a.says = "note"
      OBVIOUS
    <3> HIDE DEF m
    <3>2. me' = PB!Walked(m) BY <2>4 DEF m, PB!GaveUp
    <3> QED BY <1>u, <1>y, <2>1, <3>1, <3>2
  <2>5. CASE me' = PB!Walked([me EXCEPT !.loc.frontier = {}])
    <3> DEFINE m == [me EXCEPT !.loc.frontier = {}]
    <3>1. DOMAIN m = DOMAIN me /\ m.result = me.result /\ m.said = me.said OBVIOUS
    <3> HIDE DEF m
    <3>2. me' = PB!Walked(m) BY <2>5 DEF m
    <3> QED BY <1>u, <1>y, <2>1, <3>1, <3>2
  <2> QED BY <2>2, <2>3, <2>4, <2>5
<1>4. CASE PB!ScanSources BY <1>4 DEF PB!ScanSources
<1>5. CASE PB!SetPersistent BY <1>5 DEF PB!Demonstrated, PB!SetPersistent
<1>6. CASE PB!LookForPersistent BY <1>6 DEF PB!Demonstrated, PB!LookForPersistent
<1>7. CASE PB!SetTransient BY <1>7 DEF PB!Demonstrated, PB!SetTransient
<1>8. CASE PB!LookTransient BY <1>8 DEF PB!Demonstrated, PB!LookTransient
<1>9. CASE PB!Unset BY <1>9 DEF PB!Demonstrated, PB!Unset
<1>10. CASE PB!Leave BY <1>10 DEF PB!Leave
<1>11. CASE PB!Connect BY <1>11 DEF PB!Connect
<1>12. CASE PB!Disconnect BY <1>12 DEF PB!Disconnect, PB!Verdict
<1> QED BY <1>1, <1>2, <1>3, <1>4, <1>5, <1>6, <1>7, <1>8, <1>9, <1>10, <1>11, <1>12 DEF PB!Next, PB!Check, PB!Run

LEMMA FaultHands == ASSUME HandsInv, Drop \/ Cancel PROVE HandsInv'
BY DEF HandsInv, Formed, Early, Silent, Excused, SI!Dropped, CG!Dropped, CG!Schemas, Drop, Cancel

LEMMA HandsStep == HandsInv /\ [Next]_vars => HandsInv'
<1> SUFFICES ASSUME HandsInv, [Next]_vars PROVE HandsInv'
  OBVIOUS
<1>1. CASE Guard
  BY <1>1, AnonReadsHands, AnonWritesHands, ViewIsolationHands, StorageIsolationHands, RealtimeIsolationHands,
     DefinerRpcHands, IdentityTrustHands, ColumnExposureHands, TriggerVisibilityHands, SchemaTenancyHands,
     DefaultPrivilegesHands, CrossTenantFkHands, RoleCapabilitiesHands, ConstraintOraclesHands,
     CreateGrantsHands, MfaEnforcementHands, ShadowTablesHands, PoolerBleedHands
     DEF Guard
<1>2. CASE Drop \/ Cancel BY <1>2, FaultHands
<1>3. CASE UNCHANGED vars
  BY <1>3 DEF HandsInv, Formed, Early, Silent, Excused, SI!Dropped, CG!Dropped, CG!Schemas, vars
<1> QED BY <1>1, <1>2, <1>3 DEF Next

\* A guard that skips has found nothing, whatever the plans, the errors on the
\* way to the skip and the faults; storage-isolation without a bucket and
\* create-grants without a schema excepted, which do throw findings away.
THEOREM SkipsAreEmptyHanded == Spec => []SkipsEmptyHanded
<1>1. HandsInv => SkipsEmptyHanded
  BY DEF HandsInv, SkipsEmptyHanded, LeaksIn, Silent, Excused
<1> QED BY <1>1, HandsInit, HandsStep, PTL DEF Spec

-----------------------------------------------------------------------------
(* Green is controlled. Nothing in the code remembers, at a verdict, that  *)
(* the self-check ran: it is the session that keeps a guard whose role     *)
(* bypasses row level security from proving anything. Either the row of    *)
(* the canary is seen, and the guard refuses, or something failed before,  *)
(* and then no probe finds a session that answers.                         *)

\* The guards that check themselves with a canary.
Controlled ==
  {"anon-reads", "anon-writes", "view-isolation", "storage-isolation", "realtime-isolation", "definer-rpc"}

\* The places between the canary and the reading of it.
Checking ==
  IF world.guard = "storage-isolation" THEN {"next", "settle", "check"} ELSE {"role", "check"}

\* The places after it, which a bypassing role only reaches in a broken session,
\* and the ones it never reaches.
Doomed ==
  CASE world.guard = "anon-writes"        -> {"next", "UPDATE", "DELETE"}
    [] world.guard = "storage-isolation"  -> {"reads", "reset"}
    [] world.guard = "realtime-isolation" -> {"forward", "reset"}
    [] world.guard = "definer-rpc"        -> {"become", "next"}
    [] OTHER                              -> {"next"}

Barred ==
  CASE world.guard = "anon-reads"         -> {"count", "undo"}
    [] world.guard = "anon-writes"        -> {"probe"}
    [] world.guard = "view-isolation"     -> {"forward", "reverse"}
    [] world.guard = "storage-isolation"  -> {"uploads"}
    [] world.guard = "realtime-isolation" -> {"reverse", "own", "publish", "other", "intrude"}
    [] OTHER                              -> {"call", "control", "sentinel"}

\* The listings of storage-isolation undo a savepoint, which brings an aborted
\* transaction back: it is not enough there that the session is broken.
Grounded ==
  /\ \A a \in me.said : a.says # "clear"
  /\ me.at \in Doomed => ~Live
  /\ me.at \notin Barred
  /\ (me.at \in Checking /\ Live) \/ me.at = "listing" => me.loc.canary
  /\ me.at = "check" /\ Live => pg.role = "app"

GroundInv ==
  /\ KeptInv
  /\ "canary" \in DOMAIN me.loc <=> world.guard \in Controlled
  /\ world.guard \in Controlled /\ world.bypass => Grounded

LEMMA GroundInit == Init => GroundInv
<1> SUFFICES ASSUME Init PROVE GroundInv
  OBVIOUS
<1> DEFINE Fresh(g) == me.at = "start" /\ me.said = {} /\ world.guard = g
<1>k. KeptInv BY KeptInit
<1>g. \A g \in Names : Fresh(g) /\ ("canary" \in DOMAIN me.loc <=> g \in Controlled) => GroundInv
  BY <1>k DEF GroundInv, Grounded, Doomed, Barred, Checking, Names
<1>1. CASE AR!Init
  <2>1. Fresh("anon-reads") /\ "canary" \in DOMAIN me.loc
    BY <1>1, WorldAssumption DEF Names, AR!Init, AR!Enter, AR!Entered
  <2> QED BY <2>1, <1>g DEF Names, Controlled
<1>2. CASE AW!Init
  <2>1. Fresh("anon-writes") /\ "canary" \in DOMAIN me.loc
    BY <1>2, WorldAssumption DEF Names, AW!Init, AW!Enter, AW!Entered
  <2> QED BY <2>1, <1>g DEF Names, Controlled
<1>3. CASE VI!Init
  <2>1. Fresh("view-isolation") /\ "canary" \in DOMAIN me.loc
    BY <1>3, WorldAssumption DEF Names, VI!Init, VI!Enter, VI!Entered
  <2> QED BY <2>1, <1>g DEF Names, Controlled
<1>4. CASE SI!Init
  <2>1. Fresh("storage-isolation") /\ "canary" \in DOMAIN me.loc
    BY <1>4, WorldAssumption DEF Names, SI!Init, SI!Enter, SI!Entered
  <2> QED BY <2>1, <1>g DEF Names, Controlled
<1>5. CASE RI!Init
  <2>1. Fresh("realtime-isolation") /\ "canary" \in DOMAIN me.loc
    BY <1>5, WorldAssumption DEF Names, RI!Init, RI!Enter, RI!Entered
  <2> QED BY <2>1, <1>g DEF Names, Controlled
<1>6. CASE DR!Init
  <2>1. Fresh("definer-rpc") /\ "canary" \in DOMAIN me.loc
    BY <1>6, WorldAssumption DEF Names, DR!Init, DR!Enter, DR!Entered
  <2> QED BY <2>1, <1>g DEF Names, Controlled
<1>7. CASE IT!Init
  <2>1. Fresh("identity-trust") /\ "canary" \notin DOMAIN me.loc
    BY <1>7, WorldAssumption DEF Names, IT!Init, IT!Enter, IT!Entered
  <2> QED BY <2>1, <1>g DEF Names, Controlled
<1>8. CASE CE!Init
  <2>1. Fresh("column-exposure") /\ "canary" \notin DOMAIN me.loc
    BY <1>8, WorldAssumption DEF Names, CE!Init, CE!Enter, CE!Entered
  <2> QED BY <2>1, <1>g DEF Names, Controlled
<1>9. CASE TV!Init
  <2>1. Fresh("trigger-visibility") /\ "canary" \notin DOMAIN me.loc
    BY <1>9, WorldAssumption DEF Names, TV!Init, TV!Enter, TV!Entered
  <2> QED BY <2>1, <1>g DEF Names, Controlled
<1>10. CASE ST!Init
  <2>1. Fresh("schema-tenancy") /\ "canary" \notin DOMAIN me.loc
    BY <1>10, WorldAssumption DEF Names, ST!Init, ST!Enter, ST!Entered
  <2> QED BY <2>1, <1>g DEF Names, Controlled
<1>11. CASE DP!Init
  <2>1. Fresh("default-privileges") /\ "canary" \notin DOMAIN me.loc
    BY <1>11, WorldAssumption DEF Names, DP!Init, DP!Enter, DP!Entered
  <2> QED BY <2>1, <1>g DEF Names, Controlled
<1>12. CASE FK!Init
  <2>1. Fresh("cross-tenant-fk") /\ "canary" \notin DOMAIN me.loc
    BY <1>12, WorldAssumption DEF Names, FK!Init, FK!Enter, FK!Entered
  <2> QED BY <2>1, <1>g DEF Names, Controlled
<1>13. CASE RC!Init
  <2>1. Fresh("role-capabilities") /\ "canary" \notin DOMAIN me.loc
    BY <1>13, WorldAssumption DEF Names, RC!Init, RC!Enter, RC!Entered
  <2> QED BY <2>1, <1>g DEF Names, Controlled
<1>14. CASE CO!Init
  <2>1. Fresh("constraint-oracles") /\ "canary" \notin DOMAIN me.loc
    BY <1>14, WorldAssumption DEF Names, CO!Init, CO!Enter, CO!Entered
  <2> QED BY <2>1, <1>g DEF Names, Controlled
<1>15. CASE CG!Init
  <2>1. Fresh("create-grants") /\ "canary" \notin DOMAIN me.loc
    BY <1>15, WorldAssumption DEF Names, CG!Init, CG!Enter, CG!Entered
  <2> QED BY <2>1, <1>g DEF Names, Controlled
<1>16. CASE ME!Init
  <2>1. Fresh("mfa-enforcement") /\ "canary" \notin DOMAIN me.loc
    BY <1>16, WorldAssumption DEF Names, ME!Init, ME!Enter, ME!Entered
  <2> QED BY <2>1, <1>g DEF Names, Controlled
<1>17. CASE SH!Init
  <2>1. Fresh("shadow-tables") /\ "canary" \notin DOMAIN me.loc
    BY <1>17, WorldAssumption DEF Names, SH!Init, SH!Enter, SH!Entered
  <2> QED BY <2>1, <1>g DEF Names, Controlled
<1>18. CASE PB!Init
  <2>1. Fresh("pooler-bleed") /\ "canary" \notin DOMAIN me.loc
    BY <1>18, WorldAssumption DEF Names, PB!Init, PB!Enter, PB!Entered
  <2> QED BY <2>1, <1>g DEF Names, Controlled
<1> QED
  BY <1>1, <1>2, <1>3, <1>4, <1>5, <1>6, <1>7, <1>8, <1>9, <1>10, <1>11, <1>12, <1>13, <1>14, <1>15, <1>16,
     <1>17, <1>18
  DEF Init

LEMMA AnonReadsGround ==
  ASSUME GroundInv, world.guard = "anon-reads", AR!Next
  PROVE  GroundInv'
<1>k. KeptInv' BY AnonReadsStep DEF GroundInv
<1>u. world' = world
  BY DEF AR!Next, AR!Check, AR!Run, AR!Answer, AR!Attempt, AR!Await, AR!Begin, AR!CheckCanary,
      AR!Connect, AR!CountVisible, AR!CreateCanary, AR!Disconnect, AR!Do, AR!Guarded, AR!NextRelation, AR!NextSurface,
      AR!PlanRelations, AR!ReadSurface, AR!RollBack, AR!SelfCheck, AR!SwitchRole, AR!Undo, AR!UndoProbe,
      AR!UnprotectedTables, AR!Verdict
<1> SUFFICES "canary" \in DOMAIN me'.loc /\ (world.bypass => Grounded')
  BY <1>k, <1>u DEF GroundInv, Controlled
<1>g. /\ Shaped /\ (me.at = "canary" => pg.st # "idle")
      /\ "canary" \in DOMAIN me.loc /\ (world.bypass => Grounded)
  BY DEF GroundInv, KeptInv, Controlled, Inside
<1>w. /\ Checking = {"role", "check"} /\ Doomed = {"next"}
      /\ Barred = {"count", "undo"}
      /\ Checking' = {"role", "check"} /\ Doomed' = {"next"}
      /\ Barred' = {"count", "undo"}
  BY <1>u DEF Checking, Doomed, Barred
<1> USE <1>g, <1>u, <1>w DEF Shaped, Grounded, Live
<1> USE DEF AR!Attempt, AR!Await, AR!Closed, AR!Do, AR!Ending, AR!Failed, AR!Live, AR!Said, AR!Thrown, AR!To
<1>1. CASE AR!PlanRelations BY <1>1 DEF AR!PlanRelations
<1>2. CASE AR!UnprotectedTables
  <2>1. ASSUME NEW todo, me' = [AR!Planned(todo) EXCEPT !.loc.plan = todo]
        PROVE  /\ DOMAIN me'.loc = DOMAIN me.loc /\ me'.loc.canary = me.loc.canary
               /\ me'.said = me.said /\ me'.at \in {"close", "begin"}
    BY <2>1 DEF AR!Planned
  <2>2. (\E todo : me' = [AR!Planned(todo) EXCEPT !.loc.plan = todo]) \/ me' = AR!Thrown
    BY <1>2 DEF AR!UnprotectedTables
  <2> QED BY <2>1, <2>2
<1>3. CASE AR!Begin BY <1>3 DEF AR!Began, AR!Begin
<1>4. CASE AR!NextSurface BY <1>4 DEF AR!NextSurface, AR!Saved
<1>5. CASE AR!ReadSurface
  <2> DEFINE on == [me EXCEPT !.todo = Tail(@), !.at = "surface"]
  <2>1. me' = on \/ (\E x : me' = [on EXCEPT !.loc.empty = x]) \/ (\E x : me' = [on EXCEPT !.loc.unread = x])
    BY <1>5, Zenon DEF AR!ReadSurface, AR!Guarded
  <2>2. "canary" \in DOMAIN me'.loc /\ me'.said = me.said /\ me'.at = "surface"
    BY <2>1
  <2> QED BY <2>2
<1>6. CASE AR!SelfCheck
  <2>1. CASE AR!CreateCanary("role")
    <3>1. me.at = "canary" /\ pg.st # "idle" BY <2>1 DEF AR!CreateCanary
    <3>2. \/ me' = [AR!To("role") EXCEPT !.loc.canary = TRUE]
          \/ me' = AR!Said(AR!To("role"), 0, "canary", "note") /\ pg'.st \notin {"idle", "open"}
      BY <2>1, <3>1 DEF AR!CreateCanary
    <3>3. CASE me' = [AR!To("role") EXCEPT !.loc.canary = TRUE]
      <4>1. /\ "canary" \in DOMAIN me'.loc /\ me'.loc.canary = TRUE
            /\ me'.at = "role" /\ me'.said = me.said
        BY <3>3
      <4> QED BY <4>1, <3>1, <2>1
    <3>4. CASE me' = AR!Said(AR!To("role"), 0, "canary", "note") /\ pg'.st \notin {"idle", "open"}
      <4>1. /\ me'.loc = me.loc /\ me'.at = "role"
            /\ me'.said = me.said \cup {[on |-> 0, arm |-> "canary", says |-> "note"]}
        BY <3>4
      <4> QED BY <4>1, <3>1, <3>4
    <3> QED BY <3>2, <3>3, <3>4
  <2>2. CASE AR!SwitchRole("check")
    <3>1. /\ me.at = "role" /\ me'.loc = me.loc /\ me'.said = me.said
          /\ \/ me'.at = "check" /\ pg'.st = pg.st /\ pg'.role = "app" /\ Live
             \/ me'.at = "finally"
      BY <2>2 DEF AR!SwitchRole, AR!AsRole
    <3> QED BY <3>1
  <2>3. CASE AR!CheckCanary("next")
    <3>1. /\ me.at = "check" /\ me'.loc = me.loc /\ me'.said = me.said
          /\ me'.at = "close" \/ (me'.at = "next" /\ (world.bypass => ~Live'))
      BY <2>3 DEF AR!CheckCanary, AR!CanaryRead, AR!RolledBack
    <3> QED BY <3>1
  <2> QED BY <1>6, <2>1, <2>2, <2>3 DEF AR!SelfCheck
<1>7. CASE AR!NextRelation
  <2>1. me.at = "next" BY <1>7 DEF AR!NextRelation
  <2>2. CASE me.todo = <<>> BY <1>7, <2>1, <2>2 DEF AR!NextRelation
  <2>3. CASE me.todo # <<>> /\ AR!Current \in me.loc.unread
    <3>1. pg' = pg /\ me' = AR!Onward(AR!Said(me, AR!Current, "read", "note"))
      BY <1>7, <2>3 DEF AR!NextRelation
    <3>2. /\ me'.loc = me.loc /\ me'.at = "next"
          /\ \A a \in me'.said : a \in me.said \/ a.says = "note"
      BY <3>1 DEF AR!Onward
    <3> QED BY <2>1, <3>1, <3>2
  <2>4. CASE me.todo # <<>> /\ AR!Current \notin me.loc.unread /\ AR!Asked(AR!Target)
    BY <1>7, <2>1, <2>4 DEF AR!NextRelation, AR!Saved
  <2>5. CASE me.todo # <<>> /\ AR!Current \notin me.loc.unread /\ ~AR!Asked(AR!Target)
    <3>1. pg' = pg /\ me' = AR!Answer(AR!Target, AR!Current, FALSE)
      BY <1>7, <2>5 DEF AR!NextRelation
    <3> DEFINE says == AR!ClassifyRead(AR!Target, AR!Current \in me.loc.empty, FALSE)
    <3>2. says \in {"silent", "leak"}
      BY <2>5 DEF AR!ClassifyRead, AR!Asked
    <3>4. me' = AR!Onward(me) \/ (\E k : me' = AR!Onward(AR!Said(me, k, "read", "leak")))
      BY <3>1, <3>2 DEF AR!Answer
    <3>3. /\ me'.loc = me.loc /\ me'.at = "next"
          /\ \A a \in me'.said : a \in me.said \/ a.says = "leak"
      <4>1. ASSUME NEW k, me' = AR!Onward(AR!Said(me, k, "read", "leak"))
            PROVE  /\ me'.loc = me.loc /\ me'.at = "next"
                   /\ me'.said = me.said \cup {[on |-> k, arm |-> "read", says |-> "leak"]}
        BY <4>1 DEF AR!Onward
      <4>2. CASE me' = AR!Onward(me)
        BY <4>2 DEF AR!Onward
      <4>3. CASE \E k : me' = AR!Onward(AR!Said(me, k, "read", "leak"))
        <5>1. PICK k : me' = AR!Onward(AR!Said(me, k, "read", "leak")) BY <4>3
        <5>2. /\ me'.loc = me.loc /\ me'.at = "next"
              /\ me'.said = me.said \cup {[on |-> k, arm |-> "read", says |-> "leak"]}
          BY <5>1, <4>1
        <5> QED BY <5>2
      <4> QED BY <3>4, <4>2, <4>3
    <3> QED BY <2>1, <3>1, <3>3
  <2> QED BY <2>2, <2>3, <2>4, <2>5
<1>8. CASE AR!CountVisible
  <2>1. me.at = "count" BY <1>8 DEF AR!CountVisible
  <2>2. \E x : me' = [AR!To("undo") EXCEPT !.loc.seen = x]
    BY <1>8, Zenon DEF AR!CountVisible
  <2>3. "canary" \in DOMAIN me'.loc BY <2>2
  <2> QED BY <2>1, <2>3
<1>9. CASE AR!UndoProbe BY <1>9 DEF AR!Answer, AR!Onward, AR!Released, AR!Undo, AR!UndoProbe, AR!Undone
<1>10. CASE AR!RollBack("close") BY <1>10 DEF AR!RollBack, AR!RolledBack
<1>11. CASE AR!Connect
  <2>1. me'.loc = me.loc /\ me'.said = me.said /\ me'.at \in {"done", "plan"}
    BY <1>11 DEF AR!Connect
  <2> QED BY <2>1
<1>12. CASE AR!Disconnect BY <1>12 DEF AR!Disconnect, AR!Verdict
<1> QED BY <1>1, <1>2, <1>3, <1>4, <1>5, <1>6, <1>7, <1>8, <1>9, <1>10, <1>11, <1>12 DEF AR!Next, AR!Check, AR!Run

LEMMA AnonWritesGround ==
  ASSUME GroundInv, world.guard = "anon-writes", AW!Next
  PROVE  GroundInv'
<1>k. KeptInv' BY AnonWritesStep DEF GroundInv
<1>u. world' = world
  BY DEF AW!Next, AW!Check, AW!Run, AW!After, AW!Attempt, AW!Await, AW!Begin, AW!CheckCanary,
      AW!Connect, AW!CreateCanary, AW!Disconnect, AW!Do, AW!Guarded, AW!NextTarget, AW!OpenProbe, AW!PlanSurface,
      AW!PlanViews, AW!ProbeWrite, AW!Recorded, AW!RollBack, AW!SelfCheck, AW!SwitchRole, AW!Verdict
<1> SUFFICES "canary" \in DOMAIN me'.loc /\ (world.bypass => Grounded')
  BY <1>k, <1>u DEF GroundInv, Controlled
<1>g. /\ Shaped /\ (me.at = "canary" => pg.st # "idle")
      /\ "canary" \in DOMAIN me.loc /\ (world.bypass => Grounded)
  BY DEF GroundInv, KeptInv, Controlled, Inside
<1>w. /\ Checking = {"role", "check"} /\ Doomed = {"next", "UPDATE", "DELETE"}
      /\ Barred = {"probe"}
      /\ Checking' = {"role", "check"} /\ Doomed' = {"next", "UPDATE", "DELETE"}
      /\ Barred' = {"probe"}
  BY <1>u DEF Checking, Doomed, Barred
<1> USE <1>g, <1>u, <1>w DEF Shaped, Grounded, Live
<1> USE DEF AW!Await, AW!Closed, AW!Do, AW!Ending, AW!Failed, AW!Live, AW!Onward, AW!Thrown, AW!To
<1>1. CASE AW!PlanSurface BY <1>1 DEF AW!PlanSurface
<1>2. CASE AW!PlanViews BY <1>2 DEF AW!Attempt, AW!PlanViews, AW!Planned
<1>3. CASE AW!Begin BY <1>3 DEF AW!Began, AW!Begin
<1>4. CASE AW!SelfCheck
  <2>1. CASE AW!CreateCanary("role")
    <3>1. me.at = "canary" /\ pg.st # "idle" BY <2>1 DEF AW!CreateCanary, AW!Attempt
    <3>2. \/ me' = [AW!To("role") EXCEPT !.loc.canary = TRUE]
          \/ me' = AW!Said(AW!To("role"), 0, "canary", "note") /\ pg'.st \notin {"idle", "open"}
      BY <2>1, <3>1 DEF AW!CreateCanary, AW!Attempt
    <3>3. CASE me' = [AW!To("role") EXCEPT !.loc.canary = TRUE]
      <4>1. /\ "canary" \in DOMAIN me'.loc /\ me'.loc.canary = TRUE
            /\ me'.at = "role" /\ me'.said = me.said
        BY <3>3
      <4> QED BY <4>1, <3>1, <2>1
    <3>4. CASE me' = AW!Said(AW!To("role"), 0, "canary", "note") /\ pg'.st \notin {"idle", "open"}
      <4>1. /\ me'.loc = me.loc /\ me'.at = "role"
            /\ me'.said = me.said \cup {[on |-> 0, arm |-> "canary", says |-> "note"]}
        BY <3>4 DEF AW!Said
      <4> QED BY <4>1, <3>1, <3>4
    <3> QED BY <3>2, <3>3, <3>4
  <2>2. CASE AW!SwitchRole("check")
    <3>1. /\ me.at = "role" /\ me'.loc = me.loc /\ me'.said = me.said
          /\ \/ me'.at = "check" /\ pg'.st = pg.st /\ pg'.role = "app" /\ Live
             \/ me'.at = "finally"
      BY <2>2 DEF AW!SwitchRole, AW!AsRole
    <3> QED BY <3>1
  <2>3. CASE AW!CheckCanary("next")
    <3>1. /\ me.at = "check" /\ me'.loc = me.loc /\ me'.said = me.said
          /\ me'.at = "close" \/ (me'.at = "next" /\ (world.bypass => ~Live'))
      BY <2>3 DEF AW!CheckCanary, AW!CanaryRead, AW!RolledBack
    <3> QED BY <3>1
  <2> QED BY <1>4, <2>1, <2>2, <2>3 DEF AW!SelfCheck
<1>5. CASE AW!NextTarget BY <1>5 DEF AW!NextTarget
<1>6. CASE AW!OpenProbe
  <2>1. PICK cmd \in {"UPDATE", "DELETE"} :
          /\ me.at = cmd
          /\ \/ pg' = pg /\ me' = AW!After(me, cmd)
             \/ AW!Await(cmd, FALSE, AW!Saved(pg), [AW!To("probe") EXCEPT !.loc.cmd = cmd])
    BY <1>6 DEF AW!OpenProbe
  <2>2. CASE pg' = pg /\ me' = AW!After(me, cmd)
    <3>1. me'.loc = me.loc /\ me'.said = me.said /\ me'.at \in {"next", "DELETE"}
      BY <2>1, <2>2 DEF AW!After
    <3> QED BY <2>1, <2>2, <3>1
  <2>3. CASE AW!Await(cmd, FALSE, AW!Saved(pg), [AW!To("probe") EXCEPT !.loc.cmd = cmd])
    <3>1. CASE Live /\ me' = [AW!To("probe") EXCEPT !.loc.cmd = cmd]
      <4>1. "canary" \in DOMAIN me'.loc BY <3>1
      <4> QED BY <2>1, <3>1, <4>1
    <3>2. CASE me' = AW!Thrown BY <3>2
    <3> QED BY <2>3, <3>1, <3>2
  <2> QED BY <2>1, <2>2, <2>3
<1>7. CASE AW!ProbeWrite BY <1>7 DEF AW!After, AW!Guarded, AW!ProbeWrite, AW!Recorded, AW!Released, AW!Said, AW!Undone
<1>8. CASE AW!RollBack("close") BY <1>8 DEF AW!RollBack, AW!RolledBack
<1>9. CASE AW!Connect
  <2>1. me'.loc = me.loc /\ me'.said = me.said /\ me'.at \in {"done", "plan"}
    BY <1>9 DEF AW!Connect
  <2> QED BY <2>1
<1>10. CASE AW!Disconnect BY <1>10 DEF AW!Disconnect, AW!Verdict
<1> QED BY <1>1, <1>2, <1>3, <1>4, <1>5, <1>6, <1>7, <1>8, <1>9, <1>10 DEF AW!Next, AW!Check, AW!Run

LEMMA ViewIsolationGround ==
  ASSUME GroundInv, world.guard = "view-isolation", VI!Next
  PROVE  GroundInv'
<1>k. KeptInv' BY ViewIsolationStep DEF GroundInv
<1>u. world' = world
  BY DEF VI!Next, VI!Check, VI!Run, VI!Attempt, VI!Await, VI!Begin, VI!CheckCanary, VI!Connect,
      VI!CreateCanary, VI!Disconnect, VI!DistinctTenants, VI!Do, VI!Guarded, VI!NestedViewDeps, VI!NextSurface,
      VI!NextView, VI!PlanViews, VI!ProbeForward, VI!ProbeReverse, VI!RollBack, VI!SelfCheck, VI!Surfaced,
      VI!SwitchRole, VI!Unproven, VI!Verdict
<1> SUFFICES "canary" \in DOMAIN me'.loc /\ (world.bypass => Grounded')
  BY <1>k, <1>u DEF GroundInv, Controlled
<1>g. /\ Shaped /\ (me.at = "canary" => pg.st # "idle")
      /\ "canary" \in DOMAIN me.loc /\ (world.bypass => Grounded)
  BY DEF GroundInv, KeptInv, Controlled, Inside
<1>w. /\ Checking = {"role", "check"} /\ Doomed = {"next"}
      /\ Barred = {"forward", "reverse"}
      /\ Checking' = {"role", "check"} /\ Doomed' = {"next"}
      /\ Barred' = {"forward", "reverse"}
  BY <1>u DEF Checking, Doomed, Barred
<1> USE <1>g, <1>u, <1>w DEF Shaped, Grounded, Live
<1> USE DEF VI!Await, VI!Closed, VI!Do, VI!Failed, VI!Guarded, VI!Live, VI!Onward, VI!Released, VI!Said, VI!Saved,
      VI!Thrown, VI!To, VI!Undone
<1>1. CASE VI!PlanViews
  <2>1. me.at = "plan" BY <1>1 DEF VI!PlanViews, VI!Planned
  <2>2. \/ me' = VI!Thrown
        \/ me' = [VI!Ending(me, "skip") EXCEPT !.loc.plan = me.todo]
        \/ me' = [[me EXCEPT !.todo = me.todo, !.at = "begin"] EXCEPT !.loc.plan = me.todo]
    BY <1>1, Zenon DEF VI!PlanViews, VI!Planned
  <2>3. CASE me' = VI!Thrown
    <3>1. /\ DOMAIN me'.loc = DOMAIN me.loc /\ me'.loc.canary = me.loc.canary /\ me'.at = "finally"
          /\ me'.said = me.said
      BY <2>1, <2>3
    <3> QED BY <2>1, <2>3, <3>1
  <2>4. CASE me' = [VI!Ending(me, "skip") EXCEPT !.loc.plan = me.todo]
    <3>1. /\ DOMAIN me'.loc = DOMAIN me.loc /\ me'.loc.canary = me.loc.canary /\ me'.at = "close"
          /\ me'.said = me.said
      BY <2>1, <2>4 DEF VI!Ending
    <3> QED BY <2>1, <2>4, <3>1
  <2>5. CASE me' = [[me EXCEPT !.todo = me.todo, !.at = "begin"] EXCEPT !.loc.plan = me.todo]
    <3>1. /\ DOMAIN me'.loc = DOMAIN me.loc /\ me'.loc.canary = me.loc.canary /\ me'.at = "begin"
          /\ me'.said = me.said
      BY <2>1, <2>5
    <3> QED BY <2>1, <2>5, <3>1
  <2> QED BY <2>2, <2>3, <2>4, <2>5
<1>2. CASE VI!Begin BY <1>2 DEF VI!Began, VI!Begin
<1>3. CASE VI!NextSurface BY <1>3 DEF VI!NextSurface
<1>4. CASE VI!DistinctTenants
  <2> DEFINE x == me.loc.unread \cup {VI!Current}
  <2>1. me.at = "tenants" BY <1>4 DEF VI!DistinctTenants
  <2>2. \/ me' = VI!Surfaced(me)
        \/ me' = [me EXCEPT !.at = "deps"]
        \/ me' = VI!Surfaced([me EXCEPT !.loc.unread = x])
        \/ me' = [[me EXCEPT !.loc.unread = x] EXCEPT !.at = "deps"]
    BY <1>4, Zenon DEF VI!DistinctTenants
  <2> HIDE DEF x
  <2>3. CASE me' = VI!Surfaced(me)
    <3>1. /\ DOMAIN me'.loc = DOMAIN me.loc /\ me'.loc.canary = me.loc.canary /\ me'.at = "surface"
          /\ me'.said = me.said
      BY <2>1, <2>3 DEF VI!Surfaced
    <3> QED BY <2>1, <2>3, <3>1
  <2>4. CASE me' = [me EXCEPT !.at = "deps"]
    <3>1. /\ DOMAIN me'.loc = DOMAIN me.loc /\ me'.loc.canary = me.loc.canary /\ me'.at = "deps"
          /\ me'.said = me.said
      BY <2>1, <2>4
    <3> QED BY <2>1, <2>4, <3>1
  <2>5. CASE me' = VI!Surfaced([me EXCEPT !.loc.unread = x])
    <3>1. /\ DOMAIN me'.loc = DOMAIN me.loc /\ me'.loc.canary = me.loc.canary /\ me'.at = "surface"
          /\ me'.said = me.said
      BY <2>1, <2>5 DEF VI!Surfaced
    <3> QED BY <2>1, <2>5, <3>1
  <2>6. CASE me' = [[me EXCEPT !.loc.unread = x] EXCEPT !.at = "deps"]
    <3>1. /\ DOMAIN me'.loc = DOMAIN me.loc /\ me'.loc.canary = me.loc.canary /\ me'.at = "deps"
          /\ me'.said = me.said
      BY <2>1, <2>6
    <3> QED BY <2>1, <2>6, <3>1
  <2> QED BY <2>2, <2>3, <2>4, <2>5, <2>6
<1>5. CASE VI!NestedViewDeps BY <1>5 DEF VI!NestedViewDeps, VI!Surfaced
<1>6. CASE VI!SelfCheck
  <2>1. CASE VI!CreateCanary("role")
    <3>1. me.at = "canary" /\ pg.st # "idle" BY <2>1 DEF VI!CreateCanary, VI!Attempt
    <3>2. \/ me' = [VI!To("role") EXCEPT !.loc.canary = TRUE]
          \/ me' = VI!Said(VI!To("role"), 0, "canary", "note") /\ pg'.st \notin {"idle", "open"}
      BY <2>1, <3>1 DEF VI!CreateCanary, VI!Attempt
    <3>3. CASE me' = [VI!To("role") EXCEPT !.loc.canary = TRUE]
      <4>1. /\ "canary" \in DOMAIN me'.loc /\ me'.loc.canary = TRUE
            /\ me'.at = "role" /\ me'.said = me.said
        BY <3>3
      <4> QED BY <4>1, <3>1, <2>1
    <3>4. CASE me' = VI!Said(VI!To("role"), 0, "canary", "note") /\ pg'.st \notin {"idle", "open"}
      <4>1. /\ me'.loc = me.loc /\ me'.at = "role"
            /\ me'.said = me.said \cup {[on |-> 0, arm |-> "canary", says |-> "note"]}
        BY <3>4
      <4> QED BY <4>1, <3>1, <3>4
    <3> QED BY <3>2, <3>3, <3>4
  <2>2. CASE VI!SwitchRole("check")
    <3>1. /\ me.at = "role" /\ me'.loc = me.loc /\ me'.said = me.said
          /\ \/ me'.at = "check" /\ pg'.st = pg.st /\ pg'.role = "app" /\ Live
             \/ me'.at = "finally"
      BY <2>2 DEF VI!SwitchRole, VI!AsRole
    <3> QED BY <3>1
  <2>3. CASE VI!CheckCanary("next")
    <3>1. /\ me.at = "check" /\ me'.loc = me.loc /\ me'.said = me.said
          /\ me'.at = "close" \/ (me'.at = "next" /\ (world.bypass => ~Live'))
      BY <2>3 DEF VI!CheckCanary, VI!CanaryRead, VI!Ending, VI!RolledBack
    <3> QED BY <3>1
  <2> QED BY <1>6, <2>1, <2>2, <2>3 DEF VI!SelfCheck
<1>7. CASE VI!NextView
  <2>1. me.at = "next" BY <1>7 DEF VI!NextView
  <2>2. \/ (pg' = pg) /\ me' = VI!To("finally")
        \/ (pg' = pg) /\ me' = VI!Onward(VI!Said(me, VI!Current, "tenant", "note"))
        \/ (Live) /\ me' = VI!To("forward")
        \/ me' = VI!Thrown
    BY <1>7, Zenon DEF VI!NextView
  <2>3. CASE pg' = pg /\ me' = VI!To("finally")
    <3>1. /\ DOMAIN me'.loc = DOMAIN me.loc /\ me'.loc.canary = me.loc.canary /\ me'.at = "finally"
          /\ me'.said = me.said
      BY <2>1, <2>3
    <3> QED BY <2>1, <2>3, <3>1 DEF VI!AsRole
  <2>4. CASE pg' = pg /\ me' = VI!Onward(VI!Said(me, VI!Current, "tenant", "note"))
    <3>1. /\ DOMAIN me'.loc = DOMAIN me.loc /\ me'.loc.canary = me.loc.canary /\ me'.at = "next"
          /\ me'.said = me.said \cup {[on |-> VI!Current, arm |-> "tenant", says |-> "note"]}
      BY <2>1, <2>4
    <3>2. \A a \in me'.said : a \in me.said \/ a.says = "note" BY <3>1
    <3> QED BY <2>1, <2>4, <3>1, <3>2 DEF VI!AsRole
  <2>5. CASE Live /\ me' = VI!To("forward")
    <3>1. /\ DOMAIN me'.loc = DOMAIN me.loc /\ me'.loc.canary = me.loc.canary /\ me'.at = "forward"
          /\ me'.said = me.said
      BY <2>1, <2>5
    <3> QED BY <2>1, <2>5, <3>1 DEF VI!AsRole
  <2>6. CASE me' = VI!Thrown
    <3>1. /\ DOMAIN me'.loc = DOMAIN me.loc /\ me'.loc.canary = me.loc.canary /\ me'.at = "finally"
          /\ me'.said = me.said
      BY <2>1, <2>6
    <3> QED BY <2>1, <2>6, <3>1
  <2> QED BY <2>2, <2>3, <2>4, <2>5, <2>6
<1>8. CASE VI!ProbeForward
  <2> DEFINE own == VI!Finds(VI!Target, VI!Becomes("A"), "A")
            cross == VI!Finds(VI!Target, VI!Becomes("A"), "B")
  <2>1. me.at = "forward" BY <1>8 DEF VI!ProbeForward, VI!Unproven
  <2>2. \/ me' = [VI!To("reverse") EXCEPT !.loc.own = own, !.loc.cross = cross]
        \/ me' = VI!Onward(VI!Said(me, VI!Current, "tenant", "note"))
    BY <1>8, Zenon DEF VI!ProbeForward, VI!Unproven
  <2> HIDE DEF own, cross
  <2>3. CASE me' = [VI!To("reverse") EXCEPT !.loc.own = own, !.loc.cross = cross]
    <3>1. /\ DOMAIN me'.loc = DOMAIN me.loc /\ me'.loc.canary = me.loc.canary /\ me'.at = "reverse"
          /\ me'.said = me.said
      BY <2>1, <2>3
    <3> QED BY <2>1, <2>3, <3>1
  <2>4. CASE me' = VI!Onward(VI!Said(me, VI!Current, "tenant", "note"))
    <3>1. /\ DOMAIN me'.loc = DOMAIN me.loc /\ me'.loc.canary = me.loc.canary /\ me'.at = "next"
          /\ me'.said = me.said \cup {[on |-> VI!Current, arm |-> "tenant", says |-> "note"]}
      BY <2>1, <2>4
    <3>2. \A a \in me'.said : a \in me.said \/ a.says = "note" BY <3>1
    <3> QED BY <2>1, <2>4, <3>1, <3>2
  <2> QED BY <2>2, <2>3, <2>4
<1>9. CASE VI!ProbeReverse BY <1>9 DEF VI!Acting, VI!ProbeReverse, VI!Unproven
<1>10. CASE VI!RollBack("close") BY <1>10 DEF VI!RollBack, VI!RolledBack
<1>11. CASE VI!Connect
  <2>1. me'.loc = me.loc /\ me'.said = me.said /\ me'.at \in {"done", "plan"}
    BY <1>11 DEF VI!Connect
  <2> QED BY <2>1
<1>12. CASE VI!Disconnect BY <1>12 DEF VI!Disconnect, VI!Verdict
<1> QED BY <1>1, <1>2, <1>3, <1>4, <1>5, <1>6, <1>7, <1>8, <1>9, <1>10, <1>11, <1>12 DEF VI!Next, VI!Check, VI!Run

LEMMA StorageIsolationGround ==
  ASSUME GroundInv, world.guard = "storage-isolation", SI!Next
  PROVE  GroundInv'
<1>k. KeptInv' BY StorageIsolationStep DEF GroundInv
<1>u. world' = world
  BY DEF SI!Next, SI!Check, SI!Run, SI!Attempt, SI!Await, SI!Begin, SI!BucketListing,
      SI!CheckCanary, SI!ClassifyOrphans, SI!Connect, SI!CreateCanary, SI!Disconnect, SI!Do, SI!Guarded, SI!NextBucket,
      SI!Plan, SI!ProbeReads, SI!ProbeUpload, SI!ResetRole, SI!RollBack, SI!SelfCheck, SI!SettleBucket, SI!Verdict
<1> SUFFICES "canary" \in DOMAIN me'.loc /\ (world.bypass => Grounded')
  BY <1>k, <1>u DEF GroundInv, Controlled
<1>g. /\ Shaped /\ (me.at = "canary" => pg.st # "idle")
      /\ "canary" \in DOMAIN me.loc /\ (world.bypass => Grounded)
  BY DEF GroundInv, KeptInv, Controlled, Inside
<1>w. /\ Checking = {"next", "settle", "check"} /\ Doomed = {"reads", "reset"}
      /\ Barred = {"uploads"}
      /\ Checking' = {"next", "settle", "check"} /\ Doomed' = {"reads", "reset"}
      /\ Barred' = {"uploads"}
  BY <1>u DEF Checking, Doomed, Barred
<1> USE <1>g, <1>u, <1>w DEF Shaped, Grounded, Live
<1> USE DEF SI!Attempt, SI!Await, SI!Closed, SI!Do, SI!Failed, SI!Live, SI!Said, SI!Thrown, SI!To
<1>1. CASE SI!Plan
  <2>1. me.at = "plan" BY <1>1 DEF SI!Plan
  <2>2. \/ me' = SI!Thrown
        \/ me' = SI!Ending(me, "skip")
        \/ me' = SI!Ending(SI!Said(me, 0, "rls", "leak"), "skip")
        \/ me' = [me EXCEPT !.at = "begin"]
        \/ me' = [SI!Said(me, 0, "rls", "leak") EXCEPT !.at = "begin"]
    BY <1>1, Zenon DEF SI!Plan
  <2>3. CASE me' = SI!Thrown
    <3>1. /\ DOMAIN me'.loc = DOMAIN me.loc /\ me'.loc.canary = me.loc.canary /\ me'.at = "finally"
          /\ me'.said = me.said
      BY <2>1, <2>3
    <3> QED BY <2>1, <2>3, <3>1
  <2>4. CASE me' = SI!Ending(me, "skip")
    <3>1. /\ DOMAIN me'.loc = DOMAIN me.loc /\ me'.loc.canary = me.loc.canary /\ me'.at = "close"
          /\ me'.said = me.said
      BY <2>1, <2>4 DEF SI!Ending
    <3> QED BY <2>1, <2>4, <3>1
  <2>5. CASE me' = SI!Ending(SI!Said(me, 0, "rls", "leak"), "skip")
    <3>1. /\ DOMAIN me'.loc = DOMAIN me.loc /\ me'.loc.canary = me.loc.canary /\ me'.at = "close"
          /\ me'.said = me.said \cup {[on |-> 0, arm |-> "rls", says |-> "leak"]}
      BY <2>1, <2>5 DEF SI!Ending
    <3>2. \A a \in me'.said : a \in me.said \/ a.says = "leak" BY <3>1
    <3> QED BY <2>1, <2>5, <3>1, <3>2
  <2>6. CASE me' = [me EXCEPT !.at = "begin"]
    <3>1. /\ DOMAIN me'.loc = DOMAIN me.loc /\ me'.loc.canary = me.loc.canary /\ me'.at = "begin"
          /\ me'.said = me.said
      BY <2>1, <2>6
    <3> QED BY <2>1, <2>6, <3>1
  <2>7. CASE me' = [SI!Said(me, 0, "rls", "leak") EXCEPT !.at = "begin"]
    <3>1. /\ DOMAIN me'.loc = DOMAIN me.loc /\ me'.loc.canary = me.loc.canary /\ me'.at = "begin"
          /\ me'.said = me.said \cup {[on |-> 0, arm |-> "rls", says |-> "leak"]}
      BY <2>1, <2>7
    <3>2. \A a \in me'.said : a \in me.said \/ a.says = "leak" BY <3>1
    <3> QED BY <2>1, <2>7, <3>1, <3>2
  <2> QED BY <2>2, <2>3, <2>4, <2>5, <2>6, <2>7
<1>2. CASE SI!Begin BY <1>2 DEF SI!Began, SI!Begin
<1>3. CASE SI!SelfCheck
  <2>1. CASE SI!CreateCanary("next")
    <3>1. me.at = "canary" /\ pg.st # "idle" BY <2>1 DEF SI!CreateCanary
    <3>2. \/ me' = [SI!To("next") EXCEPT !.loc.canary = TRUE]
          \/ me' = SI!Said(SI!To("next"), 0, "canary", "note") /\ pg'.st \notin {"idle", "open"}
      BY <2>1, <3>1 DEF SI!CreateCanary
    <3>3. CASE me' = [SI!To("next") EXCEPT !.loc.canary = TRUE]
      <4>1. /\ "canary" \in DOMAIN me'.loc /\ me'.loc.canary = TRUE
            /\ me'.at = "next" /\ me'.said = me.said
        BY <3>3
      <4> QED BY <4>1, <3>1, <2>1
    <3>4. CASE me' = SI!Said(SI!To("next"), 0, "canary", "note") /\ pg'.st \notin {"idle", "open"}
      <4>1. /\ me'.loc = me.loc /\ me'.at = "next"
            /\ me'.said = me.said \cup {[on |-> 0, arm |-> "canary", says |-> "note"]}
        BY <3>4
      <4> QED BY <4>1, <3>1, <3>4
    <3> QED BY <3>2, <3>3, <3>4
  <2>2. CASE SI!CheckCanary("reads")
    <3>1. /\ me.at = "check" /\ me'.loc = me.loc /\ me'.said = me.said
          /\ me'.at = "close" \/ (me'.at = "reads" /\ (world.bypass => ~Live'))
      BY <2>2 DEF SI!CheckCanary, SI!CanaryRead, SI!Ending, SI!RolledBack
    <3> QED BY <3>1
  <2> QED BY <1>3, <2>1, <2>2 DEF SI!SelfCheck
<1>4. CASE SI!NextBucket BY <1>4 DEF SI!NextBucket, SI!Saved
<1>5. CASE SI!BucketListing
  <2>1. me.at = "listing" BY <1>5 DEF SI!BucketListing, SI!Guarded
  <2>2. \/ me' = SI!To("settle")
        \/ me' = SI!Said(SI!To("settle"), SI!Current, "listing", "leak")
    BY <1>5, Zenon DEF SI!BucketListing, SI!Guarded
  <2>3. CASE me' = SI!To("settle")
    <3>1. /\ DOMAIN me'.loc = DOMAIN me.loc /\ me'.loc.canary = me.loc.canary /\ me'.at = "settle"
          /\ me'.said = me.said
      BY <2>1, <2>3
    <3> QED BY <2>1, <2>3, <3>1
  <2>4. CASE me' = SI!Said(SI!To("settle"), SI!Current, "listing", "leak")
    <3>1. /\ DOMAIN me'.loc = DOMAIN me.loc /\ me'.loc.canary = me.loc.canary /\ me'.at = "settle"
          /\ me'.said = me.said \cup {[on |-> SI!Current, arm |-> "listing", says |-> "leak"]}
      BY <2>1, <2>4
    <3>2. \A a \in me'.said : a \in me.said \/ a.says = "leak" BY <3>1
    <3> QED BY <2>1, <2>4, <3>1, <3>2
  <2> QED BY <2>2, <2>3, <2>4
<1>6. CASE SI!SettleBucket
  <2>1. me.at = "settle" BY <1>6 DEF SI!SettleBucket
  <2>2. \/ (pg' = pg) /\ me' = SI!Onward(SI!Said(me, SI!Current, "tenant", "leak"))
        \/ (pg' = pg) /\ me' = SI!Onward(SI!Said(me, SI!Current, "tenant", "note"))
        \/ (Live /\ pg' = SI!AsRole(pg, "app")) /\ me' = SI!To("check")
        \/ me' = SI!Thrown
    BY <1>6, Zenon DEF SI!SettleBucket
  <2>3. CASE pg' = pg /\ me' = SI!Onward(SI!Said(me, SI!Current, "tenant", "leak"))
    <3>1. /\ DOMAIN me'.loc = DOMAIN me.loc /\ me'.loc.canary = me.loc.canary /\ me'.at = "next"
          /\ me'.said = me.said \cup {[on |-> SI!Current, arm |-> "tenant", says |-> "leak"]}
      BY <2>1, <2>3 DEF SI!Onward
    <3>2. \A a \in me'.said : a \in me.said \/ a.says = "leak" BY <3>1
    <3> QED BY <2>1, <2>3, <3>1, <3>2 DEF SI!AsRole
  <2>4. CASE pg' = pg /\ me' = SI!Onward(SI!Said(me, SI!Current, "tenant", "note"))
    <3>1. /\ DOMAIN me'.loc = DOMAIN me.loc /\ me'.loc.canary = me.loc.canary /\ me'.at = "next"
          /\ me'.said = me.said \cup {[on |-> SI!Current, arm |-> "tenant", says |-> "note"]}
      BY <2>1, <2>4 DEF SI!Onward
    <3>2. \A a \in me'.said : a \in me.said \/ a.says = "note" BY <3>1
    <3> QED BY <2>1, <2>4, <3>1, <3>2 DEF SI!AsRole
  <2>5. CASE Live /\ pg' = SI!AsRole(pg, "app") /\ me' = SI!To("check")
    <3>1. /\ DOMAIN me'.loc = DOMAIN me.loc /\ me'.loc.canary = me.loc.canary /\ me'.at = "check"
          /\ me'.said = me.said
      BY <2>1, <2>5
    <3> QED BY <2>1, <2>5, <3>1 DEF SI!AsRole
  <2>6. CASE me' = SI!Thrown
    <3>1. /\ DOMAIN me'.loc = DOMAIN me.loc /\ me'.loc.canary = me.loc.canary /\ me'.at = "finally"
          /\ me'.said = me.said
      BY <2>1, <2>6
    <3> QED BY <2>1, <2>6, <3>1
  <2> QED BY <2>2, <2>3, <2>4, <2>5, <2>6
<1>7. CASE SI!ProbeReads
  <2> DEFINE sees(who, folder) == SI!Reaches(SI!Target.reads, SI!Becomes(who), folder)
            cross == sees("A", "B") \/ sees("B", "A")
            own == sees("A", "A")
            why == IF pg.st = "open" /\ world.hook # "fails" THEN "denied" ELSE "error"
  <2>1. me.at = "reads" BY <1>7 DEF SI!ProbeReads
  <2>2. \/ (Live) /\ me' = [SI!To("uploads") EXCEPT !.loc.cross = cross, !.loc.own = own]
        \/ (pg' = SI!Failed) /\ me' = [SI!To("reset") EXCEPT !.loc.failed = why]
    BY <1>7, Zenon DEF SI!ProbeReads
  <2> HIDE DEF sees, cross, own, why
  <2>3. CASE Live /\ me' = [SI!To("uploads") EXCEPT !.loc.cross = cross, !.loc.own = own]
    <3>1. /\ DOMAIN me'.loc = DOMAIN me.loc /\ me'.loc.canary = me.loc.canary /\ me'.at = "uploads"
          /\ me'.said = me.said
      BY <2>1, <2>3
    <3> QED BY <2>1, <2>3, <3>1 DEF SI!AsRole
  <2>4. CASE pg' = SI!Failed /\ me' = [SI!To("reset") EXCEPT !.loc.failed = why]
    <3>1. /\ DOMAIN me'.loc = DOMAIN me.loc /\ me'.loc.canary = me.loc.canary /\ me'.at = "reset"
          /\ me'.said = me.said
      BY <2>1, <2>4
    <3> QED BY <2>1, <2>4, <3>1 DEF SI!AsRole
  <2> QED BY <2>2, <2>3, <2>4
<1>8. CASE SI!ProbeUpload
  <2> DEFINE own == SI!Reaches(SI!Target.writes, pg.who, "B")
            ownHop == world.uploads /\ own
            hop == world.uploads /\ own /\ SI!Reaches(SI!Target.writes, pg.who, "A")
            why == IF world.uploads THEN "error" ELSE me.loc.failed
  <2>1. me.at = "uploads" BY <1>8 DEF SI!ProbeUpload
  <2>2. \/ me' = [SI!To("reset") EXCEPT !.loc.ownHop = ownHop, !.loc.hop = hop]
        \/ me' = [SI!To("reset") EXCEPT !.loc.failed = why]
        \/ me' = [SI!To("reset") EXCEPT !.loc.ownHop = FALSE, !.loc.hop = FALSE]
    BY <1>8, Zenon DEF SI!ProbeUpload
  <2> HIDE DEF own, ownHop, hop, why
  <2>3. CASE me' = [SI!To("reset") EXCEPT !.loc.ownHop = ownHop, !.loc.hop = hop]
    <3>1. /\ DOMAIN me'.loc = DOMAIN me.loc /\ me'.loc.canary = me.loc.canary /\ me'.at = "reset"
          /\ me'.said = me.said
      BY <2>1, <2>3
    <3> QED BY <2>1, <2>3, <3>1
  <2>4. CASE me' = [SI!To("reset") EXCEPT !.loc.failed = why]
    <3>1. /\ DOMAIN me'.loc = DOMAIN me.loc /\ me'.loc.canary = me.loc.canary /\ me'.at = "reset"
          /\ me'.said = me.said
      BY <2>1, <2>4
    <3> QED BY <2>1, <2>4, <3>1
  <2>5. CASE me' = [SI!To("reset") EXCEPT !.loc.ownHop = FALSE, !.loc.hop = FALSE]
    <3>1. /\ DOMAIN me'.loc = DOMAIN me.loc /\ me'.loc.canary = me.loc.canary /\ me'.at = "reset"
          /\ me'.said = me.said
      BY <2>1, <2>5
    <3> QED BY <2>1, <2>5, <3>1
  <2> QED BY <2>2, <2>3, <2>4, <2>5
<1>9. CASE SI!ResetRole
  <2> DEFINE says == SI!ClassifyBucket(me.loc)
  <2>1. me.at = "reset" BY <1>9 DEF SI!ResetRole
  <2>2. \/ (Live) /\ me' = SI!Onward([SI!Said(me, SI!Current, "tenant", says) EXCEPT !.loc.failed = "no"])
        \/ me' = SI!Thrown
    BY <1>9, Zenon DEF SI!ResetRole
  <2> HIDE DEF says
  <2>3. CASE Live /\ me' = SI!Onward([SI!Said(me, SI!Current, "tenant", says) EXCEPT !.loc.failed = "no"])
    <3>1. /\ DOMAIN me'.loc = DOMAIN me.loc /\ me'.loc.canary = me.loc.canary /\ me'.at = "next"
          /\ me'.said = me.said \cup {[on |-> SI!Current, arm |-> "tenant", says |-> says]}
      BY <2>1, <2>3 DEF SI!Onward
    <3> QED BY <2>1, <2>3, <3>1 DEF SI!AsRole
  <2>4. CASE me' = SI!Thrown
    <3>1. /\ DOMAIN me'.loc = DOMAIN me.loc /\ me'.loc.canary = me.loc.canary /\ me'.at = "finally"
          /\ me'.said = me.said
      BY <2>1, <2>4
    <3> QED BY <2>1, <2>4, <3>1
  <2> QED BY <2>2, <2>3, <2>4
<1>10. CASE SI!RollBack("after") BY <1>10 DEF SI!RollBack, SI!RolledBack
<1>11. CASE SI!ClassifyOrphans
  <2>1. me.at = "after" BY <1>11 DEF SI!ClassifyOrphans
  <2>2. \/ me' = SI!To("close")
        \/ me' = SI!Said(SI!To("close"), 0, "orphans", "note")
    BY <1>11, Zenon DEF SI!ClassifyOrphans
  <2>3. CASE me' = SI!To("close")
    <3>1. /\ DOMAIN me'.loc = DOMAIN me.loc /\ me'.loc.canary = me.loc.canary /\ me'.at = "close"
          /\ me'.said = me.said
      BY <2>1, <2>3
    <3> QED BY <2>1, <2>3, <3>1
  <2>4. CASE me' = SI!Said(SI!To("close"), 0, "orphans", "note")
    <3>1. /\ DOMAIN me'.loc = DOMAIN me.loc /\ me'.loc.canary = me.loc.canary /\ me'.at = "close"
          /\ me'.said = me.said \cup {[on |-> 0, arm |-> "orphans", says |-> "note"]}
      BY <2>1, <2>4
    <3>2. \A a \in me'.said : a \in me.said \/ a.says = "note" BY <3>1
    <3> QED BY <2>1, <2>4, <3>1, <3>2
  <2> QED BY <2>2, <2>3, <2>4
<1>12. CASE SI!Connect
  <2>1. me'.loc = me.loc /\ me'.said = me.said /\ me'.at \in {"done", "plan"}
    BY <1>12 DEF SI!Connect
  <2> QED BY <2>1
<1>13. CASE SI!Disconnect BY <1>13 DEF SI!Disconnect, SI!Verdict
<1> QED BY <1>1, <1>2, <1>3, <1>4, <1>5, <1>6, <1>7, <1>8, <1>9, <1>10, <1>11, <1>12, <1>13 DEF SI!Next, SI!Check, SI!Run

LEMMA RealtimeIsolationGround ==
  ASSUME GroundInv, world.guard = "realtime-isolation", RI!Next
  PROVE  GroundInv'
<1>k. KeptInv' BY RealtimeIsolationStep DEF GroundInv
<1>u. world' = world
  BY DEF RI!Next, RI!Check, RI!Run, RI!Attempt, RI!Await, RI!Begin, RI!CheckCanary, RI!Connect,
      RI!CreateCanary, RI!Disconnect, RI!DistinctTopicTenants, RI!Do, RI!Guarded, RI!Messages, RI!OpenBroadcast,
      RI!PlanChannels, RI!ProbeBroadcast, RI!ProbeForward, RI!ProbeReverse, RI!Publication, RI!ReadRls,
      RI!ResetRole, RI!RollBack, RI!SelfCheck, RI!SwitchRole, RI!Unproven, RI!Verdict
<1> SUFFICES "canary" \in DOMAIN me'.loc /\ (world.bypass => Grounded')
  BY <1>k, <1>u DEF GroundInv, Controlled
<1>g. /\ Shaped /\ (me.at = "canary" => pg.st # "idle")
      /\ "canary" \in DOMAIN me.loc /\ (world.bypass => Grounded)
  BY DEF GroundInv, KeptInv, Controlled, Inside
<1>w. /\ Checking = {"role", "check"} /\ Doomed = {"forward", "reset"}
      /\ Barred = {"reverse", "own", "publish", "other", "intrude"}
      /\ Checking' = {"role", "check"} /\ Doomed' = {"forward", "reset"}
      /\ Barred' = {"reverse", "own", "publish", "other", "intrude"}
  BY <1>u DEF Checking, Doomed, Barred
<1> USE <1>g, <1>u, <1>w DEF Shaped, Grounded, Live
<1> USE DEF RI!Attempt, RI!Await, RI!Closed, RI!Do, RI!Failed, RI!Live, RI!RolledBack, RI!Said, RI!Thrown, RI!To
<1>1. CASE RI!PlanChannels BY <1>1 DEF RI!Ending, RI!PlanChannels
<1>2. CASE RI!Publication
  <2>1. me.at = "publication" BY <1>2 DEF RI!Publication
  <2>2. \/ me' = RI!To("rls")
        \/ me' = RI!Said(RI!To("rls"), 0, "streams", "note")
    BY <1>2, Zenon DEF RI!Publication
  <2>3. CASE me' = RI!To("rls")
    <3>1. /\ DOMAIN me'.loc = DOMAIN me.loc /\ me'.loc.canary = me.loc.canary /\ me'.at = "rls"
          /\ me'.said = me.said
      BY <2>1, <2>3
    <3> QED BY <2>1, <2>3, <3>1
  <2>4. CASE me' = RI!Said(RI!To("rls"), 0, "streams", "note")
    <3>1. /\ DOMAIN me'.loc = DOMAIN me.loc /\ me'.loc.canary = me.loc.canary /\ me'.at = "rls"
          /\ me'.said = me.said \cup {[on |-> 0, arm |-> "streams", says |-> "note"]}
      BY <2>1, <2>4
    <3>2. \A a \in me'.said : a \in me.said \/ a.says = "note" BY <3>1
    <3> QED BY <2>1, <2>4, <3>1, <3>2
  <2> QED BY <2>2, <2>3, <2>4
<1>3. CASE RI!ReadRls
  <2>1. me.at = "rls" BY <1>3 DEF RI!ReadRls
  <2>2. \/ me' = [RI!Messages(me, "tenant", "leak") EXCEPT !.at = "close"]
        \/ me' = [RI!Messages(me, "tenant", "note") EXCEPT !.at = "close"]
        \/ me' = RI!To("begin")
        \/ me' = RI!Thrown
    BY <1>3, Zenon DEF RI!ReadRls
  <2>3. CASE me' = [RI!Messages(me, "tenant", "leak") EXCEPT !.at = "close"]
    <3>1. /\ DOMAIN me'.loc = DOMAIN me.loc /\ me'.loc.canary = me.loc.canary /\ me'.at = "close"
          /\ me'.said = me.said \cup {[on |-> 1, arm |-> "tenant", says |-> "leak"]}
      BY <2>1, <2>3 DEF RI!Messages
    <3>2. \A a \in me'.said : a \in me.said \/ a.says = "leak" BY <3>1
    <3> QED BY <2>1, <2>3, <3>1, <3>2
  <2>4. CASE me' = [RI!Messages(me, "tenant", "note") EXCEPT !.at = "close"]
    <3>1. /\ DOMAIN me'.loc = DOMAIN me.loc /\ me'.loc.canary = me.loc.canary /\ me'.at = "close"
          /\ me'.said = me.said \cup {[on |-> 1, arm |-> "tenant", says |-> "note"]}
      BY <2>1, <2>4 DEF RI!Messages
    <3>2. \A a \in me'.said : a \in me.said \/ a.says = "note" BY <3>1
    <3> QED BY <2>1, <2>4, <3>1, <3>2
  <2>5. CASE me' = RI!To("begin")
    <3>1. /\ DOMAIN me'.loc = DOMAIN me.loc /\ me'.loc.canary = me.loc.canary /\ me'.at = "begin"
          /\ me'.said = me.said
      BY <2>1, <2>5
    <3> QED BY <2>1, <2>5, <3>1
  <2>6. CASE me' = RI!Thrown
    <3>1. /\ DOMAIN me'.loc = DOMAIN me.loc /\ me'.loc.canary = me.loc.canary /\ me'.at = "finally"
          /\ me'.said = me.said
      BY <2>1, <2>6
    <3> QED BY <2>1, <2>6, <3>1
  <2> QED BY <2>2, <2>3, <2>4, <2>5, <2>6
<1>4. CASE RI!Begin BY <1>4 DEF RI!Began, RI!Begin
<1>5. CASE RI!DistinctTopicTenants
  <2>1. me.at = "tenants" BY <1>5 DEF RI!DistinctTopicTenants
  <2>2. \/ me' = [RI!Messages(me, "tenant", "note") EXCEPT !.at = "close"]
        \/ me' = RI!To("canary")
        \/ me' = RI!Thrown
    BY <1>5, Zenon DEF RI!DistinctTopicTenants
  <2>3. CASE me' = [RI!Messages(me, "tenant", "note") EXCEPT !.at = "close"]
    <3>1. /\ DOMAIN me'.loc = DOMAIN me.loc /\ me'.loc.canary = me.loc.canary /\ me'.at = "close"
          /\ me'.said = me.said \cup {[on |-> 1, arm |-> "tenant", says |-> "note"]}
      BY <2>1, <2>3 DEF RI!Messages
    <3>2. \A a \in me'.said : a \in me.said \/ a.says = "note" BY <3>1
    <3> QED BY <2>1, <2>3, <3>1, <3>2
  <2>4. CASE me' = RI!To("canary")
    <3>1. /\ DOMAIN me'.loc = DOMAIN me.loc /\ me'.loc.canary = me.loc.canary /\ me'.at = "canary"
          /\ me'.said = me.said
      BY <2>1, <2>4
    <3> QED BY <2>1, <2>4, <3>1
  <2>5. CASE me' = RI!Thrown
    <3>1. /\ DOMAIN me'.loc = DOMAIN me.loc /\ me'.loc.canary = me.loc.canary /\ me'.at = "finally"
          /\ me'.said = me.said
      BY <2>1, <2>5
    <3> QED BY <2>1, <2>5, <3>1
  <2> QED BY <2>2, <2>3, <2>4, <2>5
<1>6. CASE RI!SelfCheck
  <2>1. CASE RI!CreateCanary("role")
    <3>1. me.at = "canary" /\ pg.st # "idle" BY <2>1 DEF RI!CreateCanary
    <3>2. \/ me' = [RI!To("role") EXCEPT !.loc.canary = TRUE]
          \/ me' = RI!Said(RI!To("role"), 0, "canary", "note") /\ pg'.st \notin {"idle", "open"}
      BY <2>1, <3>1 DEF RI!CreateCanary
    <3>3. CASE me' = [RI!To("role") EXCEPT !.loc.canary = TRUE]
      <4>1. /\ "canary" \in DOMAIN me'.loc /\ me'.loc.canary = TRUE
            /\ me'.at = "role" /\ me'.said = me.said
        BY <3>3
      <4> QED BY <4>1, <3>1, <2>1
    <3>4. CASE me' = RI!Said(RI!To("role"), 0, "canary", "note") /\ pg'.st \notin {"idle", "open"}
      <4>1. /\ me'.loc = me.loc /\ me'.at = "role"
            /\ me'.said = me.said \cup {[on |-> 0, arm |-> "canary", says |-> "note"]}
        BY <3>4
      <4> QED BY <4>1, <3>1, <3>4
    <3> QED BY <3>2, <3>3, <3>4
  <2>2. CASE RI!SwitchRole("check")
    <3>1. /\ me.at = "role" /\ me'.loc = me.loc /\ me'.said = me.said
          /\ \/ me'.at = "check" /\ pg'.st = pg.st /\ pg'.role = "app" /\ Live
             \/ me'.at = "finally"
      BY <2>2 DEF RI!SwitchRole, RI!AsRole
    <3> QED BY <3>1
  <2>3. CASE RI!CheckCanary("forward")
    <3>1. /\ me.at = "check" /\ me'.loc = me.loc /\ me'.said = me.said
          /\ me'.at = "close" \/ (me'.at = "forward" /\ (world.bypass => ~Live'))
      BY <2>3 DEF RI!CheckCanary, RI!CanaryRead, RI!Ending
    <3> QED BY <3>1
  <2> QED BY <1>6, <2>1, <2>2, <2>3 DEF RI!SelfCheck
<1>7. CASE RI!ProbeForward
  <2> DEFINE cross == RI!Reaches(RI!Target.reads, RI!Becomes("A"), "B")
  <2>1. me.at = "forward" BY <1>7 DEF RI!ProbeForward
  <2>2. \/ (Live) /\ me' = [RI!To("reverse") EXCEPT !.loc.cross = cross]
        \/ (pg' = RI!Failed) /\ me' = RI!Unproven
    BY <1>7, Zenon DEF RI!ProbeForward
  <2> HIDE DEF cross
  <2>3. CASE Live /\ me' = [RI!To("reverse") EXCEPT !.loc.cross = cross]
    <3>1. /\ DOMAIN me'.loc = DOMAIN me.loc /\ me'.loc.canary = me.loc.canary /\ me'.at = "reverse"
          /\ me'.said = me.said
      BY <2>1, <2>3
    <3> QED BY <2>1, <2>3, <3>1 DEF RI!AsRole
  <2>4. CASE pg' = RI!Failed /\ me' = RI!Unproven
    <3>1. /\ DOMAIN me'.loc = DOMAIN me.loc /\ me'.loc.canary = me.loc.canary /\ me'.at = "reset"
          /\ me'.said = me.said
      BY <2>1, <2>4 DEF RI!Unproven
    <3> QED BY <2>1, <2>4, <3>1 DEF RI!AsRole
  <2> QED BY <2>2, <2>3, <2>4
<1>8. CASE RI!ProbeReverse
  <2> DEFINE cross == me.loc.cross \/ RI!Reaches(RI!Target.reads, RI!Becomes("B"), "A")
            where == IF world.uploads THEN "own" ELSE "reset"
  <2>1. me.at = "reverse" BY <1>8 DEF RI!ProbeReverse
  <2>2. \/ me' = [[me EXCEPT !.loc.cross = cross] EXCEPT !.at = where]
        \/ me' = RI!Unproven
    BY <1>8, Zenon DEF RI!ProbeReverse
  <2> HIDE DEF cross, where
  <2>3. CASE me' = [[me EXCEPT !.loc.cross = cross] EXCEPT !.at = where]
    <3>1. /\ DOMAIN me'.loc = DOMAIN me.loc /\ me'.loc.canary = me.loc.canary /\ me'.at = where
          /\ me'.said = me.said
      BY <2>1, <2>3
    <3> QED BY <2>1, <2>3, <3>1
  <2>4. CASE me' = RI!Unproven
    <3>1. /\ DOMAIN me'.loc = DOMAIN me.loc /\ me'.loc.canary = me.loc.canary /\ me'.at = "reset"
          /\ me'.said = me.said
      BY <2>1, <2>4 DEF RI!Unproven
    <3> QED BY <2>1, <2>4, <3>1
  <2> QED BY <2>2, <2>3, <2>4
<1>9. CASE RI!OpenBroadcast
  <2>1. me.at \in {"own", "other"} BY <1>9 DEF RI!OpenBroadcast
  <2>2. \/ me' = RI!To("publish")
        \/ me' = RI!To("intrude")
        \/ me' = RI!Unproven
    BY <1>9, Zenon DEF RI!OpenBroadcast
  <2>3. CASE me' = RI!To("publish")
    <3>1. /\ DOMAIN me'.loc = DOMAIN me.loc /\ me'.loc.canary = me.loc.canary /\ me'.at = "publish"
          /\ me'.said = me.said
      BY <2>1, <2>3
    <3> QED BY <2>1, <2>3, <3>1
  <2>4. CASE me' = RI!To("intrude")
    <3>1. /\ DOMAIN me'.loc = DOMAIN me.loc /\ me'.loc.canary = me.loc.canary /\ me'.at = "intrude"
          /\ me'.said = me.said
      BY <2>1, <2>4
    <3> QED BY <2>1, <2>4, <3>1
  <2>5. CASE me' = RI!Unproven
    <3>1. /\ DOMAIN me'.loc = DOMAIN me.loc /\ me'.loc.canary = me.loc.canary /\ me'.at = "reset"
          /\ me'.said = me.said
      BY <2>1, <2>5 DEF RI!Unproven
    <3> QED BY <2>1, <2>5, <3>1
  <2> QED BY <2>2, <2>3, <2>4, <2>5
<1>10. CASE RI!ProbeBroadcast
  <2>1. me.at \in {"publish", "intrude"} BY <1>10 DEF RI!ProbeBroadcast, RI!Guarded
  <2>2. \/ me' = [RI!To("other") EXCEPT !.loc.own = TRUE]
        \/ me' = [RI!To("reset") EXCEPT !.loc.other = TRUE]
        \/ me' = RI!To("reset")
    BY <1>10, Zenon DEF RI!ProbeBroadcast, RI!Guarded
  <2>3. CASE me' = [RI!To("other") EXCEPT !.loc.own = TRUE]
    <3>1. /\ DOMAIN me'.loc = DOMAIN me.loc /\ me'.loc.canary = me.loc.canary /\ me'.at = "other"
          /\ me'.said = me.said
      BY <2>1, <2>3
    <3> QED BY <2>1, <2>3, <3>1
  <2>4. CASE me' = [RI!To("reset") EXCEPT !.loc.other = TRUE]
    <3>1. /\ DOMAIN me'.loc = DOMAIN me.loc /\ me'.loc.canary = me.loc.canary /\ me'.at = "reset"
          /\ me'.said = me.said
      BY <2>1, <2>4
    <3> QED BY <2>1, <2>4, <3>1
  <2>5. CASE me' = RI!To("reset")
    <3>1. /\ DOMAIN me'.loc = DOMAIN me.loc /\ me'.loc.canary = me.loc.canary /\ me'.at = "reset"
          /\ me'.said = me.said
      BY <2>1, <2>5
    <3> QED BY <2>1, <2>5, <3>1
  <2> QED BY <2>2, <2>3, <2>4, <2>5
<1>11. CASE RI!ResetRole BY <1>11 DEF RI!AsRole, RI!Messages, RI!ResetRole
<1>12. CASE RI!RollBack("close") BY <1>12 DEF RI!RollBack
<1>13. CASE RI!Connect
  <2>1. me'.loc = me.loc /\ me'.said = me.said /\ me'.at \in {"done", "plan"}
    BY <1>13 DEF RI!Connect
  <2> QED BY <2>1
<1>14. CASE RI!Disconnect BY <1>14 DEF RI!Disconnect, RI!Verdict
<1> QED BY <1>1, <1>2, <1>3, <1>4, <1>5, <1>6, <1>7, <1>8, <1>9, <1>10, <1>11, <1>12, <1>13, <1>14 DEF RI!Next, RI!Check, RI!Run

LEMMA DefinerRpcGround ==
  ASSUME GroundInv, world.guard = "definer-rpc", DR!Next
  PROVE  GroundInv'
<1>k. KeptInv' BY DefinerRpcStep DEF GroundInv
<1>u. world' = world
  BY DEF DR!Next, DR!Check, DR!Run, DR!Attempt, DR!Await, DR!BecomeTenant, DR!Begin,
      DR!BodyChecks, DR!CallFunction, DR!CallWithSentinel, DR!CheckCanary, DR!Connect, DR!ControlArm, DR!CreateCanary,
      DR!Disconnect, DR!Do, DR!Guarded, DR!NextFunction, DR!NotCalled, DR!PlanFunctions, DR!RollBack,
      DR!SampleTenants, DR!SelfCheck, DR!SwitchRole, DR!Verdict, DR!WritableSchemas
<1> SUFFICES "canary" \in DOMAIN me'.loc /\ (world.bypass => Grounded')
  BY <1>k, <1>u DEF GroundInv, Controlled
<1>g. /\ Shaped /\ (me.at = "canary" => pg.st # "idle")
      /\ "canary" \in DOMAIN me.loc /\ (world.bypass => Grounded)
  BY DEF GroundInv, KeptInv, Controlled, Inside
<1>w. /\ Checking = {"role", "check"} /\ Doomed = {"become", "next"}
      /\ Barred = {"call", "control", "sentinel"}
      /\ Checking' = {"role", "check"} /\ Doomed' = {"become", "next"}
      /\ Barred' = {"call", "control", "sentinel"}
  BY <1>u DEF Checking, Doomed, Barred
<1> USE <1>g, <1>u, <1>w DEF Shaped, Grounded, Live
<1> USE DEF DR!Attempt, DR!Await, DR!Closed, DR!Do, DR!Failed, DR!Live, DR!Onward, DR!Said, DR!Thrown, DR!To
<1>1. CASE DR!PlanFunctions BY <1>1 DEF DR!Ending, DR!PlanFunctions
<1>2. CASE DR!SampleTenants
  <2> DEFINE rest == Tail(me.loc.tables)
  <2>1. me.at = "sample" BY <1>2 DEF DR!SampleTenants
  <2>2. \/ me' = DR!To("schemas")
        \/ me' = [DR!To("schemas") EXCEPT !.loc.two = TRUE]
        \/ me' = [me EXCEPT !.loc.tables = rest]
    BY <1>2, Zenon DEF DR!SampleTenants
  <2> HIDE DEF rest
  <2>3. CASE me' = DR!To("schemas")
    <3>1. /\ DOMAIN me'.loc = DOMAIN me.loc /\ me'.loc.canary = me.loc.canary /\ me'.at = "schemas"
          /\ me'.said = me.said
      BY <2>1, <2>3
    <3> QED BY <2>1, <2>3, <3>1
  <2>4. CASE me' = [DR!To("schemas") EXCEPT !.loc.two = TRUE]
    <3>1. /\ DOMAIN me'.loc = DOMAIN me.loc /\ me'.loc.canary = me.loc.canary /\ me'.at = "schemas"
          /\ me'.said = me.said
      BY <2>1, <2>4
    <3> QED BY <2>1, <2>4, <3>1
  <2>5. CASE me' = [me EXCEPT !.loc.tables = rest]
    <3>1. /\ DOMAIN me'.loc = DOMAIN me.loc /\ me'.loc.canary = me.loc.canary /\ me'.at = "sample"
          /\ me'.said = me.said
      BY <2>1, <2>5
    <3> QED BY <2>1, <2>5, <3>1
  <2> QED BY <2>2, <2>3, <2>4, <2>5
<1>3. CASE DR!WritableSchemas
  <2>1. me.at = "schemas" BY <1>3 DEF DR!WritableSchemas
  <2>2. \/ me' = [DR!To("begin") EXCEPT !.loc.writable = world.writable]
        \/ me' = DR!To("begin")
    BY <1>3, Zenon DEF DR!WritableSchemas
  <2>3. CASE me' = [DR!To("begin") EXCEPT !.loc.writable = world.writable]
    <3>1. /\ DOMAIN me'.loc = DOMAIN me.loc /\ me'.loc.canary = me.loc.canary /\ me'.at = "begin"
          /\ me'.said = me.said
      BY <2>1, <2>3
    <3> QED BY <2>1, <2>3, <3>1
  <2>4. CASE me' = DR!To("begin")
    <3>1. /\ DOMAIN me'.loc = DOMAIN me.loc /\ me'.loc.canary = me.loc.canary /\ me'.at = "begin"
          /\ me'.said = me.said
      BY <2>1, <2>4
    <3> QED BY <2>1, <2>4, <3>1
  <2> QED BY <2>2, <2>3, <2>4
<1>4. CASE DR!Begin BY <1>4 DEF DR!Began, DR!Begin
<1>5. CASE DR!SelfCheck
  <2>1. CASE DR!CreateCanary("role")
    <3>1. me.at = "canary" /\ pg.st # "idle" BY <2>1 DEF DR!CreateCanary
    <3>2. \/ me' = [DR!To("role") EXCEPT !.loc.canary = TRUE]
          \/ me' = DR!Said(DR!To("role"), 0, "canary", "note") /\ pg'.st \notin {"idle", "open"}
      BY <2>1, <3>1 DEF DR!CreateCanary
    <3>3. CASE me' = [DR!To("role") EXCEPT !.loc.canary = TRUE]
      <4>1. /\ "canary" \in DOMAIN me'.loc /\ me'.loc.canary = TRUE
            /\ me'.at = "role" /\ me'.said = me.said
        BY <3>3
      <4> QED BY <4>1, <3>1, <2>1
    <3>4. CASE me' = DR!Said(DR!To("role"), 0, "canary", "note") /\ pg'.st \notin {"idle", "open"}
      <4>1. /\ me'.loc = me.loc /\ me'.at = "role"
            /\ me'.said = me.said \cup {[on |-> 0, arm |-> "canary", says |-> "note"]}
        BY <3>4
      <4> QED BY <4>1, <3>1, <3>4
    <3> QED BY <3>2, <3>3, <3>4
  <2>2. CASE DR!SwitchRole("check")
    <3>1. /\ me.at = "role" /\ me'.loc = me.loc /\ me'.said = me.said
          /\ \/ me'.at = "check" /\ pg'.st = pg.st /\ pg'.role = "app" /\ Live
             \/ me'.at = "finally"
      BY <2>2 DEF DR!SwitchRole, DR!AsRole
    <3> QED BY <3>1
  <2>3. CASE DR!CheckCanary("become")
    <3>1. /\ me.at = "check" /\ me'.loc = me.loc /\ me'.said = me.said
          /\ me'.at = "close" \/ (me'.at = "become" /\ (world.bypass => ~Live'))
      BY <2>3 DEF DR!CheckCanary, DR!CanaryRead, DR!Ending, DR!RolledBack
    <3> QED BY <3>1
  <2> QED BY <1>5, <2>1, <2>2, <2>3 DEF DR!SelfCheck
<1>6. CASE DR!BecomeTenant BY <1>6 DEF DR!Acting, DR!BecomeTenant
<1>7. CASE DR!NextFunction
  <2> DEFINE more == [on : {DR!Current}, arm : {"sql"}, says : DR!DynamicSqlInjection(DR!Target)]
                     \cup [on : {DR!Current}, arm : {"path"}, says : DR!ClassifyPath(DR!Target, me.loc.writable)]
             checked == [me EXCEPT !.said = me.said \cup more]
  <2>1. me.at = "next" BY <1>7 DEF DR!NextFunction
  <2>2. \A a \in more : a.says # "clear"
    <3>1. DR!DynamicSqlInjection(DR!Target) \subseteq {"leak", "note"} BY DEF DR!DynamicSqlInjection
    <3>2. DR!ClassifyPath(DR!Target, me.loc.writable) \subseteq {"leak", "note"} BY DEF DR!ClassifyPath
    <3> HIDE DEF checked
    <3> QED BY <3>1, <3>2
  <2>3. DR!BodyChecks(me, DR!Current, DR!Target) \in {me, checked}
    BY DEF DR!BodyChecks
  <2> HIDE DEF more
  <2>4. CASE me.todo = <<>> BY <1>7, <2>1, <2>4 DEF DR!NextFunction
  <2>5. CASE me.todo # <<>>
    <3>1. PICK m \in {me, checked} :
            \/ me' = [m EXCEPT !.at = "call"] /\ Live
            \/ me' = DR!Thrown
            \/ pg' = pg /\ me' = DR!Onward(DR!NotCalled(m, DR!Current, DR!Target))
      BY <1>7, <2>3, <2>5, Zenon DEF DR!NextFunction
    <3>2. /\ DOMAIN m = DOMAIN me /\ m.loc = me.loc
          /\ \A a \in m.said : a \in me.said \/ a \in more
      BY <3>1
    <3>3. CASE me' = [m EXCEPT !.at = "call"] /\ Live
      <4>1. me'.loc = me.loc BY <3>2, <3>3
      <4> QED BY <2>1, <3>3, <4>1
    <3>4. CASE me' = DR!Thrown BY <3>4
    <3>5. CASE pg' = pg /\ me' = DR!Onward(DR!NotCalled(m, DR!Current, DR!Target))
      <4>1. /\ me'.loc = me.loc /\ me'.at = "next"
            /\ \A a \in me'.said : a \in m.said \/ a.says = "note"
        <5>1. CASE me' = DR!Onward(m) BY <3>2, <5>1
        <5>2. CASE me' = DR!Onward(DR!Said(m, DR!Current, "rows", "note")) BY <3>2, <5>2
        <5> QED BY <3>5, <5>1, <5>2 DEF DR!NotCalled
      <4> QED BY <2>1, <2>2, <3>2, <3>5, <4>1
    <3> QED BY <3>1, <3>3, <3>4, <3>5
  <2> QED BY <2>4, <2>5
<1>8. CASE DR!CallFunction BY <1>8 DEF DR!CallFunction, DR!Guarded, DR!Released, DR!Undone
<1>9. CASE DR!ControlArm BY <1>9 DEF DR!ControlArm, DR!Saved
<1>10. CASE DR!CallWithSentinel BY <1>10 DEF DR!CallWithSentinel, DR!Guarded, DR!Released, DR!Undone
<1>11. CASE DR!RollBack("close") BY <1>11 DEF DR!RollBack, DR!RolledBack
<1>12. CASE DR!Connect
  <2>1. me'.loc = me.loc /\ me'.said = me.said /\ me'.at \in {"done", "plan"}
    BY <1>12 DEF DR!Connect
  <2> QED BY <2>1
<1>13. CASE DR!Disconnect BY <1>13 DEF DR!Disconnect, DR!Verdict
<1> QED BY <1>1, <1>2, <1>3, <1>4, <1>5, <1>6, <1>7, <1>8, <1>9, <1>10, <1>11, <1>12, <1>13 DEF DR!Next, DR!Check, DR!Run

LEMMA IdentityTrustGround ==
  ASSUME GroundInv, world.guard = "identity-trust", IT!Next
  PROVE  GroundInv'
<1>k. KeptInv' BY IdentityTrustStep DEF GroundInv
<1>u. world' = world
  BY DEF IT!Next, IT!Check, IT!Run, IT!Attempt, IT!AuthorityTables, IT!Await, IT!Begin,
      IT!Connect, IT!DefinerFunctions, IT!Disconnect, IT!Do, IT!ForgeNobody, IT!ForgeVictim, IT!NextTable,
      IT!PlanPolicies, IT!PolicyText, IT!ResetRole, IT!RollBack, IT!SelfEscalation, IT!Swallowed, IT!SwitchRole,
      IT!SwitchToForge, IT!Verdict
<1> SUFFICES DOMAIN me'.loc = DOMAIN me.loc
  BY <1>k, <1>u DEF GroundInv, Controlled
<1>g. DOMAIN me = {"at", "todo", "loc", "said", "thrown", "result"}
  BY DEF GroundInv, KeptInv, Shaped
<1> USE <1>g
<1> USE DEF IT!Await, IT!Do, IT!Thrown, IT!To
<1>1. CASE IT!PlanPolicies BY <1>1 DEF IT!Ending, IT!PlanPolicies
<1>2. CASE IT!DefinerFunctions BY <1>2 DEF IT!DefinerFunctions
<1>3. CASE IT!AuthorityTables BY <1>3 DEF IT!AuthorityTables
<1>4. CASE IT!Begin BY <1>4 DEF IT!Begin
<1>5. CASE IT!NextTable BY <1>5 DEF IT!NextTable, IT!Onward
<1>6. CASE IT!SwitchToForge BY <1>6 DEF IT!SwitchRole, IT!SwitchToForge
<1>7. CASE IT!ForgeNobody BY <1>7 DEF IT!Attempt, IT!ForgeNobody, IT!Said, IT!Swallowed
<1>8. CASE IT!ForgeVictim
  <2> DEFINE proven == IT!Said(IT!To("reset"), IT!Current, "metadata", "leak").loc.proven \cup {IT!Current}
  <2>1. \/ me' = IT!To("reset")
        \/ me' = IT!Said(IT!To("reset"), IT!Current, "forgery", "note")
        \/ me' = [IT!Said(IT!To("reset"), IT!Current, "metadata", "leak") EXCEPT !.loc.proven = proven]
    BY <1>8, Zenon DEF IT!ForgeVictim, IT!Attempt, IT!Swallowed
  <2> HIDE DEF proven
  <2>2. CASE me' = IT!To("reset") BY <2>2
  <2>3. CASE me' = IT!Said(IT!To("reset"), IT!Current, "forgery", "note") BY <2>3 DEF IT!Said
  <2>4. CASE me' = [IT!Said(IT!To("reset"), IT!Current, "metadata", "leak") EXCEPT !.loc.proven = proven]
    BY <2>4 DEF IT!Said
  <2> QED BY <2>1, <2>2, <2>3, <2>4
<1>9. CASE IT!ResetRole BY <1>9 DEF IT!Onward, IT!ResetRole
<1>10. CASE IT!RollBack("self") BY <1>10 DEF IT!RollBack
<1>11. CASE IT!SelfEscalation BY <1>11 DEF IT!SelfEscalation
<1>12. CASE IT!PolicyText BY <1>12 DEF IT!PolicyText
<1>13. CASE IT!Connect BY <1>13 DEF IT!Connect
<1>14. CASE IT!Disconnect BY <1>14 DEF IT!Disconnect, IT!Verdict
<1> QED BY <1>1, <1>2, <1>3, <1>4, <1>5, <1>6, <1>7, <1>8, <1>9, <1>10, <1>11, <1>12, <1>13, <1>14 DEF IT!Next, IT!Check, IT!Run

LEMMA ColumnExposureGround ==
  ASSUME GroundInv, world.guard = "column-exposure", CE!Next
  PROVE  GroundInv'
<1>k. KeptInv' BY ColumnExposureStep DEF GroundInv
<1>u. world' = world
  BY DEF CE!Next, CE!Check, CE!Run, CE!AssumeRole, CE!Attempt, CE!Await, CE!Begin, CE!Connect,
      CE!Disconnect, CE!Do, CE!Finish, CE!GrantPaths, CE!Guarded, CE!HandOff, CE!NextRelation, CE!PlanRelations,
      CE!ProbeRelation, CE!RollBack, CE!Verdict
<1> SUFFICES DOMAIN me'.loc = DOMAIN me.loc
  BY <1>k, <1>u DEF GroundInv, Controlled
<1>g. DOMAIN me = {"at", "todo", "loc", "said", "thrown", "result"}
  BY DEF GroundInv, KeptInv, Shaped
<1> USE <1>g
<1> USE DEF CE!Await, CE!Do, CE!Said, CE!Thrown, CE!To
<1>1. CASE CE!PlanRelations BY <1>1 DEF CE!Ending, CE!HandOff, CE!PlanRelations
<1>2. CASE CE!GrantPaths BY <1>2 DEF CE!GrantPaths
<1>3. CASE CE!Begin BY <1>3 DEF CE!Begin
<1>4. CASE CE!AssumeRole BY <1>4 DEF CE!AssumeRole, CE!Attempt
<1>5. CASE CE!NextRelation BY <1>5 DEF CE!NextRelation
<1>6. CASE CE!ProbeRelation BY <1>6 DEF CE!Guarded, CE!Onward, CE!ProbeRelation
<1>7. CASE CE!RollBack("handoff") BY <1>7 DEF CE!RollBack
<1>8. CASE CE!Finish BY <1>8 DEF CE!Finish, CE!HandOff
<1>9. CASE CE!Connect BY <1>9 DEF CE!Connect
<1>10. CASE CE!Disconnect BY <1>10 DEF CE!Disconnect, CE!Verdict
<1> QED BY <1>1, <1>2, <1>3, <1>4, <1>5, <1>6, <1>7, <1>8, <1>9, <1>10 DEF CE!Next, CE!Check, CE!Run

LEMMA TriggerVisibilityGround ==
  ASSUME GroundInv, world.guard = "trigger-visibility", TV!Next
  PROVE  GroundInv'
<1>k. KeptInv' BY TriggerVisibilityStep DEF GroundInv
<1>u. world' = world
  BY DEF TV!Next, TV!Check, TV!Run, TV!Await, TV!Begin, TV!ClassifyTriggers, TV!Connect,
      TV!CountTotal, TV!CountVisible, TV!Disconnect, TV!Do, TV!Guarded, TV!NextTotal, TV!NextVisible, TV!PlanTriggers,
      TV!RollBack, TV!Switch, TV!Verdict
<1> SUFFICES DOMAIN me'.loc = DOMAIN me.loc
  BY <1>k, <1>u DEF GroundInv, Controlled
<1>g. DOMAIN me = {"at", "todo", "loc", "said", "thrown", "result"}
  BY DEF GroundInv, KeptInv, Shaped
<1> USE <1>g
<1> USE DEF TV!Await, TV!Do, TV!Thrown, TV!To
<1>1. CASE TV!PlanTriggers
  <2> DEFINE read == UNION {world.targets[k].reads : k \in TV!Triggers}
            todo == TV!Kept(TV!Triggers)
  <2>1. \/ me' = TV!Thrown
        \/ me' = TV!Ending(me, "skip")
        \/ me' = TV!To("close")
        \/ me' = [TV!To("begin") EXCEPT !.todo = todo, !.loc.left = read]
    BY <1>1, Zenon DEF TV!PlanTriggers
  <2> HIDE DEF read, todo
  <2>2. CASE me' = TV!Thrown BY <2>2
  <2>3. CASE me' = TV!Ending(me, "skip") BY <2>3 DEF TV!Ending
  <2>4. CASE me' = TV!To("close") BY <2>4
  <2>5. CASE me' = [TV!To("begin") EXCEPT !.todo = todo, !.loc.left = read] BY <2>5
  <2> QED BY <2>1, <2>2, <2>3, <2>4, <2>5
<1>2. CASE TV!Begin BY <1>2 DEF TV!Begin
<1>3. CASE TV!NextTotal BY <1>3 DEF TV!NextTotal
<1>4. CASE TV!CountTotal
  <2> DEFINE on(i)   == [TV!To("totals") EXCEPT !.loc.left = @ \ { i }]
             more(i) == [on(i) EXCEPT !.loc.totals = @ \cup { i }]
  <2>1. PICK i \in me.loc.left : TV!Guarded("total", TV!Denied("conn", i), TV!Released(pg), more(i), on(i))
    BY <1>4, Zenon DEF TV!CountTotal
  <2>2. me' \in {on(i), more(i)} BY <2>1, Zenon DEF TV!Guarded
  <2>3. DOMAIN on(i) = DOMAIN me /\ DOMAIN on(i).loc = DOMAIN me.loc
    OBVIOUS
  <2>4. DOMAIN more(i).loc = DOMAIN me.loc BY <2>3
  <2> QED BY <2>2, <2>3, <2>4
<1>5. CASE TV!Switch
  <2>1. \/ me' = TV!Thrown
        \/ me' = [TV!To("visible") EXCEPT !.loc.left = me.loc.totals]
    BY <1>5, Zenon DEF TV!Switch
  <2>2. CASE me' = TV!Thrown BY <2>2
  <2>3. CASE me' = [TV!To("visible") EXCEPT !.loc.left = me.loc.totals] BY <2>3
  <2> QED BY <2>1, <2>2, <2>3
<1>6. CASE TV!NextVisible BY <1>6 DEF TV!NextVisible
<1>7. CASE TV!CountVisible
  <2> DEFINE on(i)   == [TV!To("visible") EXCEPT !.loc.left = @ \ { i }]
             more(i) == [on(i) EXCEPT !.loc.hidden = @ \cup { i }]
             less(i, n) == IF n < TV!Rows("conn", i) THEN more(i) ELSE on(i)
  <2>1. PICK i \in me.loc.left : TV!Guarded("seen", TV!Denied("app", i), TV!Released(pg), less(i, TV!Rows("app", i)), less(i, 0))
    BY <1>7, Zenon DEF TV!CountVisible
  <2>2. me' \in {on(i), more(i)} BY <2>1, Zenon DEF TV!Guarded
  <2>3. DOMAIN on(i) = DOMAIN me /\ DOMAIN on(i).loc = DOMAIN me.loc
    OBVIOUS
  <2>4. DOMAIN more(i).loc = DOMAIN me.loc BY <2>3
  <2> QED BY <2>2, <2>3, <2>4
<1>8. CASE TV!RollBack("judge") BY <1>8 DEF TV!RollBack
<1>9. CASE TV!ClassifyTriggers BY <1>9 DEF TV!ClassifyTriggers
<1>10. CASE TV!Connect BY <1>10 DEF TV!Connect
<1>11. CASE TV!Disconnect BY <1>11 DEF TV!Disconnect, TV!Verdict
<1> QED BY <1>1, <1>2, <1>3, <1>4, <1>5, <1>6, <1>7, <1>8, <1>9, <1>10, <1>11 DEF TV!Next, TV!Check, TV!Run

LEMMA SchemaTenancyGround ==
  ASSUME GroundInv, world.guard = "schema-tenancy", ST!Next
  PROVE  GroundInv'
<1>k. KeptInv' BY SchemaTenancyStep DEF GroundInv
<1>u. world' = world
  BY DEF ST!Next, ST!Check, ST!Run, ST!Await, ST!Begin, ST!ClassifyGroups, ST!Connect,
      ST!Disconnect, ST!Do, ST!Guarded, ST!NextAttempt, ST!NextSchema, ST!PlanSchemas, ST!ProbeTable, ST!ResetRole,
      ST!RollBack, ST!SwitchRole, ST!Verdict
<1> SUFFICES DOMAIN me'.loc = DOMAIN me.loc
  BY <1>k, <1>u DEF GroundInv, Controlled
<1>g. DOMAIN me = {"at", "todo", "loc", "said", "thrown", "result"}
  BY DEF GroundInv, KeptInv, Shaped
<1> USE <1>g
<1> USE DEF ST!Await, ST!Do, ST!Thrown, ST!To
<1>1. CASE ST!PlanSchemas BY <1>1 DEF ST!Ending, ST!PlanSchemas
<1>2. CASE ST!Begin BY <1>2 DEF ST!Begin
<1>3. CASE ST!SwitchRole("next") BY <1>3 DEF ST!SwitchRole
<1>4. CASE ST!NextAttempt
  <2> DEFINE tried == me.loc.tried + 1
  <2>1. \/ me' = ST!Thrown
        \/ me' = ST!To("reset")
        \/ me' = ST!NextSchema(me)
        \/ me' = ST!NextSchema(ST!Said(me, ST!Current, "disagrees", "note"))
        \/ me' = [ST!To("probe") EXCEPT !.loc.tried = tried]
    BY <1>4, Zenon DEF ST!NextAttempt
  <2> HIDE DEF tried
  <2>2. CASE me' = ST!Thrown BY <2>2
  <2>3. CASE me' = ST!To("reset") BY <2>3
  <2>4. CASE me' = ST!NextSchema(me) BY <2>4 DEF ST!NextSchema, ST!Onward
  <2>5. CASE me' = ST!NextSchema(ST!Said(me, ST!Current, "disagrees", "note"))
    BY <2>5 DEF ST!NextSchema, ST!Said, ST!Onward
  <2>6. CASE me' = [ST!To("probe") EXCEPT !.loc.tried = tried] BY <2>6
  <2> QED BY <2>1, <2>2, <2>3, <2>4, <2>5, <2>6
<1>5. CASE ST!ProbeTable
  <2> DEFINE refused == me.loc.refused \/ ST!Target.tries[me.loc.tried].grant
            reached == me.loc.reached \cup {ST!Current}
  <2>1. \/ me' = [ST!To("next") EXCEPT !.loc.refused = refused]
        \/ me' = ST!Said(ST!To("next"), ST!Current, "probe", "note")
        \/ me' = ST!NextSchema([me EXCEPT !.loc.reached = reached])
    BY <1>5, Zenon DEF ST!ProbeTable, ST!Guarded
  <2> HIDE DEF refused, reached
  <2>2. CASE me' = [ST!To("next") EXCEPT !.loc.refused = refused] BY <2>2
  <2>3. CASE me' = ST!Said(ST!To("next"), ST!Current, "probe", "note") BY <2>3 DEF ST!Said
  <2>4. CASE me' = ST!NextSchema([me EXCEPT !.loc.reached = reached]) BY <2>4 DEF ST!NextSchema, ST!Onward
  <2> QED BY <2>1, <2>2, <2>3, <2>4
<1>6. CASE ST!ResetRole BY <1>6 DEF ST!ResetRole
<1>7. CASE ST!RollBack("judge") BY <1>7 DEF ST!RollBack
<1>8. CASE ST!ClassifyGroups BY <1>8 DEF ST!ClassifyGroups
<1>9. CASE ST!Connect BY <1>9 DEF ST!Connect
<1>10. CASE ST!Disconnect BY <1>10 DEF ST!Disconnect, ST!Verdict
<1> QED BY <1>1, <1>2, <1>3, <1>4, <1>5, <1>6, <1>7, <1>8, <1>9, <1>10 DEF ST!Next, ST!Check, ST!Run

LEMMA DefaultPrivilegesGround ==
  ASSUME GroundInv, world.guard = "default-privileges", DP!Next
  PROVE  GroundInv'
<1>k. KeptInv' BY DefaultPrivilegesStep DEF GroundInv
<1>u. world' = world
  BY DEF DP!Next, DP!Check, DP!Run, DP!AssumeCreator, DP!Attempt, DP!Begin, DP!Concluded,
      DP!Connect, DP!DefaultAcl, DP!Disconnect, DP!Do, DP!NextProbe, DP!NextSchema, DP!ProbeAcl, DP!ProbeCreate,
      DP!ReadMitigation, DP!UndoProbe, DP!Unproven, DP!Verdict, DP!WhoAmI
<1> SUFFICES DOMAIN me'.loc = DOMAIN me.loc
  BY <1>k, <1>u DEF GroundInv, Controlled
<1>g. DOMAIN me = {"at", "todo", "loc", "said", "thrown", "result"}
  BY DEF GroundInv, KeptInv, Shaped
<1> USE <1>g
<1> USE DEF DP!Attempt, DP!Do, DP!Said, DP!To
<1>1. CASE DP!ReadMitigation BY <1>1 DEF DP!ReadMitigation
<1>2. CASE DP!WhoAmI BY <1>2 DEF DP!WhoAmI
<1>3. CASE DP!DefaultAcl
  <2>1. \/ me' = [DP!To("next") EXCEPT !.loc.others = world.others]
        \/ me' = DP!Said(DP!To("next"), 0, "acl", "note")
    BY <1>3, Zenon DEF DP!DefaultAcl
  <2>2. CASE me' = [DP!To("next") EXCEPT !.loc.others = world.others] BY <2>2
  <2>3. CASE me' = DP!Said(DP!To("next"), 0, "acl", "note") BY <2>3
  <2> QED BY <2>1, <2>2, <2>3
<1>4. CASE DP!NextSchema BY <1>4 DEF DP!Ending, DP!NextSchema
<1>5. CASE DP!Begin
  <2>1. \/ me' = DP!To("create")
        \/ me' = DP!To("role")
        \/ me' = [DP!Said(me, DP!Current, me.loc.as, "note") EXCEPT !.at = "begin", !.loc.as = "other"]
        \/ me' = [DP!Onward(DP!Said(me, DP!Current, me.loc.as, "note")) EXCEPT !.loc.as = "conn"]
    BY <1>5, Zenon DEF DP!Begin, DP!NextProbe, DP!Unproven
  <2>2. CASE me' = DP!To("create") BY <2>2
  <2>3. CASE me' = DP!To("role") BY <2>3
  <2>4. CASE me' = [DP!Said(me, DP!Current, me.loc.as, "note") EXCEPT !.at = "begin", !.loc.as = "other"]
    BY <2>4
  <2>5. CASE me' = [DP!Onward(DP!Said(me, DP!Current, me.loc.as, "note")) EXCEPT !.loc.as = "conn"]
    BY <2>5 DEF DP!Onward
  <2> QED BY <2>1, <2>2, <2>3, <2>4, <2>5
<1>6. CASE DP!AssumeCreator BY <1>6 DEF DP!AssumeCreator, DP!Unproven
<1>7. CASE DP!ProbeCreate BY <1>7 DEF DP!ProbeCreate, DP!Unproven
<1>8. CASE DP!ProbeAcl BY <1>8 DEF DP!ProbeAcl, DP!Unproven
<1>9. CASE DP!UndoProbe
  <2> DEFINE says == DP!ClassifyInherited(DP!Makes)
  <2>1. \/ me' = [[me EXCEPT !.at = "begin", !.loc.as = "other"] EXCEPT !.loc.scanned = TRUE]
        \/ me' = [[DP!Onward(me) EXCEPT !.loc.as = "conn"] EXCEPT !.loc.scanned = TRUE]
        \/ me' = [[DP!Said(me, DP!Current, me.loc.as, says) EXCEPT !.at = "begin", !.loc.as = "other"] EXCEPT !.loc.scanned = TRUE]
        \/ me' = [[DP!Onward(DP!Said(me, DP!Current, me.loc.as, says)) EXCEPT !.loc.as = "conn"] EXCEPT !.loc.scanned = TRUE]
        \/ me' = [me EXCEPT !.at = "begin", !.loc.as = "other"]
        \/ me' = [DP!Onward(me) EXCEPT !.loc.as = "conn"]
    BY <1>9, Zenon DEF DP!UndoProbe, DP!Concluded, DP!NextProbe
  <2> HIDE DEF says
  <2>2. CASE me' = [[me EXCEPT !.at = "begin", !.loc.as = "other"] EXCEPT !.loc.scanned = TRUE] BY <2>2
  <2>3. CASE me' = [[DP!Onward(me) EXCEPT !.loc.as = "conn"] EXCEPT !.loc.scanned = TRUE]
    BY <2>3 DEF DP!Onward
  <2>4. CASE me' = [[DP!Said(me, DP!Current, me.loc.as, says) EXCEPT !.at = "begin", !.loc.as = "other"] EXCEPT !.loc.scanned = TRUE]
    BY <2>4
  <2>5. CASE me' = [[DP!Onward(DP!Said(me, DP!Current, me.loc.as, says)) EXCEPT !.loc.as = "conn"] EXCEPT !.loc.scanned = TRUE]
    BY <2>5 DEF DP!Onward
  <2>6. CASE me' = [me EXCEPT !.at = "begin", !.loc.as = "other"] BY <2>6
  <2>7. CASE me' = [DP!Onward(me) EXCEPT !.loc.as = "conn"] BY <2>7 DEF DP!Onward
  <2> QED BY <2>1, <2>2, <2>3, <2>4, <2>5, <2>6, <2>7
<1>10. CASE DP!Connect BY <1>10 DEF DP!Connect
<1>11. CASE DP!Disconnect BY <1>11 DEF DP!Disconnect, DP!Verdict
<1> QED BY <1>1, <1>2, <1>3, <1>4, <1>5, <1>6, <1>7, <1>8, <1>9, <1>10, <1>11 DEF DP!Next, DP!Check, DP!Run

LEMMA CrossTenantFkGround ==
  ASSUME GroundInv, world.guard = "cross-tenant-fk", FK!Next
  PROVE  GroundInv'
<1>k. KeptInv' BY CrossTenantFkStep DEF GroundInv
<1>u. world' = world
  BY DEF FK!Next, FK!Check, FK!Run, FK!Answered, FK!Attempt, FK!Await, FK!Begin, FK!Caught,
      FK!Connect, FK!Disconnect, FK!Do, FK!ExistingRows, FK!Impersonate, FK!NextKey, FK!OtherChildTenant, FK!OwnRows,
      FK!ParentTarget, FK!PlanKeys, FK!Repoint, FK!RollBack, FK!UndoProbe, FK!Vanish, FK!Verdict
<1> SUFFICES DOMAIN me'.loc = DOMAIN me.loc
  BY <1>k, <1>u DEF GroundInv, Controlled
<1>g. DOMAIN me = {"at", "todo", "loc", "said", "thrown", "result"}
  BY DEF GroundInv, KeptInv, Shaped
<1> USE <1>g
<1> USE DEF FK!Attempt, FK!Do, FK!Onward, FK!Said, FK!To
<1>1. CASE FK!PlanKeys BY <1>1 DEF FK!Await, FK!Ending, FK!PlanKeys, FK!Thrown
<1>2. CASE FK!NextKey BY <1>2 DEF FK!Answered, FK!NextKey
<1>3. CASE FK!ExistingRows
  <2>1. \/ me' = FK!Answered("leak")
        \/ me' = FK!To("target")
        \/ me' = FK!Said(FK!To("target"), FK!Current, "existing", "note")
    BY <1>3, Zenon DEF FK!ExistingRows
  <2>2. CASE me' = FK!Answered("leak") BY <2>2 DEF FK!Answered
  <2>3. CASE me' = FK!To("target") BY <2>3
  <2>4. CASE me' = FK!Said(FK!To("target"), FK!Current, "existing", "note") BY <2>4
  <2> QED BY <2>1, <2>2, <2>3, <2>4
<1>4. CASE FK!ParentTarget
  <2>1. \/ me' = FK!Answered("note")
        \/ me' = FK!To("other")
    BY <1>4, Zenon DEF FK!ParentTarget
  <2>2. CASE me' = FK!Answered("note") BY <2>2 DEF FK!Answered
  <2>3. CASE me' = FK!To("other") BY <2>3
  <2> QED BY <2>1, <2>2, <2>3
<1>5. CASE FK!OtherChildTenant
  <2>1. \/ me' = FK!Answered("note")
        \/ me' = FK!To("begin")
    BY <1>5, Zenon DEF FK!OtherChildTenant
  <2>2. CASE me' = FK!Answered("note") BY <2>2 DEF FK!Answered
  <2>3. CASE me' = FK!To("begin") BY <2>3
  <2> QED BY <2>1, <2>2, <2>3
<1>6. CASE FK!Vanish BY <1>6 DEF FK!Vanish
<1>7. CASE FK!Begin
  <2>1. \/ me' = FK!Answered("note")
        \/ me' = FK!To("role")
    BY <1>7, Zenon DEF FK!Begin
  <2>2. CASE me' = FK!Answered("note") BY <2>2 DEF FK!Answered
  <2>3. CASE me' = FK!To("role") BY <2>3
  <2> QED BY <2>1, <2>2, <2>3
<1>8. CASE FK!Impersonate
  <2>1. \/ me' = FK!To("become")
        \/ me' = FK!To("own")
        \/ me' = [FK!To("undo") EXCEPT !.loc.probe = "blocked"]
        \/ me' = [FK!To("undo") EXCEPT !.loc.probe = "unknown"]
    BY <1>8, Zenon DEF FK!Impersonate, FK!Caught
  <2>2. CASE me' = FK!To("become") BY <2>2
  <2>3. CASE me' = FK!To("own") BY <2>3
  <2>4. CASE me' = [FK!To("undo") EXCEPT !.loc.probe = "blocked"] BY <2>4
  <2>5. CASE me' = [FK!To("undo") EXCEPT !.loc.probe = "unknown"] BY <2>5
  <2> QED BY <2>1, <2>2, <2>3, <2>4, <2>5
<1>9. CASE FK!OwnRows BY <1>9 DEF FK!OwnRows
<1>10. CASE FK!Repoint
  <2>1. \/ me' = [FK!To("undo") EXCEPT !.loc.probe = "landed"]
        \/ me' = [FK!To("undo") EXCEPT !.loc.probe = "nomatch"]
        \/ me' = [FK!To("undo") EXCEPT !.loc.probe = "blocked"]
        \/ me' = [FK!To("undo") EXCEPT !.loc.probe = "unknown"]
    BY <1>10, Zenon DEF FK!Repoint, FK!Caught
  <2>2. CASE me' = [FK!To("undo") EXCEPT !.loc.probe = "landed"] BY <2>2
  <2>3. CASE me' = [FK!To("undo") EXCEPT !.loc.probe = "nomatch"] BY <2>3
  <2>4. CASE me' = [FK!To("undo") EXCEPT !.loc.probe = "blocked"] BY <2>4
  <2>5. CASE me' = [FK!To("undo") EXCEPT !.loc.probe = "unknown"] BY <2>5
  <2> QED BY <2>1, <2>2, <2>3, <2>4, <2>5
<1>11. CASE FK!UndoProbe BY <1>11 DEF FK!Answered, FK!UndoProbe
<1>12. CASE FK!RollBack("close") BY <1>12 DEF FK!RollBack
<1>13. CASE FK!Connect BY <1>13 DEF FK!Connect
<1>14. CASE FK!Disconnect BY <1>14 DEF FK!Disconnect, FK!Verdict
<1> QED BY <1>1, <1>2, <1>3, <1>4, <1>5, <1>6, <1>7, <1>8, <1>9, <1>10, <1>11, <1>12, <1>13, <1>14 DEF FK!Next, FK!Check, FK!Run

LEMMA RoleCapabilitiesGround ==
  ASSUME GroundInv, world.guard = "role-capabilities", RC!Next
  PROVE  GroundInv'
<1>k. KeptInv' BY RoleCapabilitiesStep DEF GroundInv
<1>u. world' = world
  BY DEF RC!Next, RC!Check, RC!Run, RC!Attempt, RC!AuthGrants, RC!Await, RC!Connect,
      RC!Disconnect, RC!Do, RC!FunctionGrants, RC!Leave, RC!Verdict
<1> SUFFICES DOMAIN me'.loc = DOMAIN me.loc
  BY <1>k, <1>u DEF GroundInv, Controlled
<1>g. DOMAIN me = {"at", "todo", "loc", "said", "thrown", "result"}
  BY DEF GroundInv, KeptInv, Shaped
<1> USE <1>g
<1> USE DEF RC!Do, RC!To
<1>1. CASE RC!FunctionGrants BY <1>1 DEF RC!Await, RC!FunctionGrants, RC!Thrown
<1>2. CASE RC!AuthGrants BY <1>2 DEF RC!Attempt, RC!AuthGrants, RC!Said
<1>3. CASE RC!Leave BY <1>3 DEF RC!Leave
<1>4. CASE RC!Connect BY <1>4 DEF RC!Connect
<1>5. CASE RC!Disconnect BY <1>5 DEF RC!Disconnect, RC!Verdict
<1> QED BY <1>1, <1>2, <1>3, <1>4, <1>5 DEF RC!Next, RC!Check, RC!Run

LEMMA ConstraintOraclesGround ==
  ASSUME GroundInv, world.guard = "constraint-oracles", CO!Next
  PROVE  GroundInv'
<1>k. KeptInv' BY ConstraintOraclesStep DEF GroundInv
<1>u. world' = world
  BY DEF CO!Next, CO!Check, CO!Run, CO!Await, CO!ColumnFacts, CO!Connect, CO!Disconnect, CO!Do,
      CO!ForeignKeys, CO!Leave, CO!TenantColumns, CO!UniqueIndexes, CO!Verdict
<1> SUFFICES DOMAIN me'.loc = DOMAIN me.loc
  BY <1>k, <1>u DEF GroundInv, Controlled
<1>g. DOMAIN me = {"at", "todo", "loc", "said", "thrown", "result"}
  BY DEF GroundInv, KeptInv, Shaped
<1> USE <1>g
<1> USE DEF CO!Await, CO!Do, CO!Thrown, CO!To
<1>1. CASE CO!TenantColumns BY <1>1 DEF CO!TenantColumns
<1>2. CASE CO!ColumnFacts BY <1>2 DEF CO!ColumnFacts
<1>3. CASE CO!UniqueIndexes BY <1>3 DEF CO!UniqueIndexes
<1>4. CASE CO!ForeignKeys BY <1>4 DEF CO!ForeignKeys
<1>5. CASE CO!Leave BY <1>5 DEF CO!Leave
<1>6. CASE CO!Connect BY <1>6 DEF CO!Connect
<1>7. CASE CO!Disconnect BY <1>7 DEF CO!Disconnect, CO!Verdict
<1> QED BY <1>1, <1>2, <1>3, <1>4, <1>5, <1>6, <1>7 DEF CO!Next, CO!Check, CO!Run

LEMMA CreateGrantsGround ==
  ASSUME GroundInv, world.guard = "create-grants", CG!Next
  PROVE  GroundInv'
<1>k. KeptInv' BY CreateGrantsStep DEF GroundInv
<1>u. world' = world
  BY DEF CG!Next, CG!Check, CG!Run, CG!Attempt, CG!Await, CG!Concluded, CG!Connect, CG!Context,
      CG!DatabaseGrants, CG!Disconnect, CG!Do, CG!Leave, CG!SchemaGrants, CG!Verdict
<1> SUFFICES DOMAIN me'.loc = DOMAIN me.loc
  BY <1>k, <1>u DEF GroundInv, Controlled
<1>g. DOMAIN me = {"at", "todo", "loc", "said", "thrown", "result"}
  BY DEF GroundInv, KeptInv, Shaped
<1> USE <1>g
<1> USE DEF CG!Do, CG!To
<1>1. CASE CG!Context BY <1>1 DEF CG!Attempt, CG!Context
<1>2. CASE CG!SchemaGrants BY <1>2 DEF CG!Await, CG!SchemaGrants, CG!Thrown
<1>3. CASE CG!DatabaseGrants BY <1>3 DEF CG!Attempt, CG!Concluded, CG!DatabaseGrants
<1>4. CASE CG!Leave BY <1>4 DEF CG!Leave
<1>5. CASE CG!Connect BY <1>5 DEF CG!Connect
<1>6. CASE CG!Disconnect BY <1>6 DEF CG!Disconnect, CG!Verdict
<1> QED BY <1>1, <1>2, <1>3, <1>4, <1>5, <1>6 DEF CG!Next, CG!Check, CG!Run

LEMMA MfaEnforcementGround ==
  ASSUME GroundInv, world.guard = "mfa-enforcement", ME!Next
  PROVE  GroundInv'
<1>k. KeptInv' BY MfaEnforcementStep DEF GroundInv
<1>u. world' = world
  BY DEF ME!Next, ME!Check, ME!Run, ME!Attempt, ME!Await, ME!ClassifyCoverage, ME!Connect,
      ME!Disconnect, ME!Do, ME!Judged, ME!Leave, ME!ReadPolicies, ME!RoleMembers, ME!TenantTables, ME!Verdict,
      ME!VerifiedFactors
<1> SUFFICES DOMAIN me'.loc = DOMAIN me.loc
  BY <1>k, <1>u DEF GroundInv, Controlled
<1>g. DOMAIN me = {"at", "todo", "loc", "said", "thrown", "result"}
  BY DEF GroundInv, KeptInv, Shaped
<1> USE <1>g
<1> USE DEF ME!Attempt, ME!Do, ME!To
<1>1. CASE ME!ReadPolicies BY <1>1 DEF ME!Await, ME!ReadPolicies, ME!Thrown
<1>2. CASE ME!RoleMembers
  <2>1. \/ me' = ME!To("factors")
        \/ me' = [ME!To("factors") EXCEPT !.loc.members = TRUE]
    BY <1>2, Zenon DEF ME!RoleMembers
  <2>2. CASE me' = ME!To("factors") BY <2>2
  <2>3. CASE me' = [ME!To("factors") EXCEPT !.loc.members = TRUE] BY <2>3
  <2> QED BY <2>1, <2>2, <2>3
<1>3. CASE ME!VerifiedFactors
  <2> DEFINE some == world.factors = "some"
  <2>1. \/ me' = ME!To("tables")
        \/ me' = ME!Ending(me, "skip")
        \/ me' = [ME!To("tables") EXCEPT !.loc.factors = some]
    BY <1>3, Zenon DEF ME!VerifiedFactors
  <2> HIDE DEF some
  <2>2. CASE me' = ME!To("tables") BY <2>2
  <2>3. CASE me' = ME!Ending(me, "skip") BY <2>3 DEF ME!Ending
  <2>4. CASE me' = [ME!To("tables") EXCEPT !.loc.factors = some] BY <2>4
  <2> QED BY <2>1, <2>2, <2>3, <2>4
<1>4. CASE ME!TenantTables BY <1>4 DEF ME!ClassifyCoverage, ME!Judged, ME!TenantTables
<1>5. CASE ME!Leave BY <1>5 DEF ME!Leave
<1>6. CASE ME!Connect BY <1>6 DEF ME!Connect
<1>7. CASE ME!Disconnect BY <1>7 DEF ME!Disconnect, ME!Verdict
<1> QED BY <1>1, <1>2, <1>3, <1>4, <1>5, <1>6, <1>7 DEF ME!Next, ME!Check, ME!Run

LEMMA ShadowTablesGround ==
  ASSUME GroundInv, world.guard = "shadow-tables", SH!Next
  PROVE  GroundInv'
<1>k. KeptInv' BY ShadowTablesStep DEF GroundInv
<1>u. world' = world
  BY DEF SH!Next, SH!Check, SH!Run, SH!Await, SH!Connect, SH!Destinations, SH!Disconnect, SH!Do,
      SH!Leave, SH!TenantTables, SH!Triggers, SH!Verdict
<1> SUFFICES DOMAIN me'.loc = DOMAIN me.loc
  BY <1>k, <1>u DEF GroundInv, Controlled
<1>g. DOMAIN me = {"at", "todo", "loc", "said", "thrown", "result"}
  BY DEF GroundInv, KeptInv, Shaped
<1> USE <1>g
<1> USE DEF SH!Await, SH!Do, SH!Thrown, SH!To
<1>1. CASE SH!TenantTables BY <1>1 DEF SH!Ending, SH!TenantTables
<1>2. CASE SH!Triggers BY <1>2 DEF SH!Ending, SH!Triggers
<1>3. CASE SH!Destinations BY <1>3 DEF SH!Destinations
<1>4. CASE SH!Leave BY <1>4 DEF SH!Leave
<1>5. CASE SH!Connect BY <1>5 DEF SH!Connect
<1>6. CASE SH!Disconnect BY <1>6 DEF SH!Disconnect, SH!Verdict
<1> QED BY <1>1, <1>2, <1>3, <1>4, <1>5, <1>6 DEF SH!Next, SH!Check, SH!Run

LEMMA PoolerBleedGround ==
  ASSUME GroundInv, world.guard = "pooler-bleed", PB!Next
  PROVE  GroundInv'
<1>k. KeptInv' BY PoolerBleedStep DEF GroundInv
<1>u. world' = world
  BY DEF PB!Next, PB!Check, PB!Run, PB!Attempt, PB!Await, PB!Connect, PB!Demonstrated,
      PB!Disconnect, PB!Do, PB!Explored, PB!FunctionBodies, PB!GaveUp, PB!Leave, PB!LookForPersistent,
      PB!LookTransient, PB!PolicyFunctions, PB!PolicyGucs, PB!ScanSources, PB!SetPersistent, PB!SetTransient,
      PB!Unset, PB!Verdict, PB!Walked
<1> SUFFICES DOMAIN me'.loc = DOMAIN me.loc
  BY <1>k, <1>u DEF GroundInv, Controlled
<1>g. DOMAIN me = {"at", "todo", "loc", "said", "thrown", "result"}
  BY DEF GroundInv, KeptInv, Shaped
<1> USE <1>g
<1> USE DEF PB!Attempt, PB!Do, PB!Said, PB!To
<1>1. CASE PB!PolicyGucs
  <2> DEFINE found == {k \in PB!Gucs : PB!T(k).depth = 0}
  <2>1. \/ me' = PB!Thrown
        \/ me' = [PB!To("functions") EXCEPT !.loc.found = found]
    BY <1>1, Zenon DEF PB!PolicyGucs, PB!Await
  <2> HIDE DEF found
  <2>2. CASE me' = PB!Thrown BY <2>2 DEF PB!Thrown
  <2>3. CASE me' = [PB!To("functions") EXCEPT !.loc.found = found] BY <2>3
  <2> QED BY <2>1, <2>2, <2>3
<1>2. CASE PB!PolicyFunctions
  <2>w. ASSUME NEW m, DOMAIN m = DOMAIN me, DOMAIN m.loc = DOMAIN me.loc
        PROVE  DOMAIN PB!Walked(m).loc = DOMAIN me.loc
    BY <2>w DEF PB!Walked, PB!Ending
  <2>g. DOMAIN PB!GaveUp.loc = DOMAIN me.loc
    <3>1. DOMAIN [PB!Said(me, 0, "functions", "note") EXCEPT !.loc.frontier = {}] = DOMAIN me OBVIOUS
    <3>2. DOMAIN [PB!Said(me, 0, "functions", "note") EXCEPT !.loc.frontier = {}].loc = DOMAIN me.loc OBVIOUS
    <3> QED BY <2>w, <3>1, <3>2 DEF PB!GaveUp
  <2>e. ASSUME NEW B PROVE DOMAIN PB!Explored(B) = DOMAIN me /\ DOMAIN PB!Explored(B).loc = DOMAIN me.loc
    BY DEF PB!Explored
  <2>1. me' = PB!Walked(PB!Explored({k \in PB!Gucs : PB!T(k).depth > 0})) \/ me' = PB!GaveUp
    BY <1>2, Zenon DEF PB!PolicyFunctions
  <2> QED BY <2>1, <2>w, <2>e, <2>g
<1>3. CASE PB!FunctionBodies
  <2>w. ASSUME NEW m, DOMAIN m = DOMAIN me, DOMAIN m.loc = DOMAIN me.loc
        PROVE  DOMAIN PB!Walked(m).loc = DOMAIN me.loc
    BY <2>w DEF PB!Walked, PB!Ending
  <2>g. DOMAIN PB!GaveUp.loc = DOMAIN me.loc
    <3>1. DOMAIN [PB!Said(me, 0, "functions", "note") EXCEPT !.loc.frontier = {}] = DOMAIN me OBVIOUS
    <3>2. DOMAIN [PB!Said(me, 0, "functions", "note") EXCEPT !.loc.frontier = {}].loc = DOMAIN me.loc OBVIOUS
    <3> QED BY <2>w, <3>1, <3>2 DEF PB!GaveUp
  <2>e. ASSUME NEW B PROVE DOMAIN PB!Explored(B) = DOMAIN me /\ DOMAIN PB!Explored(B).loc = DOMAIN me.loc
    BY DEF PB!Explored
  <2>1. \/ me' = PB!Walked(PB!Explored(me.loc.frontier)) \/ me' = PB!GaveUp
        \/ me' = PB!Walked([me EXCEPT !.loc.frontier = {}])
    BY <1>3, Zenon DEF PB!FunctionBodies
  <2>2. DOMAIN [me EXCEPT !.loc.frontier = {}] = DOMAIN me /\ DOMAIN [me EXCEPT !.loc.frontier = {}].loc = DOMAIN me.loc
    OBVIOUS
  <2> QED BY <2>1, <2>2, <2>w, <2>e, <2>g
<1>4. CASE PB!ScanSources BY <1>4 DEF PB!ScanSources
<1>5. CASE PB!SetPersistent
  <2>p. PICK b : PB!Attempt("set", FALSE, pg, [PB!To("look") EXCEPT !.loc.set = {b}], PB!Demonstrated)
    BY <1>5 DEF PB!SetPersistent
  <2> DEFINE set == {b}
  <2>1. \/ me' = PB!Demonstrated
        \/ me' = [PB!To("look") EXCEPT !.loc.set = set]
    BY <2>p, Zenon DEF PB!SetPersistent
  <2> HIDE DEF set
  <2>2. CASE me' = PB!Demonstrated BY <2>2 DEF PB!Demonstrated
  <2>3. CASE me' = [PB!To("look") EXCEPT !.loc.set = set] BY <2>3
  <2> QED BY <2>1, <2>2, <2>3
<1>6. CASE PB!LookForPersistent
  <2>p. PICK b : PB!Attempt("look", FALSE, pg, [PB!To("local") EXCEPT !.loc.survived = b \in me.loc.set], PB!Demonstrated)
    BY <1>6 DEF PB!LookForPersistent
  <2> DEFINE survived == b \in me.loc.set
  <2>1. \/ me' = PB!Demonstrated
        \/ me' = [PB!To("local") EXCEPT !.loc.survived = survived]
    BY <2>p, Zenon DEF PB!LookForPersistent
  <2> HIDE DEF survived
  <2>2. CASE me' = PB!Demonstrated BY <2>2 DEF PB!Demonstrated
  <2>3. CASE me' = [PB!To("local") EXCEPT !.loc.survived = survived] BY <2>3
  <2> QED BY <2>1, <2>2, <2>3
<1>7. CASE PB!SetTransient BY <1>7 DEF PB!Demonstrated, PB!SetTransient
<1>8. CASE PB!LookTransient BY <1>8 DEF PB!Demonstrated, PB!LookTransient
<1>9. CASE PB!Unset
  <2>p. PICK b : PB!Attempt("unset", FALSE, pg, [PB!Demonstrated EXCEPT !.loc.set = @ \ {b}], PB!Demonstrated)
    BY <1>9 DEF PB!Unset
  <2> DEFINE set == PB!Demonstrated.loc.set \ {b}
  <2>1. \/ me' = PB!Demonstrated
        \/ me' = [PB!Demonstrated EXCEPT !.loc.set = set]
    BY <2>p, Zenon DEF PB!Unset
  <2> HIDE DEF set
  <2>2. CASE me' = PB!Demonstrated BY <2>2 DEF PB!Demonstrated
  <2>3. CASE me' = [PB!Demonstrated EXCEPT !.loc.set = set] BY <2>3 DEF PB!Demonstrated
  <2> QED BY <2>1, <2>2, <2>3
<1>10. CASE PB!Leave BY <1>10 DEF PB!Leave
<1>11. CASE PB!Connect BY <1>11 DEF PB!Connect
<1>12. CASE PB!Disconnect BY <1>12 DEF PB!Disconnect, PB!Verdict
<1> QED BY <1>1, <1>2, <1>3, <1>4, <1>5, <1>6, <1>7, <1>8, <1>9, <1>10, <1>11, <1>12 DEF PB!Next, PB!Check, PB!Run

LEMMA FaultGround == ASSUME GroundInv, Drop \/ Cancel PROVE GroundInv'
<1>k. KeptInv' BY FaultStep DEF GroundInv
<1>u. /\ world' = world /\ me' = me
      /\ pg'.st \notin {"idle", "open"}
  BY DEF Drop, Cancel, Closed, Failed, GroundInv, KeptInv, Shaped
<1> QED BY <1>k, <1>u DEF GroundInv, Grounded, Controlled, Doomed, Barred, Checking, Live

LEMMA GroundStep == GroundInv /\ [Next]_vars => GroundInv'
<1> SUFFICES ASSUME GroundInv, [Next]_vars PROVE GroundInv'
  OBVIOUS
<1>1. CASE Guard
  BY <1>1, AnonReadsGround, AnonWritesGround, ViewIsolationGround, StorageIsolationGround, RealtimeIsolationGround,
      DefinerRpcGround, IdentityTrustGround, ColumnExposureGround, TriggerVisibilityGround, SchemaTenancyGround,
      DefaultPrivilegesGround, CrossTenantFkGround, RoleCapabilitiesGround, ConstraintOraclesGround,
      CreateGrantsGround, MfaEnforcementGround, ShadowTablesGround, PoolerBleedGround
     DEF Guard
<1>2. CASE Drop \/ Cancel BY <1>2, FaultGround
<1>3. CASE UNCHANGED vars
  <2>k. KeptInv' BY <1>3, KeptStep DEF GroundInv
  <2>u. pg' = pg /\ me' = me /\ world' = world BY <1>3 DEF vars
  <2> QED BY <2>k, <2>u DEF GroundInv, Grounded, Controlled, Doomed, Barred, Checking, Live
<1> QED BY <1>1, <1>2, <1>3 DEF Next

\* A guard that checks itself with a canary proves nothing isolated in a role
\* that row level security does not bind: it refuses, or no probe answers, also
\* when the canary could not be made and when a statement was cancelled.
THEOREM GreenGuardsAreControlled == Spec => []GreenIsControlled
<1>1. GroundInv => GreenIsControlled
  BY DEF GroundInv, Grounded, GreenIsControlled, Answered
<1> QED BY <1>1, GroundInit, GroundStep, PTL DEF Spec
=============================================================================
