--------------------------- MODULE RlsProofTheorems ---------------------------
(***************************************************************************)
(* Proofs about the rls-proof guard, for any set of tables, tenants, rows, *)
(* policies and configurations, any number of commits of other sessions    *)
(* and any number of lost connections. First that the guard does no harm   *)
(* and asks as it claims: what the statements of PgSession preserve,       *)
(* TypeOK, that nothing is committed and every probe is undone, and that   *)
(* every measurement is taken by the tenant it is attributed to. Then what *)
(* a verdict rests on: a green report on a negative control and a complete *)
(* sampling pass, a proven table on row level security that binds the app  *)
(* role, and every planned table on an answer. Last that the verdicts are  *)
(* true: a reported leak is one, and a proven table isolates its tenants.  *)
(***************************************************************************)
EXTENDS RlsProofProperties, FiniteSetTheorems, SequenceTheorems, TLAPS

-----------------------------------------------------------------------------
(* The session: what every statement of PgSession preserves. It stays in   *)
(* its type and holds finitely many rows. The proofs about the guard cite  *)
(* one lemma per statement the guard sends.                                *)

\* Every count the guards take is the count of a finite set.
FiniteRows ==
  \A t \in Tables :
    /\ IsFiniteSet(committed[t]) /\ IsFiniteSet(work[t])
    /\ \A k \in 1..Len(saves) : IsFiniteSet(saves[k].work[t])

PgInv == PgTypeOK /\ FiniteRows

\* Giving rows another tenant changes no number of rows.
LEMMA RetenantFinite ==
  ASSUME NEW rows, IsFiniteSet(rows), NEW v
  PROVE  IsFiniteSet(Retenant(rows, v))
<1> DEFINE f == [r \in rows |-> [r EXCEPT !.tenant = v]]
<1>1. f \in Surjection(rows, Retenant(rows, v))
  BY DEF Retenant, Surjection
<1>2. QED
  BY <1>1, FS_Surjection

LEMMA RetenantType ==
  ASSUME NEW rows \in SUBSET Row, NEW v \in Tenants \cup {NullTenant}
  PROVE  Retenant(rows, v) \in SUBSET Row
  BY DEF Retenant, Row

\* An UPDATE and a DELETE leave finitely many rows.
LEMMA AfterUpdateType ==
  ASSUME PgInv, NEW t \in Tables, NEW v \in Tenants \cup {NullTenant}, NEW b \in BOOLEAN
  PROVE  AfterUpdate(t, v, b) \in SUBSET Row /\ IsFiniteSet(AfterUpdate(t, v, b))
<1> DEFINE hit == Reach(t, "update", shape[t].upd, b)
<1>1. hit \in SUBSET work[t] /\ work[t] \in SUBSET Row /\ IsFiniteSet(work[t])
  BY DEF Reach, PgInv, PgTypeOK, FiniteRows
<1>2. IsFiniteSet(hit) /\ IsFiniteSet(work[t] \ hit)
  BY <1>1, FS_Subset, FS_Difference
<1>3. IsFiniteSet(Retenant(hit, v)) /\ Retenant(hit, v) \in SUBSET Row
  BY <1>1, <1>2, RetenantFinite, RetenantType
<1>4. IsFiniteSet((work[t] \ hit) \cup Retenant(hit, v))
  BY <1>2, <1>3, FS_Union
<1>5. QED
  BY <1>1, <1>3, <1>4 DEF AfterUpdate

LEMMA AfterDeleteType ==
  ASSUME PgInv, NEW t \in Tables, NEW b \in BOOLEAN
  PROVE  AfterDelete(t, b) \in SUBSET Row /\ IsFiniteSet(AfterDelete(t, b))
<1>1. work[t] \in SUBSET Row /\ IsFiniteSet(work[t])
  BY DEF PgInv, PgTypeOK, FiniteRows
<1>2. AfterDelete(t, b) \in SUBSET work[t]
  BY DEF AfterDelete
<1>3. QED
  BY <1>1, <1>2, FS_Subset

LEMMA AfterInsertType ==
  ASSUME PgInv, NEW t \in Tables, NEW v \in Tenants \cup {NullTenant}, NEW id \in Int
  PROVE  AfterInsert(t, v, id) \in SUBSET Row /\ IsFiniteSet(AfterInsert(t, v, id))
<1>1. work[t] \in SUBSET Row /\ IsFiniteSet(work[t])
  BY DEF PgInv, PgTypeOK, FiniteRows
<1>2. Landed(t, v, id) \in Row
  BY DEF Landed, Row
<1>3. IsFiniteSet(work[t] \cup {Landed(t, v, id)})
  BY <1>1, FS_AddElement
<1>4. QED
  BY <1>1, <1>2, <1>3 DEF AfterInsert

-----------------------------------------------------------------------------
(* The statements.                                                         *)

LEMMA ApplyInv ==
  ASSUME PgInv, NEW t \in Tables, NEW rows \in SUBSET Row, IsFiniteSet(rows), Apply(t, rows)
  PROVE  PgInv'
  BY DEF PgInv, PgTypeOK, FiniteRows, Apply, session

LEMMA FailInv ==
  ASSUME PgInv, Fail
  PROVE  PgInv'
  BY DEF PgInv, PgTypeOK, FiniteRows, Fail

LEMMA BeginInv ==
  ASSUME PgInv, Begin
  PROVE  PgInv'
  BY DEF PgInv, PgTypeOK, FiniteRows, Begin

LEMMA RollbackInv ==
  ASSUME PgInv, Rollback
  PROVE  PgInv'
<1>1. CASE status \in {"open", "aborted"}
  BY <1>1, EmptySeq DEF PgInv, PgTypeOK, FiniteRows, Rollback
<1>2. CASE status \notin {"open", "aborted"}
  BY <1>2 DEF PgInv, PgTypeOK, FiniteRows, Rollback, session
<1>3. QED
  BY <1>1, <1>2

LEMMA EndSessionInv ==
  ASSUME PgInv, EndSession
  PROVE  PgInv'
  BY EmptySeq DEF PgInv, PgTypeOK, FiniteRows, EndSession

LEMMA DropInv ==
  ASSUME PgInv, Drop
  PROVE  PgInv'
  BY EmptySeq, BoundAssumption DEF PgInv, PgTypeOK, FiniteRows, Drop

LEMMA SetSavepointInv ==
  ASSUME PgInv, SetSavepoint
  PROVE  PgInv'
<1> DEFINE sp == [work |-> work, role |-> role, acting |-> acting]
<1>1. sp \in Snapshot /\ saves \in Seq(Snapshot) /\ saves' = Append(saves, sp)
  BY DEF PgInv, PgTypeOK, Snapshot, SetSavepoint
<1>2. /\ saves' \in Seq(Snapshot) /\ Len(saves') = Len(saves) + 1
      /\ \A k \in 1..Len(saves) : saves'[k] = saves[k]
      /\ saves'[Len(saves) + 1] = sp
  BY <1>1, AppendProperties
<1>3. \A t \in Tables, k \in 1..Len(saves') : IsFiniteSet(saves'[k].work[t])
  <2> SUFFICES ASSUME NEW t \in Tables, NEW k \in 1..Len(saves')
               PROVE  IsFiniteSet(saves'[k].work[t])
    OBVIOUS
  <2>1. CASE k \in 1..Len(saves)
    BY <1>2, <2>1 DEF PgInv, FiniteRows
  <2>2. CASE k = Len(saves) + 1
    BY <1>2, <2>2 DEF PgInv, FiniteRows
  <2>3. QED
    BY <1>1, <1>2, <2>1, <2>2, LenProperties
<1>4. QED
  BY <1>2, <1>3 DEF PgInv, PgTypeOK, FiniteRows, SetSavepoint

\* A sequence without its last element.
LEMMA FrontType ==
  ASSUME NEW S, NEW s \in Seq(S), s # <<>>
  PROVE  /\ SubSeq(s, 1, Len(s) - 1) \in Seq(S)
         /\ Len(SubSeq(s, 1, Len(s) - 1)) = Len(s) - 1
         /\ \A k \in 1..Len(s)-1 : SubSeq(s, 1, Len(s) - 1)[k] = s[k]
<1> DEFINE n == Len(s) - 1
<1>1. n \in Nat
  BY EmptySeq, LenProperties
<1>2. n \in Int /\ 1 \in Int
  BY <1>1
<1>3. \A k \in 1..n : s[k] \in S
  BY <1>1, LenProperties, ElementOfSeq
<1> HIDE DEF n
<1>4. /\ SubSeq(s, 1, n) \in Seq(S)
      /\ Len(SubSeq(s, 1, n)) = IF 1 <= n THEN n - 1 + 1 ELSE 0
      /\ \A k \in 1..n - 1 + 1 : SubSeq(s, 1, n)[k] = s[1 + k - 1]
  BY <1>2, <1>3, SubSeqProperties
<1>5. n - 1 + 1 = n /\ (IF 1 <= n THEN n - 1 + 1 ELSE 0) = n
  BY <1>1
<1>6. ASSUME NEW k \in 1..n PROVE SubSeq(s, 1, n)[k] = s[k]
  <2>1. 1 + k - 1 = k
    BY <1>1
  <2>2. SubSeq(s, 1, n)[k] = s[1 + k - 1]
    BY <1>4, <1>5
  <2>3. QED
    BY <2>1, <2>2
<1>7. QED
  BY <1>4, <1>5, <1>6 DEF n

LEMMA UndoSavepointInv ==
  ASSUME PgInv, UndoSavepoint
  PROVE  PgInv'
<1>1. CASE status \in {"open", "aborted"} /\ saves # <<>>
  <2> DEFINE n == Len(saves)
             sp == saves[n]
  <2>1. saves \in Seq(Snapshot) /\ n \in Nat \ {0} /\ sp \in Snapshot
    BY <1>1, EmptySeq, ElementOfSeq DEF PgInv, PgTypeOK
  <2>3. /\ SubSeq(saves, 1, n-1) \in Seq(Snapshot)
        /\ Len(SubSeq(saves, 1, n-1)) = n - 1
        /\ \A k \in 1..n-1 : SubSeq(saves, 1, n-1)[k] = saves[k]
    BY <1>1, <2>1, FrontType
  <2>4. saves' = SubSeq(saves, 1, n-1) /\ work' = sp.work /\ role' = sp.role
        /\ acting' = sp.acting /\ status' = "open"
        /\ UNCHANGED <<shape, committed, others, writes, drops>>
    BY <1>1 DEF UndoSavepoint
  <2>5. PgTypeOK'
    BY <2>1, <2>3, <2>4 DEF PgInv, PgTypeOK, Snapshot
  <2>6. \A t \in Tables : IsFiniteSet(sp.work[t]) /\ IsFiniteSet(committed[t])
    BY <2>1 DEF PgInv, FiniteRows
  <2>7. \A t \in Tables, k \in 1..Len(saves') : IsFiniteSet(saves'[k].work[t])
    BY <2>1, <2>3, <2>4 DEF PgInv, FiniteRows
  <2>8. QED
    BY <2>4, <2>5, <2>6, <2>7 DEF PgInv, FiniteRows
<1>2. CASE ~(status \in {"open", "aborted"} /\ saves # <<>>)
  BY <1>2 DEF UndoSavepoint, PgInv, PgTypeOK, FiniteRows, session
<1>3. QED
  BY <1>1, <1>2

-----------------------------------------------------------------------------
(* The other sessions.                                                     *)

LEMMA PatchedType ==
  ASSUME NEW d \in [Tables -> SUBSET Row], NEW t \in Tables,
         NEW gone, NEW new \in SUBSET Row, IsFiniteSet(new)
  PROVE  /\ Patched(d, t, gone, new) \in [Tables -> SUBSET Row]
         /\ \A u \in Tables : IsFiniteSet(d[u]) => IsFiniteSet(Patched(d, t, gone, new)[u])
<1>1. Patched(d, t, gone, new) \in [Tables -> SUBSET Row]
  BY DEF Patched
<1>2. ASSUME NEW u \in Tables, IsFiniteSet(d[u])
      PROVE  IsFiniteSet(Patched(d, t, gone, new)[u])
  <2>1. IsFiniteSet(d[u] \ gone)
    BY <1>2, FS_Difference
  <2>2. IsFiniteSet((d[u] \ gone) \cup new)
    BY <2>1, FS_Union
  <2>3. QED
    BY <1>2, <2>2 DEF Patched
<1>3. QED
  BY <1>1, <1>2

LEMMA CommitElsewhereInv ==
  ASSUME PgInv, NEW t \in Tables, NEW gone, NEW new \in SUBSET Row, IsFiniteSet(new),
         CommitElsewhere(t, gone, new)
  PROVE  PgInv'
<1> DEFINE n == Len(saves)
           patch(d) == Patched(d, t, gone, new)
<1>1. saves \in Seq(Snapshot) /\ n \in Nat
  BY LenProperties DEF PgInv, PgTypeOK
<1>2a. \A k \in 1..n : saves[k] \in Snapshot
  BY <1>1, ElementOfSeq
<1>2. \A k \in 1..n : saves[k] \in Snapshot /\ saves[k].work \in [Tables -> SUBSET Row]
  BY <1>2a DEF Snapshot
<1>3. \A k \in 1..n : patch(saves[k].work) \in [Tables -> SUBSET Row]
  BY <1>2, PatchedType
<1>4. \A k \in 1..n : [saves[k] EXCEPT !.work = patch(saves[k].work)] \in Snapshot
  BY <1>2, <1>3 DEF Snapshot
<1>5. saves' = [k \in 1..n |-> [saves[k] EXCEPT !.work = patch(saves[k].work)]]
  BY DEF CommitElsewhere
<1>6. saves' \in Seq(Snapshot) /\ Len(saves') = n
  BY <1>1, <1>4, <1>5, SeqDef
<1>7. /\ patch(work) \in [Tables -> SUBSET Row] /\ patch(committed) \in [Tables -> SUBSET Row]
      /\ patch(others) \in [Tables -> SUBSET Row]
  BY PatchedType DEF PgInv, PgTypeOK
<1>8. PgTypeOK'
  BY <1>6, <1>7, BoundAssumption DEF PgInv, PgTypeOK, CommitElsewhere
<1>9. \A u \in Tables : IsFiniteSet(patch(work)[u]) /\ IsFiniteSet(patch(committed)[u])
  BY PatchedType DEF PgInv, PgTypeOK, FiniteRows
<1>10. \A u \in Tables, k \in 1..n : IsFiniteSet(patch(saves[k].work)[u])
  BY <1>2, PatchedType DEF PgInv, FiniteRows
<1>11. \A k \in 1..n : saves'[k].work = patch(saves[k].work)
  BY <1>2, <1>5 DEF Snapshot
<1>12. QED
  BY <1>6, <1>8, <1>9, <1>10, <1>11 DEF PgInv, FiniteRows, CommitElsewhere

LEMMA OtherSessionsInv ==
  ASSUME PgInv, OtherSessions
  PROVE  PgInv'
<1> SUFFICES ASSUME NEW t \in Tables,
                    (\E x \in Tenants : OtherInsert(t, x)) \/ (\E r \in committed[t] : OtherDelete(t, r))
             PROVE  PgInv'
  BY DEF OtherSessions
<1>1. ASSUME NEW x \in Tenants, OtherInsert(t, x) PROVE PgInv'
  <2>1. {[id |-> 10 + writes, tenant |-> x, open |-> TRUE]} \in SUBSET Row
    BY BoundAssumption DEF Row, PgInv, PgTypeOK
  <2>2. QED
    BY <1>1, <2>1, FS_Singleton, CommitElsewhereInv DEF OtherInsert
<1>2. ASSUME NEW r \in committed[t], OtherDelete(t, r) PROVE PgInv'
  BY <1>2, FS_EmptySet, CommitElsewhereInv DEF OtherDelete
<1>3. QED
  BY <1>1, <1>2

-----------------------------------------------------------------------------
(* TypeOK. It needs three facts TypeOK does not say: the counts the guard  *)
(* takes are counts of finite sets, the table in hand is one of the plan,  *)
(* and a probe under way belongs to the statement at the head of the script.*)

InPlan == pc \in {"counts", "probe"} => i \in 1..Len(plan)

ProbeInHand ==
  probe.phase # "idle" =>
    /\ pc = "probe" /\ todo # <<>> /\ Head(todo).op \in ProbeOps
    /\ probe.phase \in {"before", "after"} => Head(todo).op \in InsertOps

TypeInv == PgInv /\ GuardTypeOK /\ InPlan /\ ProbeInHand

-----------------------------------------------------------------------------
(* Operators of the guard.                                                 *)

\* Two planned positions hold tables.
LEMMA PlannedTable ==
  ASSUME TypeInv, i \in 1..Len(plan)
  PROVE  plan[i] \in Tables
  BY ElementOfSeq DEF TypeInv, GuardTypeOK

\* A count of the rows a statement can see is a natural number.
LEMMA CountType ==
  ASSUME PgInv, NEW t \in Tables, NEW rows \in SUBSET work[t]
  PROVE  Cardinality(rows) \in Nat
  BY FS_Subset, FS_CardinalityType DEF PgInv, FiniteRows

LEMMA VisibleCountType ==
  ASSUME PgInv, NEW t \in Tables, NEW x
  PROVE  VisibleCount(t, x) \in Nat /\ CountOf(t, x) \in Nat
<1>1. {r \in Visible(t, cfg.bypass) : r.tenant = x} \in SUBSET work[t]
  BY DEF Visible, Reach
<1>2. {r \in work[t] : r.tenant = x} \in SUBSET work[t]
  OBVIOUS
<1>3. QED
  BY <1>1, <1>2, CountType DEF VisibleCount, CountOf

\* The sampled tenants are finitely many, in a sequence.
LEMMA SamplesType ==
  ASSUME PgInv, NEW t \in Tables, NEW s \in Samples(t)
  PROVE  s \in Seq(Tenants)
<1> DEFINE f == [r \in work[t] |-> r.tenant]
           all == {r.tenant : r \in work[t]}
           k == Cardinality(Present(t))
           n == IF k < SampleLimit THEN k ELSE SampleLimit
<1>1. IsFiniteSet(work[t]) /\ work[t] \in SUBSET Row
  BY DEF PgInv, PgTypeOK, FiniteRows
<1>2. f \in Surjection(work[t], all)
  BY DEF Surjection
<1>3. IsFiniteSet(all)
  BY <1>1, <1>2, FS_Surjection
<1>4. IsFiniteSet(Present(t)) /\ Present(t) \in SUBSET Tenants
  BY <1>1, <1>3, FS_Difference DEF Present, Row
<1>5. k \in Nat
  BY <1>4, FS_CardinalityType
<1>6. n \in Nat
  BY <1>5, SetupAssumption
<1>7. s \in [1..n -> Present(t)]
  BY DEF Samples
<1>8. s \in [1..n -> Tenants]
  BY <1>4, <1>7
<1>9. QED
  BY <1>6, <1>8, SeqDef

\* The plan is a sequence of tables.
LEMMA PlanType ==
  ASSUME NEW p \in PlanTables
  PROVE  p \in Seq(Tables)
<1>1. CatalogOrder \in Seq(Tables) /\ Len(CatalogOrder) \in Nat
      /\ CatalogOrder \in [1..Len(CatalogOrder) -> Tables]
  BY SetupAssumption, LenProperties
<1>2. CatalogOrder \in Surjection(1..Len(CatalogOrder), ToSet(CatalogOrder))
  BY <1>1 DEF Surjection, ToSet
<1>3. IsFiniteSet(ToSet(CatalogOrder))
  BY <1>1, <1>2, FS_Interval, FS_Surjection
<1>4. IsFiniteSet(Planned) /\ Planned \in SUBSET Tables
  BY <1>1, <1>3, FS_Difference DEF Planned, ToSet
<1>5. Cardinality(Planned) \in Nat
  BY <1>4, FS_CardinalityType
<1>6. p \in [1..Cardinality(Planned) -> Tables]
  BY <1>4 DEF PlanTables
<1>7. QED
  BY <1>5, <1>6, SeqDef

LEMMA SeedStatementsType ==
  ASSUME GuardTypeOK
  PROVE  SeedStatements \in Seq(Tenants \X Tables)
<1> DEFINE n == Len(cfg.seedSetup)
<1>1. cfg.seedSetup \in Seq(Tables) /\ n \in Nat /\ 2 * n \in Nat
  BY LenProperties DEF GuardTypeOK, Setup
<1>2. \A k \in 1..n : cfg.seedSetup[k] \in Tables
  BY <1>1, ElementOfSeq
<1>3. SeedPair[1] \in Tenants /\ SeedPair[2] \in Tenants
  BY SetupAssumption
<1>4. \A k \in 1..(2 * n) : k <= n \/ k - n \in 1..n
  BY <1>1
<1>5. SeedStatements \in [1..(2 * n) -> Tenants \X Tables]
  BY <1>1, <1>2, <1>3, <1>4 DEF SeedStatements
<1>6. QED
  BY <1>1, <1>5, SeqDef

\* A list of operations for one tenant is a script.
LEMMA StepsType ==
  ASSUME NEW ops \in Seq(Ops), NEW me \in Tenants, NEW other \in Tenants, NEW base \in Nat
  PROVE  Steps(ops, me, other, base) \in Seq(Step)
<1>1. Len(ops) \in Nat /\ \A k \in 1..Len(ops) : ops[k] \in Ops
  BY LenProperties, ElementOfSeq
<1>2. Steps(ops, me, other, base) \in [1..Len(ops) -> Step]
  BY <1>1 DEF Steps, Step
<1>3. QED
  BY <1>1, <1>2, SeqDef

LEMMA ForeignScriptType ==
  ASSUME TypeInv, NEW t \in Tables, NEW f \in Tenants, SoleTenant(t)
  PROVE  ForeignScript(t, f) \in Seq(Step)
<1>1. tenants[t][1] \in Tenants
  <2>1. tenants[t] \in Seq(Tenants) /\ 1 \in 1..Len(tenants[t])
    BY DEF SoleTenant, TypeInv, GuardTypeOK
  <2>2. QED
    BY <2>1, ElementOfSeq
<1>2. <<"become", "cross", "claim", "wipe">> \in Seq(Ops) /\ <<"become", "cross">> \in Seq(Ops)
  BY DEF Ops
<1>3. QED
  BY <1>1, <1>2, StepsType DEF ForeignScript

LEMMA PairScriptType ==
  ASSUME TypeInv, NEW t \in Tables, Len(tenants[t]) >= 2
  PROVE  PairScript(t) \in Seq(Step)
<1>1. tenants[t][1] \in Tenants /\ tenants[t][2] \in Tenants
  <2>1. tenants[t] \in Seq(Tenants) /\ 1 \in 1..Len(tenants[t]) /\ 2 \in 1..Len(tenants[t])
    BY LenProperties DEF TypeInv, GuardTypeOK
  <2>2. QED
    BY <2>1, ElementOfSeq
<1>2. owned[t][1] \in Nat /\ owned[t][2] \in Nat
  BY DEF TypeInv, GuardTypeOK
<1>3. /\ <<"become", "own", "cross", "claim", "wipe", "move", "insert", "omit", "self">> \in Seq(Ops)
      /\ <<"become", "cross", "claim", "wipe", "move", "insert", "omit">> \in Seq(Ops)
      /\ <<"become", "own", "cross">> \in Seq(Ops)
      /\ <<"become", "cross">> \in Seq(Ops)
  BY DEF Ops
<1>4. QED
  BY <1>1, <1>2, <1>3, StepsType, ConcatProperties DEF PairScript

-----------------------------------------------------------------------------
(* The session's half of the step.                                         *)

LEMMA PgUnchanged ==
  ASSUME PgInv, UNCHANGED pgVars
  PROVE  PgInv'
  BY DEF PgInv, PgTypeOK, FiniteRows, pgVars, session

\* What a seed statement inserts is a row.
LEMMA SeedRowType ==
  ASSUME GuardTypeOK, seedLeft # <<>>
  PROVE  Head(seedLeft)[2] \in Tables /\ SeedRow(Head(seedLeft)) \in Row
<1>1. Head(seedLeft) \in Tenants \X Tables
  BY HeadTailProperties DEF GuardTypeOK
<1>2. QED
  BY <1>1 DEF SeedRow, Row

LEMMA ScriptHead ==
  ASSUME GuardTypeOK, todo # <<>>
  PROVE  Head(todo) \in Step /\ Tail(todo) \in Seq(Step)
  BY HeadTailProperties DEF GuardTypeOK

LEMMA PgStep ==
  ASSUME TypeInv, Next
  PROVE  PgInv'
<1> USE DEF TypeInv
<1>1. ASSUME pc = "probe" PROVE plan[i] \in Tables
  BY <1>1, PlannedTable DEF InPlan
<1>2. ASSUME todo # <<>>
      PROVE  Head(todo).me \in Tenants /\ Head(todo).other \in Tenants
  BY <1>2, ScriptHead DEF Step
<1>3. cfg.bypass \in BOOLEAN
  BY DEF GuardTypeOK, Setup
<1>4. CASE SkipRun \/ StartSampling \/ ReadCanary \/ PassOver \/ StartTable \/ JudgeTable \/ FinishTables
  BY <1>4, PgUnchanged DEF SkipRun, StartSampling, ReadCanary, PassOver, StartTable, TableOther,
                           JudgeTable, FinishTables
<1>5. CASE Connect
  BY <1>5 DEF Connect, PgInv, PgTypeOK, FiniteRows
<1>5a. CASE ConnectFails
  BY <1>5a, BoundAssumption DEF ConnectFails, session, PgInv, PgTypeOK, FiniteRows
<1>6. CASE Close
  BY <1>6, EndSessionInv DEF Close
<1>7. CASE MakePlan
  BY <1>7, PgUnchanged DEF MakePlan
<1>8. CASE BeginProof
  BY <1>8, BeginInv DEF BeginProof
<1>9. CASE SeedOne
  <2> DEFINE t == Head(seedLeft)[2]
             rows == work[t] \cup {SeedRow(Head(seedLeft))}
  <2>1. t \in Tables /\ SeedRow(Head(seedLeft)) \in Row
    BY <1>9, SeedRowType DEF SeedOne
  <2>2. rows \in SUBSET Row /\ IsFiniteSet(rows)
    BY <2>1, FS_AddElement DEF PgInv, PgTypeOK, FiniteRows
  <2>3. Apply(t, rows)
    BY <1>9 DEF SeedOne
  <2>4. QED
    BY <2>1, <2>2, <2>3, ApplyInv
<1>10. CASE SeedFails \/ RefuseVacuousPass \/ Unwind
  BY <1>10, RollbackInv DEF SeedFails, RefuseVacuousPass, Unwind
<1>11. CASE SampleTenants \/ SampleCounts \/ SetUpCanary
  BY <1>11, FailInv, PgUnchanged DEF SampleTenants, SampleCounts, SamplingFails, SetUpCanary
<1>12. CASE SetRole
  BY <1>12, FailInv DEF SetRole, PgInv, PgTypeOK, FiniteRows
<1>13. CASE Become
  BY <1>2, <1>13, FailInv DEF Become, Assumed, Abandon, Now, PgInv, PgTypeOK, FiniteRows
<1>14. CASE CountRows \/ CountBefore \/ CountAfter
  BY <1>14, FailInv, PgUnchanged DEF CountRows, CountBefore, CountAfter, Abandon
<1>15. CASE OpenProbe
  BY <1>15, FailInv, SetSavepointInv DEF OpenProbe, Abandon
<1>16. CASE RunWrite
  <2> DEFINE t == plan[i]
             s == Head(todo)
             v == IF s.op = "claim" THEN s.me ELSE s.other
             after == IF s.op = "wipe" THEN AfterDelete(t, cfg.bypass) ELSE AfterUpdate(t, v, cfg.bypass)
  <2>1. t \in Tables /\ v \in Tenants
    BY <1>1, <1>2, <1>16 DEF RunWrite, In
  <2>2. after \in SUBSET Row /\ IsFiniteSet(after)
    BY <1>3, <2>1, AfterDeleteType, AfterUpdateType
  <2>3. Fail \/ Apply(t, after)
    BY <1>16 DEF RunWrite
  <2>4. QED
    BY <2>1, <2>2, <2>3, FailInv, ApplyInv
<1>17. CASE RunInsert
  <2> DEFINE t == plan[i]
             s == Head(todo)
             v == CASE s.op = "insert" -> s.other [] s.op = "omit" -> NullTenant
                    [] s.op = "self" -> s.me
  <2>1. t \in Tables /\ v \in Tenants \cup {NullTenant}
    BY <1>1, <1>2, <1>17 DEF RunInsert, In, InsertOps
  <2>2. AfterInsert(t, v, 0) \in SUBSET Row /\ IsFiniteSet(AfterInsert(t, v, 0))
    <3> HIDE DEF t, v
    <3>1. 0 \in Int
      OBVIOUS
    <3>2. QED
      BY <2>1, <3>1, AfterInsertType
  <2>3. Fail \/ Apply(t, AfterInsert(t, v, 0))
    BY <1>17 DEF RunInsert
  <2>4. QED
    BY <2>1, <2>2, <2>3, FailInv, ApplyInv
<1>18. CASE UndoProbe
  BY <1>18, UndoSavepointInv DEF UndoProbe
<1>19. CASE Environment
  BY <1>19, OtherSessionsInv, DropInv DEF Environment
<1>20. CASE Finished
  BY <1>20, PgUnchanged DEF Finished, vars
<1>21. QED
  BY <1>4, <1>5, <1>5a, <1>6, <1>7, <1>8, <1>9, <1>10, <1>11, <1>12, <1>13, <1>14, <1>15, <1>16,
     <1>17, <1>18, <1>19, <1>20 DEF Next, Guard

-----------------------------------------------------------------------------
(* The guard's half of the step.                                           *)

LEMMA GuardUnchanged ==
  ASSUME TypeInv, UNCHANGED guardVars
  PROVE  (GuardTypeOK /\ InPlan /\ ProbeInHand)'
  BY DEF TypeInv, GuardTypeOK, InPlan, ProbeInHand, guardVars

\* Up to the tables.
LEMMA PreparationStep ==
  ASSUME TypeInv, SkipRun \/ Connect \/ ConnectFails \/ Close \/ MakePlan \/ BeginProof \/ SeedOne \/ SeedFails
                  \/ StartSampling
  PROVE  (GuardTypeOK /\ InPlan /\ ProbeInHand)'
<1>0. SeedStatements \in Seq(Tenants \X Tables) /\ <<>> \in Seq(Tenants \X Tables)
  BY SeedStatementsType, EmptySeq DEF TypeInv
<1> USE DEF TypeInv, GuardTypeOK, InPlan, ProbeInHand, Places, Results, Goto, Skip, Throws, Report
<1>1. CASE SkipRun
  BY <1>1 DEF SkipRun, StartOther
<1>2. CASE Connect
  BY <1>2 DEF Connect, StartOther
<1>2a. CASE ConnectFails
  BY <1>2a DEF ConnectFails, StartOther
<1>3. CASE Close
  BY <1>3 DEF Close, StartOther
<1>4. CASE MakePlan
  <2>1. plan' \in Seq(Tables)
    BY <1>4, PlanType DEF MakePlan
  <2>2. seedLeft' \in Seq(Tenants \X Tables)
    BY <1>0, <1>4 DEF MakePlan
  <2>3. QED
    BY <1>4, <2>1, <2>2 DEF MakePlan
<1>5. CASE BeginProof
  BY <1>5 DEF BeginProof, StartOther
<1>6. CASE SeedOne
  <2>1. Head(seedLeft)[2] \in Tables /\ SeedRow(Head(seedLeft)) \in Row
        /\ Tail(seedLeft) \in Seq(Tenants \X Tables)
    BY <1>6, SeedRowType, HeadTailProperties DEF SeedOne
  <2>2. QED
    BY <1>6, <2>1 DEF SeedOne
<1>7. CASE SeedFails
  BY <1>7 DEF SeedFails
<1>8. CASE StartSampling
  BY <1>8 DEF StartSampling
<1>9. QED
  BY <1>1, <1>2, <1>2a, <1>3, <1>4, <1>5, <1>6, <1>7, <1>8

LEMMA SeedPairType == SeedPair \in Seq(Tenants)
  BY SetupAssumption, SeqDef

\* Pass 1 and the negative control.
LEMMA ControlStep ==
  ASSUME TypeInv, SampleTenants \/ SampleCounts \/ SetUpCanary \/ SetRole \/ ReadCanary
                  \/ RefuseVacuousPass
  PROVE  (GuardTypeOK /\ InPlan /\ ProbeInHand)'
<1>a. /\ <<>> \in Seq(Tenants)
      /\ tenants \in [Tables -> Seq(Tenants)] /\ owned \in [Tables -> [1..2 -> Nat]]
      /\ plan \in Seq(Tables) /\ Len(plan) \in Nat /\ i \in Nat \ {0}
  BY EmptySeq, LenProperties DEF TypeInv, GuardTypeOK
<1>b. ASSUME i <= Len(plan) PROVE i \in 1..Len(plan) /\ plan[i] \in Tables
  BY <1>a, <1>b, ElementOfSeq
<1>1. CASE SampleTenants
  <2> DEFINE t == plan[i]
  <2>1. t \in Tables /\ i \in 1..Len(plan)
    BY <1>1, <1>b DEF SampleTenants
  <2>2. \A s \in Samples(t) : s \in Seq(Tenants)
    BY <2>1, SamplesType DEF TypeInv
  <2>3. \E s \in Seq(Tenants) : tenants' = [tenants EXCEPT ![t] = s]
    BY <1>a, <1>1, <2>1, <2>2, SeedPairType DEF SampleTenants, SamplingFails
  <2>4. tenants' \in [Tables -> Seq(Tenants)]
    BY <1>a, <2>1, <2>3
  <2>5. owned' = owned /\ unsampled' \in {unsampled, unsampled \cup {t}}
        /\ UNCHANGED <<cfg, plan, seedLeft, seeded, canaryReady, todo, probe, m, result>>
    BY <1>1 DEF SampleTenants, SamplingFails, SamplingOther
  <2>6. \/ pc' = "counts" /\ i' = i
        \/ pc' = "sample" /\ i' = i + 1
    BY <1>1 DEF SampleTenants, SamplingFails, NextSampled, Goto
  <2>7. pc = "sample"
    BY <1>1 DEF SampleTenants
  <2>8. unsampled' \in SUBSET Tables /\ i' \in Nat \ {0} /\ pc' \in Places
    BY <1>a, <2>1, <2>5, <2>6 DEF TypeInv, GuardTypeOK, Places
  <2>9. GuardTypeOK'
    BY <2>4, <2>5, <2>8 DEF TypeInv, GuardTypeOK
  <2>10. InPlan' /\ ProbeInHand'
    BY <2>1, <2>5, <2>6, <2>7 DEF TypeInv, InPlan, ProbeInHand
  <2>11. QED
    BY <2>9, <2>10
<1>2. CASE SampleCounts
  <2> DEFINE t == plan[i]
             counts == <<CountOf(t, tenants[t][1]), CountOf(t, tenants[t][2])>>
  <2>1. t \in Tables
    BY <1>2, PlannedTable DEF SampleCounts, TypeInv, InPlan
  <2>2. tenants' \in {tenants, [tenants EXCEPT ![t] = <<>>]}
    BY <1>2 DEF SampleCounts, SamplingFails
  <2>3. counts \in [1..2 -> Nat]
    <3>1. CountOf(t, tenants[t][1]) \in Nat /\ CountOf(t, tenants[t][2]) \in Nat
      BY <2>1, VisibleCountType DEF TypeInv
    <3>2. QED
      BY <3>1
  <2>4. owned' \in {owned, [owned EXCEPT ![t] = counts]}
    BY <1>2 DEF SampleCounts, SamplingFails
  <2>5. unsampled' \in {unsampled, unsampled \cup {t}} /\ pc' = "sample" /\ i' = i + 1 /\ pc = "counts"
        /\ UNCHANGED <<cfg, plan, seedLeft, seeded, canaryReady, todo, probe, m, result>>
    BY <1>2 DEF SampleCounts, SamplingFails, SamplingOther, NextSampled, Goto
  <2>6. tenants' \in [Tables -> Seq(Tenants)] /\ owned' \in [Tables -> [1..2 -> Nat]]
    <3> HIDE DEF t, counts
    <3>1. QED
      BY <1>a, <2>1, <2>2, <2>3, <2>4
  <2>7. unsampled' \in SUBSET Tables /\ i' \in Nat \ {0} /\ pc' \in Places
    BY <1>a, <2>1, <2>5 DEF TypeInv, GuardTypeOK, Places
  <2>8. GuardTypeOK'
    BY <2>5, <2>6, <2>7 DEF TypeInv, GuardTypeOK
  <2>9. InPlan' /\ ProbeInHand'
    BY <2>1, <2>5 DEF TypeInv, InPlan, ProbeInHand
  <2>10. QED
    BY <2>8, <2>9
<1> USE DEF TypeInv, GuardTypeOK, InPlan, ProbeInHand, Places, Results, Goto, Skip, Throws, Report
<1>3. CASE SetUpCanary
  BY <1>3 DEF SetUpCanary
<1>4. CASE SetRole
  BY <1>4 DEF SetRole, StartOther
<1>5. CASE ReadCanary
  BY <1>5 DEF ReadCanary
<1>6. CASE RefuseVacuousPass
  BY <1>6 DEF RefuseVacuousPass, StartOther
<1>7. QED
  BY <1>1, <1>2, <1>3, <1>4, <1>5, <1>6

\* Recording what was found of a table keeps the result in its type.
LEMMA OutcomeTypes ==
  ASSUME NEW r \in Results, NEW t \in Tables
  PROVE  /\ Note(r, t) \in Results
         /\ Prove(r, t) \in Results
         /\ \A kinds \in SUBSET Kinds : Blame(r, t, kinds) \in Results
<1>1. Note(r, t) \in Results
  BY DEF Note, Results
<1>2. Prove(r, t) \in Results
  BY DEF Prove, Results
<1>3. ASSUME NEW kinds \in SUBSET Kinds PROVE Blame(r, t, kinds) \in Results
  BY DEF Blame, Results
<1>4. QED
  BY <1>1, <1>2, <1>3

\* From one table to the next.
LEMMA TableStep ==
  ASSUME TypeInv, PassOver \/ StartTable \/ JudgeTable \/ FinishTables \/ Unwind
  PROVE  (GuardTypeOK /\ InPlan /\ ProbeInHand)'
<1>a. plan \in Seq(Tables) /\ Len(plan) \in Nat /\ i \in Nat \ {0} /\ result \in Results
  BY LenProperties DEF TypeInv, GuardTypeOK
<1>b. ASSUME i <= Len(plan) PROVE i \in 1..Len(plan) /\ plan[i] \in Tables
  BY <1>a, <1>b, ElementOfSeq
<1>1. CASE PassOver
  <2>1. plan[i] \in Tables /\ pc = "table" /\ pc' = pc /\ i' = i + 1
        /\ UNCHANGED <<cfg, plan, tenants, owned, unsampled, seedLeft, seeded, canaryReady,
                       todo, probe, m>>
    BY <1>1, <1>b DEF PassOver, TableOther
  <2>2. result' \in Results
    <3> DEFINE note == [result EXCEPT !.noted = @ \cup {plan[i]}]
    <3>1. note \in Results
      BY <1>a, <2>1 DEF Results
    <3>2. [note EXCEPT !.scanned = @ \cup {plan[i]}] \in Results
      BY <2>1, <3>1 DEF Results
    <3>3. QED
      BY <1>1, <3>1, <3>2 DEF PassOver
  <2>3. GuardTypeOK'
    BY <1>a, <2>1, <2>2 DEF TypeInv, GuardTypeOK
  <2>4. InPlan' /\ ProbeInHand'
    BY <2>1 DEF TypeInv, InPlan, ProbeInHand
  <2>5. QED
    BY <2>3, <2>4
<1>2. CASE StartTable
  <2> DEFINE t == plan[i]
  <2>1. t \in Tables /\ i \in 1..Len(plan) /\ pc = "table" /\ pc' = "probe" /\ i' = i
        /\ m' = NoMeasure /\ result' = [result EXCEPT !.scanned = @ \cup {t}]
        /\ UNCHANGED <<cfg, plan, tenants, owned, unsampled, seedLeft, seeded, canaryReady, probe>>
    BY <1>2, <1>b DEF StartTable, TableOther, Goto
  <2>2. todo' \in Seq(Step)
    BY <1>2, <2>1, ForeignScriptType, PairScriptType DEF StartTable
  <2>3. result' \in Results
    BY <1>a, <2>1 DEF Results
  <2>4. m' \in Measures
    BY <2>1 DEF NoMeasure, Measures, Answers
  <2>5. probe.phase = "idle"
    BY <2>1 DEF TypeInv, ProbeInHand
  <2>6. GuardTypeOK'
    BY <2>1, <2>2, <2>3, <2>4 DEF TypeInv, GuardTypeOK, Places
  <2>7. InPlan' /\ ProbeInHand'
    BY <2>1, <2>5 DEF InPlan, ProbeInHand
  <2>8. QED
    BY <2>6, <2>7
<1>3. CASE JudgeTable
  <2> DEFINE t == plan[i]
  <2>1. t \in Tables /\ pc = "probe" /\ todo = <<>> /\ pc' = "table" /\ i' = i + 1
        /\ UNCHANGED <<cfg, plan, tenants, owned, unsampled, seedLeft, seeded, canaryReady,
                       todo, probe, m>>
    BY <1>3, PlannedTable DEF JudgeTable, Goto, TypeInv, InPlan
  <2>2. Leaks(m) \in SUBSET Kinds
    BY DEF Leaks, Kinds
  <2>3. JudgeSole(result, t) \in Results
    <3>1. Note(result, t) \in Results /\ Prove(result, t) \in Results
      BY <1>a, <2>1, OutcomeTypes
    <3>2. [Note(result, t) EXCEPT !.readOnly = @ \cup {t}] \in Results
      BY <2>1, <3>1 DEF Results
    <3>3. ASSUME NEW kinds \in SUBSET Kinds PROVE Blame(result, t, kinds) \in Results
      BY <1>a, <2>1, OutcomeTypes
    <3>4. {"read"} \in SUBSET Kinds /\ {"write"} \in SUBSET Kinds
      BY DEF Kinds
    <3>5. QED
      BY <3>1, <3>2, <3>3, <3>4 DEF JudgeSole
  <2>4. JudgePair(result, t) \in Results
    <3>1. Note(result, t) \in Results
      BY <1>a, <2>1, OutcomeTypes
    <3>2. ASSUME NEW r \in {result, Note(result, t)}
          PROVE  /\ Blame(r, t, Leaks(m)) \in Results /\ Prove(r, t) \in Results
                 /\ Note(r, t) \in Results
      <4>1. r \in Results
        BY <1>a, <3>1
      <4>2. QED
        BY <2>1, <2>2, <4>1, OutcomeTypes
    <3>3. QED
      BY <3>1, <3>2 DEF JudgePair
  <2>5. result' \in Results
    BY <1>3, <2>3, <2>4 DEF JudgeTable
  <2>6. GuardTypeOK'
    BY <1>a, <2>1, <2>5 DEF TypeInv, GuardTypeOK, Places
  <2>7. InPlan' /\ ProbeInHand'
    BY <2>1 DEF TypeInv, InPlan, ProbeInHand
  <2>8. QED
    BY <2>6, <2>7
<1>4. CASE FinishTables \/ Unwind
  BY <1>4 DEF FinishTables, Unwind, Report, Goto, StartOther, TypeInv, GuardTypeOK, InPlan,
              ProbeInHand, Places, Results
<1>5. QED
  BY <1>1, <1>2, <1>3, <1>4

-----------------------------------------------------------------------------
(* One statement of a table.                                               *)

\* A step of the probe loop changes at most the script, the probe and the
\* measures; it is enough that these three stay in their types.
LEMMA ProbeFrame ==
  ASSUME TypeInv, ProbeOther, pc = "probe", todo' \in Seq(Step), m' \in Measures,
         probe' \in [phase: Phases, count: Nat, answer: Answers], ProbeInHand'
  PROVE  (GuardTypeOK /\ InPlan /\ ProbeInHand)'
  BY DEF TypeInv, GuardTypeOK, InPlan, ProbeOther

LEMMA AbandonType ==
  ASSUME TypeInv, NEW e, Abandon(e), ProbeOther, pc = "probe", probe.phase = "idle"
  PROVE  (GuardTypeOK /\ InPlan /\ ProbeInHand)'
<1>1. m' \in Measures
  BY DEF Abandon, TypeInv, GuardTypeOK, Measures
<1>2. todo' \in Seq(Step) /\ probe' = probe
  BY EmptySeq DEF Abandon
<1>3. QED
  BY <1>1, <1>2, ProbeFrame DEF TypeInv, GuardTypeOK, ProbeInHand

LEMMA InsertAnswerType ==
  ASSUME NEW op, NEW e
  PROVE  InsertAnswer(op, e) \in Answers
  BY DEF InsertAnswer, Answers

LEMMA WatchedType ==
  ASSUME PgInv, NEW t \in Tables, NEW s
  PROVE  Watched(t, s) \in Nat
  BY VisibleCountType DEF Watched

LEMMA MeasureType ==
  ASSUME GuardTypeOK, NEW n \in Int, Measure(n)
  PROVE  m' \in Measures
<1>1. m \in Measures
  BY DEF GuardTypeOK
<1>2. Larger(m.write, n) \in Nat
  BY <1>1 DEF Larger, Measures
<1>3. m' = [m EXCEPT !.write = Larger(m.write, n)]
  BY DEF Measure
<1>4. QED
  BY <1>1, <1>2, <1>3 DEF Measures

\* Identity and counts.
LEMMA LookStep ==
  ASSUME TypeInv, Become \/ CountRows
  PROVE  (GuardTypeOK /\ InPlan /\ ProbeInHand)'
<1>1. pc = "probe" /\ probe.phase = "idle" /\ todo # <<>> /\ ProbeOther
  BY DEF Become, CountRows, Now
<1>2. ASSUME NEW e, Abandon(e) PROVE (GuardTypeOK /\ InPlan /\ ProbeInHand)'
  BY <1>1, <1>2, AbandonType
<1>3. ASSUME todo' = Tail(todo), m' \in Measures, probe' = probe
      PROVE  (GuardTypeOK /\ InPlan /\ ProbeInHand)'
  <2>1. todo' \in Seq(Step)
    BY <1>1, <1>3, ScriptHead DEF TypeInv
  <2>2. QED
    BY <1>1, <1>3, <2>1, ProbeFrame DEF TypeInv, GuardTypeOK, ProbeInHand
<1>4. CASE Become
  BY <1>2, <1>3, <1>4 DEF Become, TypeInv, GuardTypeOK
<1>5. CASE CountRows
  <2> DEFINE t == plan[i]
  <2>1. t \in Tables
    BY <1>1, PlannedTable DEF TypeInv, InPlan
  <2>2. VisibleCount(t, Head(todo).me) \in Nat /\ VisibleCount(t, Head(todo).other) \in Nat
    BY <2>1, VisibleCountType DEF TypeInv
  <2>3. m' \in Measures \/ Abandon(SelectError(t))
    BY <1>5, <2>2 DEF CountRows, TypeInv, GuardTypeOK, Measures, Larger
  <2>4. (todo' = Tail(todo) /\ probe' = probe) \/ Abandon(SelectError(t))
    BY <1>5 DEF CountRows
  <2>5. QED
    BY <1>2, <1>3, <2>3, <2>4
<1>6. QED
  BY <1>4, <1>5

\* The probes.
LEMMA ProbeStep ==
  ASSUME TypeInv, OpenProbe \/ CountBefore \/ RunWrite \/ RunInsert \/ CountAfter \/ UndoProbe
  PROVE  (GuardTypeOK /\ InPlan /\ ProbeInHand)'
<1> DEFINE t == plan[i]
           s == Head(todo)
<1>1. pc = "probe" /\ todo # <<>> /\ ProbeOther
  BY DEF OpenProbe, CountBefore, RunWrite, RunInsert, CountAfter, UndoProbe, Undoing, Now, In
<1>2. t \in Tables
  BY <1>1, PlannedTable DEF TypeInv, InPlan
<1>3. /\ todo \in Seq(Step) /\ m \in Measures
      /\ probe \in [phase: Phases, count: Nat, answer: Answers]
      /\ NoProbe \in [phase: Phases, count: Nat, answer: Answers] /\ NoProbe.phase = "idle"
  BY DEF TypeInv, GuardTypeOK, NoProbe, Phases, Answers
<1>4. ASSUME NEW p \in Phases PROVE [NoProbe EXCEPT !.phase = p].phase = p
  BY DEF NoProbe
<1>5. pc' = pc
  BY <1>1 DEF ProbeOther
<1>6. CASE OpenProbe
  <2> DEFINE p == IF s.op \in InsertOps THEN "before" ELSE "run"
  <2>1. s.op \in ProbeOps /\ probe.phase = "idle"
    BY <1>6 DEF OpenProbe, Now
  <2>2. ASSUME todo' = todo, m' = m, probe' = [NoProbe EXCEPT !.phase = p]
        PROVE  (GuardTypeOK /\ InPlan /\ ProbeInHand)'
    <3>1. p \in Phases /\ probe' \in [phase: Phases, count: Nat, answer: Answers]
      BY <1>3, <2>2 DEF Phases
    <3>2. probe'.phase = p
      BY <1>4, <2>2, <3>1
    <3>3. ProbeInHand'
      BY <1>1, <1>5, <2>1, <2>2, <3>2 DEF ProbeInHand
    <3>4. QED
      BY <1>1, <1>3, <2>2, <3>1, <3>3, ProbeFrame
  <2>3. QED
    BY <1>1, <1>6, <2>1, <2>2, AbandonType DEF OpenProbe
<1>7. CASE CountBefore
  <2> DEFINE ans == InsertAnswer(s.op, SelectError(t))
             w == Watched(t, s)
  <2>1. ans \in Answers /\ w \in Nat
    BY <1>2, InsertAnswerType, WatchedType DEF TypeInv
  <2>2. todo' = todo /\ m' = m /\ probe.phase = "before"
        /\ probe' \in {[probe EXCEPT !.phase = "caught", !.answer = ans],
                       [probe EXCEPT !.phase = "run", !.count = w]}
    BY <1>7 DEF CountBefore, In
  <2>3. probe' \in [phase: Phases, count: Nat, answer: Answers] /\ probe'.phase \in {"caught", "run"}
    <3> HIDE DEF ans, w
    <3>1. QED
      BY <1>3, <2>1, <2>2 DEF Phases
  <2>4. s.op \in ProbeOps
    BY <2>2 DEF TypeInv, ProbeInHand
  <2>5. ProbeInHand'
    BY <1>1, <1>5, <2>2, <2>3, <2>4 DEF ProbeInHand
  <2>6. QED
    BY <1>1, <1>3, <2>2, <2>3, <2>5, ProbeFrame
<1>8. CASE RunWrite
  <2> DEFINE hit == IF s.op = "wipe" THEN Reach(t, "delete", shape[t].del, cfg.bypass)
                    ELSE Reach(t, "update", shape[t].upd, cfg.bypass)
             n == Cardinality(hit)
  <2>1. n \in Nat
    <3>1. hit \in SUBSET work[t]
      BY DEF Reach
    <3>2. QED
      BY <1>2, <3>1, CountType DEF TypeInv
  <2>2. todo' = todo /\ m' = m /\ probe.phase = "run"
        /\ probe' \in {[probe EXCEPT !.phase = "caught"], [probe EXCEPT !.phase = "undo", !.count = n]}
    BY <1>8 DEF RunWrite, In
  <2>3. probe' \in [phase: Phases, count: Nat, answer: Answers] /\ probe'.phase \in {"undo", "caught"}
    <3> HIDE DEF n
    <3>1. QED
      BY <1>3, <2>1, <2>2 DEF Phases
  <2>4. ProbeInHand'
    BY <1>1, <1>5, <2>2, <2>3 DEF TypeInv, ProbeInHand
  <2>5. QED
    BY <1>1, <1>3, <2>2, <2>3, <2>4, ProbeFrame
<1>9. CASE RunInsert
  <2>1. \A e : InsertAnswer(s.op, e) \in Answers
    BY InsertAnswerType
  <2>2. todo' = todo /\ m' = m /\ probe.phase = "run" /\ s.op \in InsertOps
    BY <1>9 DEF RunInsert, In
  <2>3. \/ \E x \in Answers, p \in {"undo", "caught"} : probe' = [probe EXCEPT !.phase = p, !.answer = x]
        \/ probe' = [probe EXCEPT !.phase = "after"]
    BY <1>9, <2>1 DEF RunInsert, Answers
  <2>4. probe' \in [phase: Phases, count: Nat, answer: Answers]
    BY <1>3, <2>3 DEF Phases
  <2>5. ProbeInHand'
    BY <1>1, <1>5, <2>2 DEF ProbeInHand, ProbeOps
  <2>6. QED
    BY <1>1, <1>3, <2>2, <2>4, <2>5, ProbeFrame
<1>10. CASE CountAfter
  <2>1. todo' = todo /\ m' = m /\ probe.phase = "after"
    BY <1>10 DEF CountAfter, In
  <2>2. s.op \in InsertOps
    BY <2>1 DEF TypeInv, ProbeInHand
  <2>3. \A e, g : InsertAnswer(s.op, e) \in Answers /\ Grew(s.op, g) \in Answers
    BY <2>2, InsertAnswerType DEF Grew, Answers, InsertOps
  <2>4. \E x \in Answers, p \in {"undo", "caught"} : probe' = [probe EXCEPT !.phase = p, !.answer = x]
    BY <1>10, <2>3 DEF CountAfter
  <2>5. probe' \in [phase: Phases, count: Nat, answer: Answers]
    BY <1>3, <2>4 DEF Phases
  <2>6. ProbeInHand'
    BY <1>1, <1>5, <2>1, <2>2 DEF ProbeInHand, ProbeOps
  <2>7. QED
    BY <1>1, <1>3, <2>1, <2>5, <2>6, ProbeFrame
<1>11. CASE UndoProbe
  <2>1. todo' = Tail(todo) /\ probe' = NoProbe
    BY <1>11 DEF UndoProbe
  <2>2. todo' \in Seq(Step)
    BY <1>1, <2>1, ScriptHead DEF TypeInv
  <2>3. m' \in Measures
    <3>1. Answer \in Answers /\ Affected \in Nat
      BY <1>3 DEF Answer, Affected, Answers
    <3>2. s.base \in Nat
      BY <1>1, ScriptHead DEF TypeInv, Step
    <3>3. Record(s)
      BY <1>11 DEF UndoProbe
    <3>4. \/ m' \in {[m EXCEPT !.inserts = @ \cup {Answer}],
                     [m EXCEPT !.orphans = @ \cup {Answer}], [m EXCEPT !.selfIns = Answer]}
          \/ Measure(Affected) \/ Measure(Affected - s.base)
      BY <3>3 DEF Record
    <3>5. Affected \in Int /\ Affected - s.base \in Int
      BY <3>1, <3>2
    <3>6. CASE m' \in {[m EXCEPT !.inserts = @ \cup {Answer}],
                      [m EXCEPT !.orphans = @ \cup {Answer}], [m EXCEPT !.selfIns = Answer]}
      BY <1>3, <3>1, <3>6 DEF Measures
    <3>7. QED
      BY <3>4, <3>5, <3>6, MeasureType DEF TypeInv
  <2>4. ProbeInHand'
    BY <1>3, <2>1 DEF ProbeInHand
  <2>5. QED
    BY <1>1, <1>3, <2>1, <2>2, <2>3, <2>4, ProbeFrame
<1>12. QED
  BY <1>6, <1>7, <1>8, <1>9, <1>10, <1>11

-----------------------------------------------------------------------------
(* The theorem.                                                            *)

LEMMA TypeInit == Init => TypeInv
<1> SUFFICES ASSUME Init PROVE TypeInv
  OBVIOUS
<1>1. cfg \in Setup
  BY InputAssumption DEF Init
<1>2. PICK d \in Databases : shape = d.shape /\ committed = d.rows
  BY DEF Init
<1>3. shape \in [Tables -> Shape] /\ committed \in [Tables -> SUBSET Row]
      /\ \A t \in Tables : IsFiniteSet(committed[t])
  BY <1>2, InputAssumption
<1>4. PgInv
  BY <1>3, EmptySeq, BoundAssumption DEF Init, PgInv, PgTypeOK, FiniteRows
<1>5. /\ plan \in Seq(Tables) /\ tenants \in [Tables -> Seq(Tenants)]
      /\ owned \in [Tables -> [1..2 -> Nat]] /\ seedLeft \in Seq(Tenants \X Tables)
      /\ todo \in Seq(Step)
  BY EmptySeq DEF Init
<1>6. m \in Measures /\ probe \in [phase: Phases, count: Nat, answer: Answers] /\ result \in Results
  BY DEF Init, NoMeasure, Measures, NoProbe, Phases, Answers, NoResult, Results
<1>7. GuardTypeOK /\ InPlan /\ ProbeInHand
  <2>1. InPlan /\ ProbeInHand
    BY DEF Init, InPlan, ProbeInHand, NoProbe
  <2>2. seeded \in [Tables -> SUBSET Row] /\ unsampled \in SUBSET Tables
        /\ i \in Nat \ {0} /\ pc \in Places
    <3>1. seeded = [t \in Tables |-> {}] /\ unsampled = {} /\ i = 1 /\ pc = "start"
      BY DEF Init
    <3>2. QED
      BY <3>1 DEF Places
  <2>3. canaryReady \in BOOLEAN
    BY Zenon DEF Init
  <2>4. QED
    BY <1>1, <1>5, <1>6, <2>1, <2>2, <2>3 DEF GuardTypeOK
<1>8. QED
  BY <1>4, <1>7 DEF TypeInv

LEMMA TypeStep == TypeInv /\ [Next]_vars => TypeInv'
<1> SUFFICES ASSUME TypeInv, [Next]_vars PROVE TypeInv'
  OBVIOUS
<1>1. CASE UNCHANGED vars
  BY <1>1, PgUnchanged, GuardUnchanged DEF vars, TypeInv
<1>2. CASE Next
  <2>1. PgInv'
    BY <1>2, PgStep
  <2>2. (GuardTypeOK /\ InPlan /\ ProbeInHand)'
    BY <1>2, PreparationStep, ControlStep, TableStep, LookStep, ProbeStep, GuardUnchanged
       DEF Next, Guard, Environment, Finished, vars
  <2>3. QED
    BY <2>1, <2>2 DEF TypeInv
<1>3. QED
  BY <1>1, <1>2

\* Every variable of the guard and of its session keeps its type, whatever the
\* tables, policies, rows, configurations and commits of other sessions: in
\* particular what the guard counts stays a number, and the maximum that
\* starts at 0 never goes below it although the baselines are subtracted.
THEOREM TypesKept == Spec => []TypeOK
<1>1. TypeInv => TypeOK
  BY DEF TypeInv, TypeOK, PgInv
<1>2. QED
  BY TypeInit, TypeStep, <1>1, PTL DEF Spec

-----------------------------------------------------------------------------
(* Unharmed: nothing is ever committed.                                    *)

\* Between "begin" and the rollback of the finally block.
InTransaction == {"seed", "sample", "counts", "role", "canary", "table", "probe"}

\* A statement commits on its own only on an idle connection, so it is enough
\* that the guard never sends one from a place where the connection is idle.
HarmlessInv == Unharmed /\ (pc \in InTransaction => status # "idle")

LEMMA HarmlessInit == Init => HarmlessInv
  BY DEF Init, HarmlessInv, Unharmed, InTransaction

LEMMA HarmlessStep == HarmlessInv /\ [Next]_vars => HarmlessInv'
<1> SUFFICES ASSUME HarmlessInv, [Next]_vars PROVE HarmlessInv'
  OBVIOUS
<1> USE DEF HarmlessInv, Unharmed, InTransaction, Goto
<1>1. CASE SkipRun
  BY <1>1 DEF SkipRun, pgVars, session
<1>2. CASE Connect
  BY <1>2 DEF Connect
<1>2a. CASE ConnectFails
  BY <1>2a DEF ConnectFails, session
<1>3. CASE Close
  BY <1>3 DEF Close, EndSession
<1>4. CASE MakePlan
  BY <1>4 DEF MakePlan, pgVars, session
<1>5. CASE BeginProof
  BY <1>5 DEF BeginProof, Begin, SessionError
<1>6. CASE SeedOne
  BY <1>6 DEF SeedOne, Apply, session
<1>7. CASE SeedFails
  BY <1>7 DEF SeedFails, Rollback, session
<1>8. CASE StartSampling
  BY <1>8 DEF StartSampling, pgVars, session
<1>9. CASE SampleTenants
  BY <1>9 DEF SampleTenants, SamplingFails, NextSampled, Fail, pgVars, session
<1>10. CASE SampleCounts
  BY <1>10 DEF SampleCounts, SamplingFails, NextSampled, Fail, pgVars, session
<1>11. CASE SetUpCanary
  BY <1>11 DEF SetUpCanary, Fail, pgVars, session
<1>12. CASE SetRole
  BY <1>12 DEF SetRole, Fail
<1>13. CASE ReadCanary
  BY <1>13 DEF ReadCanary, pgVars, session
<1>14. CASE RefuseVacuousPass
  BY <1>14 DEF RefuseVacuousPass, Rollback, session
<1>15. CASE PassOver
  BY <1>15 DEF PassOver, TableOther, pgVars, session
<1>16. CASE StartTable
  BY <1>16 DEF StartTable, TableOther, pgVars, session
<1>17. CASE Become
  BY <1>17 DEF Become, Now, ProbeOther, Abandon, Fail
<1>18. CASE CountRows
  BY <1>18 DEF CountRows, Now, ProbeOther, Abandon, Fail, pgVars, session
<1>19. CASE OpenProbe
  BY <1>19 DEF OpenProbe, Now, ProbeOther, Abandon, Fail, SetSavepoint
<1>20. CASE CountBefore
  BY <1>20 DEF CountBefore, In, ProbeOther, Fail, pgVars, session
<1>21. CASE RunWrite
  BY <1>21 DEF RunWrite, In, ProbeOther, Fail, Apply, session
<1>22. CASE RunInsert
  BY <1>22 DEF RunInsert, In, ProbeOther, Fail, Apply, session
<1>23. CASE CountAfter
  BY <1>23 DEF CountAfter, In, ProbeOther, Fail, pgVars, session
<1>24. CASE UndoProbe
  BY <1>24 DEF UndoProbe, Undoing, In, ProbeOther, UndoSavepoint, session
<1>25. CASE JudgeTable
  BY <1>25 DEF JudgeTable, pgVars, session
<1>26. CASE FinishTables
  BY <1>26 DEF FinishTables, pgVars, session
<1>27. CASE Unwind
  BY <1>27 DEF Unwind, Rollback, session
<1>28. CASE Environment
  BY <1>28 DEF Environment, OtherSessions, OtherInsert, OtherDelete, CommitElsewhere,
              Drop, guardVars
<1>29. CASE Finished \/ UNCHANGED vars
  BY <1>29 DEF Finished, vars, pgVars, guardVars, session
<1>30. QED
  BY <1>1, <1>2, <1>2a, <1>3, <1>4, <1>5, <1>6, <1>7, <1>8, <1>9, <1>10, <1>11, <1>12, <1>13,
     <1>14, <1>15, <1>16, <1>17, <1>18, <1>19, <1>20, <1>21, <1>22, <1>23, <1>24, <1>25, <1>26, <1>27,
     <1>28, <1>29 DEF Next, Guard

\* rls-proof leaves the database exactly as it found it, on every path through
\* prove(): report, refusal, failed seed, thrown error, lost connection.
THEOREM NothingCommitted == Spec => []Unharmed
<1>1. HarmlessInv => Unharmed
  BY DEF HarmlessInv
<1>2. QED
  BY HarmlessInit, HarmlessStep, <1>1, PTL DEF Spec

-----------------------------------------------------------------------------
(* NoTrace: outside a probe the transaction holds the baseline again.      *)

\* Rows of other sessions and rows of the seed are never the same rows.
ApartFromSeed ==
  \A t \in Tables :
    (\A r \in others[t] : r.id > 0) /\ (\A r \in seeded[t] : r.id < 0)

\* The transaction opens on what is committed.
CleanStart ==
  pc \in {"start", "plan", "begin"} =>
    /\ seeded = [t \in Tables |-> {}]
    /\ status \in {"closed", "idle"} => work = committed /\ saves = <<>>
    /\ pc = "start" => status = "closed"

OpenOnlyInside == status = "open" => pc \in InTransaction \cup {"unwind"}

\* While a probe is under way its savepoint, and no other, holds the baseline:
\* this is what rolling back to it restores, also from an aborted transaction.
Bracketed ==
  status \in {"open", "aborted"} /\ probe.phase # "idle" =>
    /\ Len(saves) = 1
    /\ \A t \in Tables : saves[1].work[t] = Baseline(t)

TraceInv == ApartFromSeed /\ CleanStart /\ OpenOnlyInside /\ Bracketed /\ NoTrace

Strong == TypeInv /\ HarmlessInv /\ TraceInv

LEMMA TraceInit == Init => TraceInv
<1> SUFFICES ASSUME Init PROVE TraceInv
  OBVIOUS
<1>1. PICK d \in Databases : committed = d.rows
  BY DEF Init
<1>2. \A t \in Tables : \A r \in others[t] : r.id > 0
  BY <1>1, InputAssumption DEF Init
<1>3. seeded = [t \in Tables |-> {}] /\ status = "closed" /\ pc = "start"
  BY DEF Init
<1>4. work = committed /\ saves = <<>>
  BY DEF Init
<1>5. QED
  BY <1>2, <1>3, <1>4 DEF TraceInv, ApartFromSeed, CleanStart, OpenOnlyInside, Bracketed, NoTrace

\* A commit of another session shows in the table, in the baseline and in the
\* savepoint alike.
LEMMA CommitElsewhereTrace ==
  ASSUME Strong, NEW t \in Tables, NEW gone, NEW new \in SUBSET Row,
         \A r \in new : r.id > 0, gone \cap seeded[t] = {},
         CommitElsewhere(t, gone, new), UNCHANGED guardVars
  PROVE  TraceInv'
<1>1. /\ committed \in [Tables -> SUBSET Row] /\ others \in [Tables -> SUBSET Row]
      /\ work \in [Tables -> SUBSET Row]
  BY DEF Strong, TypeInv, PgInv, PgTypeOK
<1>2. /\ committed' = Patched(committed, t, gone, new) /\ others' = Patched(others, t, gone, new)
      /\ work' = Patched(work, t, gone, new) /\ status' = status
      /\ UNCHANGED <<pc, probe, seeded>>
  BY DEF CommitElsewhere, guardVars
<1>3. ASSUME NEW d \in [Tables -> SUBSET Row], NEW u \in Tables, d[u] = Baseline(u)
      PROVE  Patched(d, t, gone, new)[u] = Baseline(u)'
  BY <1>1, <1>2, <1>3 DEF Patched, Baseline
<1>4. ApartFromSeed'
  BY <1>1, <1>2 DEF Strong, TraceInv, ApartFromSeed, Patched
<1>5. saves \in Seq(Snapshot) /\ Len(saves) \in Nat
  BY LenProperties DEF Strong, TypeInv, PgInv, PgTypeOK
<1>6. saves' = [k \in 1..Len(saves) |-> [saves[k] EXCEPT !.work = Patched(@, t, gone, new)]]
  BY DEF CommitElsewhere
<1>7. CleanStart'
  <2>1. saves = <<>> => saves' = <<>>
    BY <1>5, <1>6
  <2>2. work = committed => work' = committed'
    BY <1>2
  <2>3. QED
    BY <1>2, <2>1, <2>2 DEF Strong, TraceInv, CleanStart
<1>8. OpenOnlyInside'
  BY <1>2 DEF Strong, TraceInv, OpenOnlyInside
<1>9. Bracketed'
  <2> SUFFICES ASSUME status \in {"open", "aborted"}, probe.phase # "idle"
               PROVE  Len(saves') = 1 /\ \A u \in Tables : saves'[1].work[u] = Baseline(u)'
    BY <1>2 DEF Bracketed
  <2>1. Len(saves) = 1 /\ \A u \in Tables : saves[1].work[u] = Baseline(u)
    BY DEF Strong, TraceInv, Bracketed
  <2>2. saves[1] \in Snapshot
    BY <1>5, <2>1, ElementOfSeq
  <2>3. saves[1].work \in [Tables -> SUBSET Row]
    BY <2>2 DEF Snapshot
  <2>4. saves'[1].work = Patched(saves[1].work, t, gone, new) /\ Len(saves') = 1
    BY <1>6, <2>1, <2>2 DEF Snapshot
  <2>5. QED
    BY <1>3, <2>1, <2>3, <2>4
<1>10. NoTrace'
  <2> SUFFICES ASSUME status = "open", probe.phase = "idle"
               PROVE  saves' = <<>> /\ \A u \in Tables : work'[u] = Baseline(u)'
    BY <1>2 DEF NoTrace
  <2>1. saves = <<>> /\ \A u \in Tables : work[u] = Baseline(u)
    BY DEF Strong, TraceInv, NoTrace
  <2>2. QED
    BY <1>1, <1>2, <1>3, <1>5, <1>6, <2>1
<1>11. QED
  BY <1>4, <1>7, <1>8, <1>9, <1>10 DEF TraceInv

LEMMA EnvironmentTrace ==
  ASSUME Strong, Environment
  PROVE  TraceInv'
<1>1. CASE Drop
  BY <1>1 DEF Environment, Drop, guardVars, Strong, TraceInv, ApartFromSeed, CleanStart,
              OpenOnlyInside, Bracketed, NoTrace, Baseline
<1>2. ASSUME NEW t \in Tables, NEW x \in Tenants, OtherInsert(t, x) PROVE TraceInv'
  <2> DEFINE r == [id |-> 10 + writes, tenant |-> x, open |-> TRUE]
  <2>1. r \in Row /\ r.id > 0
    BY BoundAssumption DEF Row, Strong, TypeInv, PgInv, PgTypeOK
  <2>2. CommitElsewhere(t, {}, {r}) /\ UNCHANGED guardVars
    BY <1>2 DEF OtherInsert, Environment
  <2>3. {r} \in SUBSET Row /\ (\A q \in {r} : q.id > 0) /\ {} \cap seeded[t] = {}
    <3> HIDE DEF r
    <3>1. QED
      BY <2>1
  <2>4. QED
    <3> HIDE DEF r
    <3>1. QED
      BY <2>2, <2>3, CommitElsewhereTrace
<1>3. ASSUME NEW t \in Tables, NEW r \in committed[t], OtherDelete(t, r) PROVE TraceInv'
  <2>1. committed = others
    BY DEF Strong, HarmlessInv, Unharmed
  <2>2. r.id > 0 /\ r \in Row
    BY <2>1 DEF Strong, TraceInv, ApartFromSeed, TypeInv, PgInv, PgTypeOK
  <2>3. r.id \in Int /\ ~(r.id < 0)
    BY <2>2 DEF Row
  <2>4. {r} \cap seeded[t] = {}
    BY <2>3 DEF Strong, TraceInv, ApartFromSeed
  <2>5. CommitElsewhere(t, {r}, {}) /\ UNCHANGED guardVars
    BY <1>3 DEF OtherDelete, Environment
  <2>6. QED
    BY <2>4, <2>5, CommitElsewhereTrace
<1>4. QED
  BY <1>1, <1>2, <1>3 DEF Environment, OtherSessions

\* A step that leaves the session, the seed and the probe alone, and does not
\* leave the transaction.
LEMMA QuietTrace ==
  ASSUME Strong, UNCHANGED <<pgVars, seeded, probe>>,
         pc' \in {"start", "plan", "begin"} => pc' = pc \/ (pc = "plan" /\ pc' = "begin"),
         pc \in InTransaction \cup {"unwind"} => pc' \in InTransaction \cup {"unwind"}
  PROVE  TraceInv'
<1>1. UNCHANGED <<committed, others, work, status, saves, seeded, probe>>
  BY DEF pgVars, session
<1>2. CleanStart' /\ OpenOnlyInside'
  BY <1>1 DEF Strong, TraceInv, CleanStart, OpenOnlyInside
<1>3. ApartFromSeed' /\ Bracketed' /\ NoTrace'
  BY <1>1 DEF Strong, TraceInv, ApartFromSeed, Bracketed, NoTrace, Baseline
<1>4. QED
  BY <1>2, <1>3 DEF TraceInv

\* A failing statement: outside a savepoint nothing is claimed of an aborted
\* transaction, and the savepoint of a probe survives the abort.
LEMMA FailTrace ==
  ASSUME Strong, Fail, UNCHANGED seeded, probe.phase = "idle" <=> probe'.phase = "idle",
         pc \in InTransaction, pc' \notin {"start", "plan", "begin"}
  PROVE  TraceInv'
<1>1. /\ status' # "open" /\ (status' = "aborted" => status \in {"open", "aborted"})
      /\ UNCHANGED <<others, work, saves>>
  BY DEF Fail
<1>2. QED
  BY <1>1 DEF Strong, TraceInv, ApartFromSeed, CleanStart, OpenOnlyInside, Bracketed, NoTrace, Baseline

LEMMA AbandonTrace ==
  ASSUME Strong, NEW e, Abandon(e), pc = "probe", pc' = pc, UNCHANGED seeded
  PROVE  TraceInv'
<1>1. Fail /\ probe' = probe
  BY DEF Abandon
<1>2. pc \in InTransaction /\ pc' \notin {"start", "plan", "begin"}
  BY DEF InTransaction
<1>3. QED
  BY <1>1, <1>2, FailTrace

LEMMA RollbackTrace ==
  ASSUME Strong, Rollback, seeded' \in {seeded, [t \in Tables |-> {}]},
         pc' \in {"unwind", "close"}
  PROVE  TraceInv'
<1>1. status' \notin {"open", "aborted"} /\ UNCHANGED <<others, committed>>
  BY DEF Rollback, session
<1>2. ApartFromSeed'
  BY <1>1 DEF Strong, TraceInv, ApartFromSeed
<1>3. QED
  BY <1>1, <1>2 DEF TraceInv, CleanStart, OpenOnlyInside, Bracketed, NoTrace

\* A statement that succeeds inside a probe.
LEMMA ProbeApplyTrace ==
  ASSUME Strong, NEW t \in Tables, NEW rows, Apply(t, rows), pc = "probe", pc' = pc,
         probe.phase # "idle", probe'.phase # "idle", UNCHANGED seeded
  PROVE  TraceInv'
<1>1. UNCHANGED <<others, status, saves>>
  BY DEF Apply, session
<1>2. QED
  BY <1>1 DEF Strong, TraceInv, ApartFromSeed, CleanStart, OpenOnlyInside, Bracketed, NoTrace, Baseline

LEMMA SeedTrace ==
  ASSUME Strong, SeedOne
  PROVE  TraceInv'
<1> DEFINE t == Head(seedLeft)[2]
           r == SeedRow(Head(seedLeft))
<1>1. t \in Tables /\ r.id < 0
  <2>1. t \in Tables
    BY SeedRowType DEF SeedOne, Strong, TypeInv
  <2>2. QED
    BY <2>1 DEF SeedRow
<1>2. /\ pc = "seed" /\ pc' = pc /\ probe' = probe /\ SessionError = ""
      /\ seeded' = [seeded EXCEPT ![t] = @ \cup {r}]
      /\ Apply(t, work[t] \cup {r})
  BY DEF SeedOne
<1>3. status = "open" /\ probe.phase = "idle"
  BY <1>2 DEF Strong, TypeInv, PgInv, PgTypeOK, ProbeInHand, HarmlessInv, InTransaction, SessionError
<1>4. saves = <<>> /\ \A u \in Tables : work[u] = Baseline(u)
  BY <1>3 DEF Strong, TraceInv, NoTrace
<1>5. /\ work' = [work EXCEPT ![t] = work[t] \cup {r}]
      /\ UNCHANGED <<others, status, saves>>
  BY <1>2 DEF Apply, session
<1>6. seeded \in [Tables -> SUBSET Row] /\ work \in [Tables -> SUBSET Row]
  BY DEF Strong, TypeInv, GuardTypeOK, PgInv, PgTypeOK
<1> HIDE DEF t, r
<1>7. ApartFromSeed'
  BY <1>1, <1>2, <1>5, <1>6 DEF Strong, TraceInv, ApartFromSeed
<1>8. NoTrace'
  BY <1>1, <1>2, <1>4, <1>5, <1>6 DEF NoTrace, Baseline
<1>9. QED
  BY <1>2, <1>3, <1>5, <1>7, <1>8 DEF TraceInv, CleanStart, OpenOnlyInside, Bracketed, InTransaction

LEMMA OpenProbeTrace ==
  ASSUME Strong, OpenProbe
  PROVE  TraceInv'
<1>1. pc = "probe" /\ probe.phase = "idle" /\ pc' = pc /\ seeded' = seeded
  BY DEF OpenProbe, Now, ProbeOther
<1>2. CASE SessionError # ""
  BY <1>1, <1>2, AbandonTrace DEF OpenProbe
<1>3. CASE SessionError = ""
  <2>1. status = "open"
    BY <1>1, <1>3 DEF Strong, TypeInv, PgInv, PgTypeOK, HarmlessInv, InTransaction, SessionError
  <2>2. saves = <<>> /\ \A u \in Tables : work[u] = Baseline(u)
    BY <1>1, <2>1 DEF Strong, TraceInv, NoTrace
  <2>3. SetSavepoint /\ probe'.phase # "idle"
    BY <1>3 DEF OpenProbe, NoProbe
  <2>4. UNCHANGED <<others, status, work>> /\ saves' = <<[work |-> work, role |-> role, acting |-> acting]>>
    BY <2>2, <2>3 DEF SetSavepoint
  <2>5. Len(saves') = 1 /\ saves'[1].work = work
    BY <2>4
  <2>6. QED
    BY <1>1, <2>1, <2>2, <2>3, <2>4, <2>5
       DEF Strong, TraceInv, ApartFromSeed, CleanStart, OpenOnlyInside, Bracketed, NoTrace, Baseline
<1>4. QED
  BY <1>2, <1>3

LEMMA UndoProbeTrace ==
  ASSUME Strong, UndoProbe
  PROVE  TraceInv'
<1>1. /\ pc = "probe" /\ probe.phase \in {"undo", "caught"} /\ pc' = pc /\ probe'.phase = "idle"
      /\ UNCHANGED <<seeded, others>>
  BY DEF UndoProbe, Undoing, In, ProbeOther, NoProbe, UndoSavepoint
<1>2. CASE status \in {"open", "aborted"}
  <2>1. Len(saves) = 1 /\ \A u \in Tables : saves[1].work[u] = Baseline(u)
    BY <1>1, <1>2 DEF Strong, TraceInv, Bracketed
  <2>2. saves \in Seq(Snapshot) /\ saves # <<>>
    BY <2>1 DEF Strong, TypeInv, PgInv, PgTypeOK
  <2>3. work' = saves[1].work /\ status' = "open" /\ saves' = SubSeq(saves, 1, 0)
    BY <1>2, <2>1, <2>2 DEF UndoProbe, UndoSavepoint
  <2>4. saves' = <<>>
    BY <2>2, <2>3
  <2>5. QED
    BY <1>1, <2>1, <2>3, <2>4
       DEF Strong, TraceInv, ApartFromSeed, CleanStart, OpenOnlyInside, Bracketed, NoTrace, Baseline,
           InTransaction
<1>3. CASE status \notin {"open", "aborted"}
  <2>1. status' = status
    BY <1>3 DEF UndoProbe, UndoSavepoint, session
  <2>2. QED
    BY <1>1, <1>3, <2>1
       DEF Strong, TraceInv, ApartFromSeed, CleanStart, OpenOnlyInside, Bracketed, NoTrace
<1>4. QED
  BY <1>2, <1>3

LEMMA TraceStep ==
  ASSUME Strong, [Next]_vars
  PROVE  TraceInv'
<1> USE DEF Goto
<1>1. CASE SkipRun \/ StartSampling \/ ReadCanary \/ PassOver \/ StartTable \/ JudgeTable
           \/ FinishTables \/ Finished \/ UNCHANGED vars
  BY <1>1, QuietTrace DEF SkipRun, StartOther, StartSampling, ReadCanary, PassOver, StartTable,
     TableOther, JudgeTable, FinishTables, Finished, vars, guardVars, InTransaction
<1>2. CASE Connect
  <2>1. pc = "start" /\ pc' = "plan" /\ status' = "idle"
        /\ UNCHANGED <<committed, others, work, saves, seeded, probe>>
    BY <1>2 DEF Connect, StartOther
  <2>2. work = committed /\ saves = <<>>
    BY <2>1 DEF Strong, TraceInv, CleanStart
  <2>3. QED
    BY <2>1, <2>2 DEF Strong, TraceInv, ApartFromSeed, CleanStart, OpenOnlyInside, Bracketed, NoTrace
<1>2a. CASE ConnectFails
  BY <1>2a DEF ConnectFails, StartOther, session, Strong, TraceInv, ApartFromSeed, CleanStart,
               OpenOnlyInside, Bracketed, NoTrace, Baseline
<1>3. CASE Close
  BY <1>3 DEF Close, EndSession, StartOther, Strong, TraceInv, ApartFromSeed, CleanStart,
              OpenOnlyInside, Bracketed, NoTrace
<1>4. CASE MakePlan
  BY <1>4, QuietTrace DEF MakePlan, InTransaction
<1>5. CASE BeginProof
  <2>1. pc = "begin" /\ pc' \in {"seed", "close"} /\ seeded = [t \in Tables |-> {}]
        /\ UNCHANGED <<committed, others, work, saves, seeded, probe>>
    BY <1>5 DEF BeginProof, Begin, StartOther, Strong, TraceInv, CleanStart
  <2>2. status # "open"
    BY <2>1 DEF Strong, TraceInv, OpenOnlyInside, InTransaction
  <2>3. status' = "open" => status = "idle" /\ pc' = "seed"
    BY <1>5, <2>2 DEF BeginProof, Begin, SessionError
  <2>4. status' = "open" => work = committed /\ saves = <<>>
    BY <2>1, <2>3 DEF Strong, TraceInv, CleanStart
  <2>5. probe.phase = "idle" /\ committed = others
    BY <2>1 DEF Strong, TypeInv, ProbeInHand, HarmlessInv, Unharmed
  <2>6. QED
    BY <2>1, <2>3, <2>4, <2>5
       DEF Strong, TraceInv, ApartFromSeed, CleanStart, OpenOnlyInside, Bracketed, NoTrace, Baseline,
           InTransaction
<1>6. CASE SeedOne
  BY <1>6, SeedTrace
<1>7. CASE SeedFails \/ RefuseVacuousPass \/ Unwind
  BY <1>7, RollbackTrace DEF SeedFails, RefuseVacuousPass, Unwind, StartOther
<1>8. CASE SampleTenants \/ SampleCounts
  <2>1. pc \in InTransaction /\ pc' \in InTransaction /\ UNCHANGED <<seeded, probe>>
    BY <1>8 DEF SampleTenants, SampleCounts, SamplingOther, SamplingFails, NextSampled, InTransaction
  <2>2. Fail \/ UNCHANGED pgVars
    BY <1>8 DEF SampleTenants, SampleCounts, SamplingFails
  <2>3. QED
    BY <2>1, <2>2, FailTrace, QuietTrace DEF InTransaction
<1>9. CASE SetUpCanary
  <2>1. pc = "sample" /\ pc' = "role" /\ UNCHANGED <<seeded, probe>> /\ (Fail \/ UNCHANGED pgVars)
    BY <1>9 DEF SetUpCanary
  <2>2. QED
    BY <2>1, FailTrace, QuietTrace DEF InTransaction
<1>10. CASE SetRole
  <2>1. pc = "role" /\ pc' \in {"canary", "unwind"} /\ UNCHANGED <<seeded, probe>>
    BY <1>10 DEF SetRole, StartOther
  <2>2. Fail \/ (UNCHANGED <<committed, others, work, status, saves>> /\ pc' = "canary")
    BY <1>10 DEF SetRole
  <2>3. CASE Fail
    BY <2>1, <2>3, FailTrace DEF InTransaction
  <2>4. CASE UNCHANGED <<committed, others, work, status, saves>> /\ pc' = "canary"
    BY <2>1, <2>4 DEF Strong, TraceInv, ApartFromSeed, CleanStart, OpenOnlyInside, Bracketed,
                      NoTrace, Baseline, InTransaction
  <2>5. QED
    BY <2>2, <2>3, <2>4
<1>11. CASE Become
  <2>1. pc = "probe" /\ pc' = pc /\ UNCHANGED seeded
    BY <1>11 DEF Become, Now, ProbeOther
  <2>2. \/ Abandon(BecomeError)
        \/ UNCHANGED <<committed, others, work, status, saves, probe>>
    BY <1>11 DEF Become
  <2>3. QED
    BY <2>1, <2>2, AbandonTrace
       DEF Strong, TraceInv, ApartFromSeed, CleanStart, OpenOnlyInside, Bracketed, NoTrace, Baseline
<1>12. CASE CountRows
  <2>1. pc = "probe" /\ pc' = pc /\ UNCHANGED seeded
    BY <1>12 DEF CountRows, Now, ProbeOther
  <2>2. Abandon(SelectError(plan[i])) \/ UNCHANGED <<pgVars, probe>>
    BY <1>12 DEF CountRows
  <2>3. QED
    BY <2>1, <2>2, AbandonTrace, QuietTrace
<1>13. CASE OpenProbe
  BY <1>13, OpenProbeTrace
<1>14. CASE CountBefore \/ CountAfter
  <2>1. pc = "probe" /\ pc' = pc /\ UNCHANGED seeded /\ probe.phase # "idle"
    BY <1>14 DEF CountBefore, CountAfter, In, ProbeOther
  <2>2. probe \in [phase: Phases, count: Nat, answer: Answers]
    BY DEF Strong, TypeInv, GuardTypeOK
  <2>3. probe'.phase # "idle"
    BY <1>14, <2>2 DEF CountBefore, CountAfter
  <2>4. CASE Fail
    BY <2>1, <2>3, <2>4, FailTrace DEF InTransaction
  <2>5. CASE UNCHANGED pgVars
    BY <2>1, <2>3, <2>5 DEF Strong, TraceInv, ApartFromSeed, CleanStart, OpenOnlyInside, Bracketed,
                            NoTrace, Baseline, pgVars, session
  <2>6. QED
    BY <1>14, <2>4, <2>5 DEF CountBefore, CountAfter
<1>15. CASE RunWrite \/ RunInsert
  <2>1. pc = "probe" /\ pc' = pc /\ UNCHANGED seeded /\ probe.phase # "idle"
    BY <1>15 DEF RunWrite, RunInsert, In, ProbeOther
  <2>2. probe \in [phase: Phases, count: Nat, answer: Answers]
    BY DEF Strong, TypeInv, GuardTypeOK
  <2>3. probe'.phase # "idle"
    BY <1>15, <2>2 DEF RunWrite, RunInsert
  <2>4. Fail \/ \E rows : Apply(plan[i], rows)
    BY <1>15 DEF RunWrite, RunInsert
  <2>5. plan[i] \in Tables
    BY <2>1, PlannedTable DEF Strong, TypeInv, InPlan
  <2>6. QED
    BY <2>1, <2>3, <2>4, <2>5, FailTrace, ProbeApplyTrace DEF InTransaction
<1>16. CASE UndoProbe
  BY <1>16, UndoProbeTrace
<1>17. CASE Environment
  BY <1>17, EnvironmentTrace
<1>18. QED
  BY <1>1, <1>2, <1>2a, <1>3, <1>4, <1>5, <1>6, <1>7, <1>8, <1>9, <1>10, <1>11, <1>12, <1>13,
     <1>14, <1>15, <1>16, <1>17 DEF Next, Guard

\* Outside a probe the transaction of rls-proof holds exactly what the other
\* sessions committed and the seed added, and no savepoint: each probe sees
\* intact data, whichever probes ran, failed or aborted before it.
THEOREM ProbesLeaveNoTrace == Spec => []NoTrace
<1>1. Init => Strong
  BY TypeInit, HarmlessInit, TraceInit DEF Strong
<1>2. Strong /\ [Next]_vars => Strong'
  BY TypeStep, HarmlessStep, TraceStep DEF Strong
<1>3. Strong => NoTrace
  BY DEF Strong, TraceInv
<1>4. QED
  BY <1>1, <1>2, <1>3, PTL DEF Spec

-----------------------------------------------------------------------------
(* Who asks: every measurement is taken as the app role and as the tenant  *)
(* it is attributed to, whatever probes were rolled back before it, for    *)
(* any scripts, tables, tenants and interleavings.                         *)

\* A script changes its tenant only by a "become".
WellScripted(s) == \A k \in 2..Len(s) : s[k].op # "become" => s[k].me = s[k-1].me

AppRole == pc \in {"canary", "table", "probe"} /\ status = "open" => role = "app"

\* The identity set before is still the one the next measurement names.
Impersonating ==
  pc = "probe" /\ todo # <<>> /\ status = "open" /\ Head(todo).op # "become" =>
    acting = Assumed(Head(todo).me)

\* The savepoint of a probe holds both: rolling back to it restores them, also
\* after an error has aborted the transaction.
Restorable ==
  probe.phase # "idle" /\ status \in {"open", "aborted"} =>
    saves[1].role = "app" /\ saves[1].acting = Assumed(Head(todo).me)

IdentityInv ==
  /\ pc = "probe" => WellScripted(todo)
  /\ AppRole
  /\ Impersonating
  /\ Restorable
-----------------------------------------------------------------------------
(* The scripts.                                                            *)

LEMMA StepsContent ==
  ASSUME NEW ops \in Seq(Ops), NEW me \in Tenants, NEW other \in Tenants, NEW base \in Nat
  PROVE  LET s == Steps(ops, me, other, base)
         IN  /\ s \in Seq(Step) /\ Len(s) = Len(ops) /\ WellScripted(s)
             /\ \A k \in 1..Len(s) : s[k].op = ops[k] /\ s[k].me = me /\ s[k].other = other /\ s[k].base = base
<1> DEFINE s == Steps(ops, me, other, base)
<1>1. s \in Seq(Step) /\ Len(ops) \in Nat
  BY StepsType, LenProperties
<1>2. s = [k \in 1..Len(ops) |-> [op |-> ops[k], me |-> me, other |-> other, base |-> base]]
  BY DEF Steps
<1>3. Len(s) = Len(ops)
  BY <1>1, <1>2, LenProperties
<1>4. \A k \in 1..Len(s) : s[k].op = ops[k] /\ s[k].me = me /\ s[k].other = other /\ s[k].base = base
  BY <1>2, <1>3
<1>5. \A k \in 2..Len(s) : k \in 1..Len(s) /\ k - 1 \in 1..Len(s)
  BY <1>1, <1>3
<1> HIDE DEF s
<1>6. WellScripted(s)
  <2>1. \A k \in 1..Len(s) : s[k].me = me
    BY <1>4
  <2>2. QED
    BY <1>5, <2>1 DEF WellScripted
<1>7. QED
  BY <1>1, <1>3, <1>4, <1>6 DEF s

\* A second tenant's half begins with its "become".
LEMMA ScriptJoin ==
  ASSUME NEW p \in Seq(Step), NEW q \in Seq(Step), WellScripted(p), WellScripted(q),
         q # <<>>, q[1].op = "become"
  PROVE  WellScripted(p \o q)
<1> DEFINE s == p \o q
<1>1. /\ Len(p) \in Nat /\ Len(q) \in Nat /\ Len(s) = Len(p) + Len(q)
      /\ \A k \in 1..Len(p) + Len(q) : s[k] = IF k <= Len(p) THEN p[k] ELSE q[k - Len(p)]
  BY ConcatProperties, LenProperties
<1> HIDE DEF s
<1> SUFFICES ASSUME NEW k \in 2..Len(s), s[k].op # "become" PROVE s[k].me = s[k-1].me
  BY DEF WellScripted, s
<1>2. k \in Int /\ 2 <= k /\ k <= Len(p) + Len(q) /\ k \in 1..Len(p) + Len(q)
      /\ k - 1 \in 1..Len(p) + Len(q)
  BY <1>1
<1>3. CASE k <= Len(p)
  <2>1. s[k] = p[k] /\ s[k-1] = p[k-1] /\ k \in 2..Len(p)
    BY <1>1, <1>2, <1>3
  <2>2. QED
    BY <2>1 DEF WellScripted
<1>4. CASE k = Len(p) + 1
  <2>1. s[k] = q[1]
    BY <1>1, <1>2, <1>4
  <2>2. QED
    BY <2>1
<1>5. CASE k > Len(p) + 1
  <2>1. s[k] = q[k - Len(p)] /\ s[k-1] = q[(k - 1) - Len(p)] /\ k - Len(p) \in 2..Len(q)
        /\ (k - 1) - Len(p) = (k - Len(p)) - 1
    BY <1>1, <1>2, <1>5
  <2>2. QED
    BY <2>1 DEF WellScripted
<1>6. QED
  BY <1>1, <1>2, <1>3, <1>4, <1>5

LEMMA TailScripted ==
  ASSUME NEW s \in Seq(Step), s # <<>>, WellScripted(s)
  PROVE  /\ WellScripted(Tail(s))
         /\ Tail(s) # <<>> => Head(Tail(s)).op = "become" \/ Head(Tail(s)).me = Head(s).me
<1>1. /\ Tail(s) \in Seq(Step) /\ Len(Tail(s)) = Len(s) - 1 /\ Len(s) \in Nat \ {0}
      /\ \A k \in 1..Len(Tail(s)) : Tail(s)[k] = s[k+1]
  BY HeadTailProperties, EmptySeq
<1>2. WellScripted(Tail(s))
  <2> SUFFICES ASSUME NEW k \in 2..Len(Tail(s)), Tail(s)[k].op # "become"
               PROVE  Tail(s)[k].me = Tail(s)[k-1].me
    BY DEF WellScripted
  <2>1. k \in 1..Len(Tail(s)) /\ k - 1 \in 1..Len(Tail(s)) /\ k + 1 \in 2..Len(s)
        /\ (k - 1) + 1 = (k + 1) - 1
    BY <1>1
  <2>2. Tail(s)[k] = s[k+1] /\ Tail(s)[k-1] = s[(k + 1) - 1]
    BY <1>1, <2>1
  <2>3. QED
    BY <2>1, <2>2 DEF WellScripted
<1>3. ASSUME Tail(s) # <<>> PROVE Head(Tail(s)).op = "become" \/ Head(Tail(s)).me = Head(s).me
  <2>1. Len(Tail(s)) \in Nat \ {0}
    BY <1>1, <1>3, EmptySeq
  <2>2. 1 \in 1..Len(Tail(s)) /\ 2 \in 2..Len(s) /\ 1 + 1 = 2 /\ 2 - 1 = 1
    BY <1>1, <2>1
  <2>3. Head(Tail(s)) = s[2] /\ Head(s) = s[1]
    BY <1>1, <1>3, <2>2
  <2>4. QED
    BY <2>2, <2>3 DEF WellScripted
<1>4. QED
  BY <1>2, <1>3

\* Every script starts by assuming an identity, and says each time it changes it.
LEMMA ScriptsScripted ==
  ASSUME TypeInv, StartTable
  PROVE  todo' # <<>> /\ WellScripted(todo') /\ Head(todo').op = "become"
<1> DEFINE t == plan[i]
<1>1. t \in Tables
  BY PlannedTable, LenProperties DEF StartTable, TypeInv, GuardTypeOK
<1>2. /\ <<"become", "cross", "claim", "wipe">> \in Seq(Ops) /\ <<"become", "cross">> \in Seq(Ops)
      /\ <<"become", "own", "cross", "claim", "wipe", "move", "insert", "omit", "self">> \in Seq(Ops)
      /\ <<"become", "cross", "claim", "wipe", "move", "insert", "omit">> \in Seq(Ops)
      /\ <<"become", "own", "cross">> \in Seq(Ops)
  BY DEF Ops
<1>3. ASSUME NEW ops \in Seq(Ops), ops # <<>>, ops[1] = "become", NEW x \in Tenants, NEW y \in Tenants,
             NEW n \in Nat
      PROVE  LET s == Steps(ops, x, y, n)
             IN  s \in Seq(Step) /\ s # <<>> /\ WellScripted(s) /\ s[1].op = "become"
  <2>1. Len(ops) \in Nat \ {0}
    BY <1>3, EmptySeq
  <2> DEFINE s == Steps(ops, x, y, n)
  <2>2. /\ s \in Seq(Step) /\ Len(s) = Len(ops) /\ WellScripted(s)
        /\ \A k \in 1..Len(s) : s[k].op = ops[k] /\ s[k].me = x /\ s[k].other = y /\ s[k].base = n
    BY StepsContent
  <2> HIDE DEF s
  <2>3. s # <<>> /\ 1 \in 1..Len(s)
    BY <2>1, <2>2
  <2>4. s[1].op = "become"
    BY <1>3, <2>2, <2>3
  <2>5. QED
    BY <2>2, <2>3, <2>4 DEF s
<1>4. ASSUME NEW p \in Seq(Step), NEW q \in Seq(Step), WellScripted(p), WellScripted(q),
             p # <<>>, q # <<>>, p[1].op = "become", q[1].op = "become"
      PROVE  p \o q # <<>> /\ WellScripted(p \o q) /\ (p \o q)[1].op = "become"
  <2>1. Len(p) \in Nat \ {0} /\ Len(q) \in Nat \ {0}
    BY <1>4, EmptySeq
  <2>2. QED
    BY <1>4, <2>1, ConcatProperties, ScriptJoin
<1>5. todo' # <<>> /\ WellScripted(todo') /\ todo'[1].op = "become"
  <2>1. ASSUME SoleTenant(t), NEW f \in Tenants, todo' = ForeignScript(t, f)
        PROVE  todo' # <<>> /\ WellScripted(todo') /\ todo'[1].op = "become"
    <3>1. tenants[t] \in Seq(Tenants) /\ 1 \in 1..Len(tenants[t])
      BY <1>1, <2>1 DEF SoleTenant, TypeInv, GuardTypeOK
    <3>2. tenants[t][1] \in Tenants
      BY <3>1, ElementOfSeq
    <3>3. QED
      BY <1>2, <1>3, <2>1, <3>2 DEF ForeignScript
  <2>2. ASSUME Len(tenants[t]) >= 2, todo' = PairScript(t)
        PROVE  todo' # <<>> /\ WellScripted(todo') /\ todo'[1].op = "become"
    <3>1. tenants[t] \in Seq(Tenants) /\ 1 \in 1..Len(tenants[t]) /\ 2 \in 1..Len(tenants[t])
      BY <1>1, <2>2, LenProperties DEF TypeInv, GuardTypeOK
    <3>2. tenants[t][1] \in Tenants /\ tenants[t][2] \in Tenants
      BY <3>1, ElementOfSeq
    <3>3. owned[t][1] \in Nat /\ owned[t][2] \in Nat
      <4>1. owned[t] \in [1..2 -> Nat]
        BY <1>1 DEF TypeInv, GuardTypeOK
      <4>2. QED
        BY <4>1
    <3> DEFINE a == tenants[t][1]
               b == tenants[t][2]
    <3>4. ASSUME NEW p \in Seq(Ops), NEW q \in Seq(Ops), p # <<>>, q # <<>>,
                 p[1] = "become", q[1] = "become",
                 todo' = Steps(p, a, b, owned[t][1]) \o Steps(q, b, a, owned[t][2])
          PROVE  todo' # <<>> /\ WellScripted(todo') /\ todo'[1].op = "become"
      BY <1>3, <1>4, <3>2, <3>3, <3>4
    <3>5. \/ todo' = Steps(<<"become", "own", "cross", "claim", "wipe", "move", "insert", "omit", "self">>,
                           a, b, owned[t][1])
                     \o Steps(<<"become", "cross", "claim", "wipe", "move", "insert", "omit">>,
                              b, a, owned[t][2])
          \/ todo' = Steps(<<"become", "own", "cross">>, a, b, owned[t][1])
                     \o Steps(<<"become", "cross">>, b, a, owned[t][2])
      BY <2>2 DEF PairScript
    <3> HIDE DEF a, b
    <3>6. QED
      BY <1>2, <3>4, <3>5
  <2>3. QED
    BY <2>1, <2>2 DEF StartTable
<1>6. QED
  BY <1>5
-----------------------------------------------------------------------------
(* The steps.                                                              *)

LEMMA IdentityInit == Init => IdentityInv
  BY DEF Init, IdentityInv, AppRole, Impersonating, Restorable, NoProbe

\* A statement that changes neither the script nor the identity.
LEMMA SameIdentity ==
  ASSUME TypeInv, IdentityInv, pc = "probe",
         UNCHANGED <<cfg, pc, todo, role, acting, saves>>,
         status' = status \/ (status' = "aborted" /\ status = "open"),
         probe'.phase # "idle" => probe.phase # "idle"
  PROVE  IdentityInv'
  BY DEF IdentityInv, AppRole, Impersonating, Restorable, Assumed

\* A table given up: nothing more is measured on it.
LEMMA AbandonIdentity ==
  ASSUME TypeInv, IdentityInv, pc = "probe", UNCHANGED <<cfg, pc>>, NEW e, Abandon(e),
         probe.phase = "idle"
  PROVE  IdentityInv'
<1>1. todo' = <<>> /\ probe' = probe /\ Fail
  BY DEF Abandon
<1>2. WellScripted(<<>>)
  BY DEF WellScripted
<1>3. status' # "open"
  BY <1>1 DEF Fail
<1>4. QED
  BY <1>1, <1>2, <1>3 DEF IdentityInv, AppRole, Impersonating, Restorable

LEMMA EnvironmentIdentity ==
  ASSUME Strong, IdentityInv, Environment
  PROVE  IdentityInv'
<1>1. CASE Drop
  BY <1>1 DEF Environment, Drop, guardVars, IdentityInv, AppRole, Impersonating, Restorable
<1>2. ASSUME NEW t, NEW gone, NEW new, CommitElsewhere(t, gone, new) PROVE IdentityInv'
  <2>1. /\ UNCHANGED <<cfg, pc, todo, probe, status, role, acting>>
        /\ saves' = [k \in 1..Len(saves) |-> [saves[k] EXCEPT !.work = Patched(@, t, gone, new)]]
    BY <1>2 DEF Environment, guardVars, CommitElsewhere
  <2>2. ASSUME probe.phase # "idle", status \in {"open", "aborted"}
        PROVE  saves'[1].role = saves[1].role /\ saves'[1].acting = saves[1].acting
    <3>1. Len(saves) = 1 /\ saves \in Seq(Snapshot)
      BY <2>2 DEF Strong, TraceInv, Bracketed, TypeInv, PgInv, PgTypeOK
    <3>2. saves[1] \in Snapshot
      BY <3>1, ElementOfSeq
    <3>3. QED
      BY <2>1, <3>1, <3>2 DEF Snapshot
  <2>3. QED
    BY <2>1, <2>2 DEF IdentityInv, AppRole, Impersonating, Restorable, Assumed
<1>3. QED
  BY <1>1, <1>2 DEF Environment, OtherSessions, OtherInsert, OtherDelete

LEMMA IdentityStep ==
  ASSUME Strong, IdentityInv, [Next]_vars
  PROVE  IdentityInv'
<1> USE DEF Goto
<1>0. TypeInv /\ HarmlessInv
  BY DEF Strong
<1>1. ASSUME pc' \notin {"canary", "table", "probe"}
      PROVE  IdentityInv'
  <2>1. ProbeInHand'
    BY <1>0, TypeStep DEF TypeInv
  <2>2. probe'.phase = "idle"
    BY <1>1, <2>1 DEF ProbeInHand
  <2>3. QED
    BY <1>1, <2>2 DEF IdentityInv, AppRole, Impersonating, Restorable
<1>2. CASE SkipRun \/ Connect \/ ConnectFails \/ Close \/ MakePlan \/ BeginProof \/ SeedOne
           \/ SeedFails \/ StartSampling \/ SampleTenants \/ SampleCounts \/ SetUpCanary
           \/ RefuseVacuousPass \/ FinishTables \/ Unwind
  <2>1. pc' \notin {"canary", "table", "probe"}
    BY <1>2 DEF SkipRun, Connect, ConnectFails, Close, MakePlan, BeginProof, SeedOne, SeedFails,
       StartSampling, SampleTenants, SampleCounts, SamplingFails, NextSampled, SetUpCanary,
       RefuseVacuousPass, FinishTables, Unwind
  <2>2. QED
    BY <1>1, <2>1
<1>3. CASE SetRole
  <2>1. pc' \in {"canary", "unwind"} /\ (pc' = "canary" => role' = "app") /\ probe' = probe
        /\ pc = "role"
    BY <1>3 DEF SetRole, StartOther
  <2>2. probe.phase = "idle"
    BY <1>0, <2>1 DEF TypeInv, ProbeInHand
  <2>3. QED
    BY <2>1, <2>2 DEF IdentityInv, AppRole, Impersonating, Restorable
<1>4. CASE ReadCanary \/ PassOver \/ JudgeTable
  <2>1. /\ pc \in {"canary", "table", "probe"} /\ pc' = "table" /\ todo' = todo /\ probe' = probe
        /\ UNCHANGED pgVars
    BY <1>4 DEF ReadCanary, PassOver, TableOther, JudgeTable
  <2>2. probe.phase = "idle"
    BY <1>0, <1>4 DEF TypeInv, ProbeInHand, ReadCanary, PassOver, JudgeTable
  <2>3. QED
    BY <2>1, <2>2 DEF IdentityInv, AppRole, Impersonating, Restorable, pgVars, session
<1>5. CASE StartTable
  <2>1. /\ pc = "table" /\ pc' = "probe" /\ probe' = probe /\ UNCHANGED pgVars
        /\ probe.phase = "idle"
    BY <1>0, <1>5 DEF StartTable, TableOther, TypeInv, ProbeInHand
  <2>2. WellScripted(todo') /\ Head(todo').op = "become"
    BY <1>0, <1>5, ScriptsScripted
  <2>3. QED
    BY <2>1, <2>2 DEF IdentityInv, AppRole, Impersonating, Restorable, pgVars, session
<1>6. CASE Become
  <2>1. pc = "probe" /\ todo # <<>> /\ probe.phase = "idle" /\ Head(todo).op = "become"
        /\ UNCHANGED <<cfg, pc>>
    BY <1>6 DEF Become, Now, ProbeOther
  <2>2. CASE BecomeError # ""
    BY <1>0, <1>6, <2>1, <2>2, AbandonIdentity DEF Become
  <2>3. CASE BecomeError = ""
    <3>1. acting' = Assumed(Head(todo).me) /\ todo' = Tail(todo)
          /\ UNCHANGED <<status, role, saves, probe>>
      BY <1>6, <2>3 DEF Become
    <3>2. /\ WellScripted(Tail(todo))
          /\ Tail(todo) # <<>> => Head(Tail(todo)).op = "become" \/ Head(Tail(todo)).me = Head(todo).me
      BY <1>0, <2>1, TailScripted DEF TypeInv, GuardTypeOK, IdentityInv
    <3>3. QED
      BY <2>1, <3>1, <3>2 DEF IdentityInv, AppRole, Impersonating, Restorable, Assumed
  <2>4. QED
    BY <2>2, <2>3
<1>7. CASE CountRows
  <2>1. pc = "probe" /\ todo # <<>> /\ probe.phase = "idle" /\ Head(todo).op # "become"
        /\ UNCHANGED <<cfg, pc>>
    BY <1>7 DEF CountRows, Now, ProbeOther
  <2>2. Abandon(SelectError(plan[i])) \/ (todo' = Tail(todo) /\ UNCHANGED <<probe, pgVars>>)
    BY <1>7 DEF CountRows
  <2>3. CASE todo' = Tail(todo) /\ UNCHANGED <<probe, pgVars>>
    <3>1. /\ WellScripted(Tail(todo))
          /\ Tail(todo) # <<>> => Head(Tail(todo)).op = "become" \/ Head(Tail(todo)).me = Head(todo).me
      BY <1>0, <2>1, TailScripted DEF TypeInv, GuardTypeOK, IdentityInv
    <3>2. QED
      BY <2>1, <2>3, <3>1 DEF IdentityInv, AppRole, Impersonating, Restorable, Assumed, pgVars, session
  <2>4. QED
    BY <1>0, <2>1, <2>2, <2>3, AbandonIdentity
<1>8. CASE OpenProbe
  <2>1. pc = "probe" /\ todo # <<>> /\ probe.phase = "idle" /\ Head(todo).op # "become"
        /\ UNCHANGED <<cfg, pc>>
    BY <1>8 DEF OpenProbe, Now, ProbeOther, ProbeOps, InsertOps
  <2>2. CASE SessionError # ""
    BY <1>0, <1>8, <2>1, <2>2, AbandonIdentity DEF OpenProbe
  <2>3. CASE SessionError = ""
    <3>1. status = "open"
      BY <1>0, <2>1, <2>3 DEF TypeInv, PgInv, PgTypeOK, HarmlessInv, InTransaction, SessionError
    <3>2. saves = <<>> /\ role = "app" /\ acting = Assumed(Head(todo).me)
      BY <2>1, <3>1 DEF Strong, TraceInv, NoTrace, IdentityInv, AppRole, Impersonating
    <3>3a. SetSavepoint /\ todo' = todo
      BY <1>8, <2>3 DEF OpenProbe
    <3>3. saves' = <<[work |-> work, role |-> role, acting |-> acting]>>
          /\ UNCHANGED <<status, role, acting, todo>>
      BY <3>2, <3>3a DEF SetSavepoint
    <3>4. saves'[1].role = role /\ saves'[1].acting = acting
      BY <3>3
    <3>5. QED
      BY <2>1, <3>1, <3>2, <3>3, <3>4 DEF IdentityInv, AppRole, Impersonating, Restorable, Assumed
  <2>4. QED
    BY <2>2, <2>3
<1>9. CASE CountBefore \/ CountAfter \/ RunWrite \/ RunInsert
  <2>1. pc = "probe" /\ probe.phase # "idle" /\ UNCHANGED <<cfg, pc, todo>>
    BY <1>9 DEF CountBefore, CountAfter, RunWrite, RunInsert, In, ProbeOther
  <2>2. Fail \/ UNCHANGED pgVars \/ \E rows : Apply(plan[i], rows)
    BY <1>9 DEF CountBefore, CountAfter, RunWrite, RunInsert
  <2>3. UNCHANGED <<role, acting, saves>>
        /\ (status' = status \/ (status' = "aborted" /\ status = "open"))
    BY <2>2 DEF Fail, Apply, pgVars, session
  <2>4. QED
    BY <1>0, <2>1, <2>3, SameIdentity
<1>10. CASE UndoProbe
  <2>1. /\ pc = "probe" /\ todo # <<>> /\ probe.phase # "idle" /\ UNCHANGED <<cfg, pc>>
        /\ todo' = Tail(todo) /\ probe'.phase = "idle" /\ UndoSavepoint
    BY <1>10 DEF UndoProbe, Undoing, In, ProbeOther, NoProbe
  <2>2. /\ WellScripted(Tail(todo))
        /\ Tail(todo) # <<>> => Head(Tail(todo)).op = "become" \/ Head(Tail(todo)).me = Head(todo).me
    BY <1>0, <2>1, TailScripted DEF TypeInv, GuardTypeOK, IdentityInv
  <2>3. CASE status \in {"open", "aborted"}
    <3>1. Len(saves) = 1 /\ saves \in Seq(Snapshot)
      BY <2>1, <2>3 DEF Strong, TraceInv, Bracketed, TypeInv, PgInv, PgTypeOK
    <3>2. saves # <<>>
      BY <3>1, EmptySeq
    <3>3. role' = saves[1].role /\ acting' = saves[1].acting
      BY <2>1, <2>3, <3>1, <3>2 DEF UndoSavepoint
    <3>4. role' = "app" /\ acting' = Assumed(Head(todo).me)
      BY <2>1, <2>3, <3>3 DEF IdentityInv, Restorable
    <3>5. QED
      BY <2>1, <2>2, <3>4 DEF IdentityInv, AppRole, Impersonating, Restorable, Assumed
  <2>4. CASE status \notin {"open", "aborted"}
    BY <2>1, <2>2, <2>4 DEF UndoSavepoint, session, IdentityInv, AppRole, Impersonating, Restorable
  <2>5. QED
    BY <2>3, <2>4
<1>11. CASE Environment
  BY <1>11, EnvironmentIdentity
<1>12. CASE Finished \/ UNCHANGED vars
  BY <1>12 DEF Finished, vars, guardVars, pgVars, session, IdentityInv, AppRole, Impersonating,
               Restorable, Assumed
<1>13. QED
  BY <1>2, <1>3, <1>4, <1>5, <1>6, <1>7, <1>8, <1>9, <1>10, <1>11, <1>12 DEF Next, Guard

\* What every later proof about the measurements starts from.
StrongIdentity == Strong /\ IdentityInv

LEMMA StrongIdentityInit == Init => StrongIdentity
  BY TypeInit, HarmlessInit, TraceInit, IdentityInit DEF Strong, StrongIdentity

LEMMA StrongIdentityStep == StrongIdentity /\ [Next]_vars => StrongIdentity'
  BY TypeStep, HarmlessStep, TraceStep, IdentityStep DEF Strong, StrongIdentity

\* Every statement that measures a table runs as the app role and as the tenant
\* it is attributed to, across savepoint rollbacks, aborted transactions and the
\* change to the second tenant.
THEOREM MeasuredAsClaimed == Spec => []ActsAsClaimed
<1>1. StrongIdentity => ActsAsClaimed
  BY DEF StrongIdentity, IdentityInv, AppRole, Impersonating, Assumed, ActsAsClaimed
<1>2. QED
  BY StrongIdentityInit, StrongIdentityStep, <1>1, PTL DEF Spec

-----------------------------------------------------------------------------
(* The verdicts.                                                           *)

Early == {"start", "plan", "begin", "seed", "sample", "counts", "role", "canary"}
AtTables == {"table", "probe"}
Reported == result.outcome = "report" /\ result.refused = "none"

\* Nothing is decided before the first table, and nothing reported before the last.
Undecided ==
  /\ pc \in Early => result = NoResult
  /\ pc \in AtTables => result.outcome = "running" /\ result.refused = "none"

LEMMA UndecidedInit == Init => Undecided
  BY DEF Init, Undecided, Early, AtTables

\* The configuration and the catalog are what they were.
LEMMA FixedStep ==
  ASSUME [Next]_vars
  PROVE  UNCHANGED <<cfg, shape>>
<1> USE DEF pgVars, session, Fail, Apply, Rollback, Abandon
<1>1. CASE SkipRun \/ Connect \/ ConnectFails \/ Close \/ MakePlan \/ BeginProof \/ SeedOne
           \/ SeedFails \/ StartSampling
  BY <1>1 DEF SkipRun, Connect, ConnectFails, Close, MakePlan, BeginProof, SeedOne, SeedFails,
              StartSampling, StartOther, EndSession, Begin
<1>2. CASE SampleTenants \/ SampleCounts \/ SetUpCanary \/ SetRole \/ ReadCanary \/ RefuseVacuousPass
  BY <1>2 DEF SampleTenants, SampleCounts, SetUpCanary, SetRole, ReadCanary, RefuseVacuousPass,
              SamplingOther, SamplingFails, StartOther
<1>3. CASE PassOver \/ StartTable \/ JudgeTable \/ FinishTables \/ Unwind
  BY <1>3 DEF PassOver, StartTable, JudgeTable, FinishTables, Unwind, TableOther, StartOther
<1>4. CASE Become \/ CountRows \/ OpenProbe \/ CountBefore \/ RunWrite \/ RunInsert \/ CountAfter
           \/ UndoProbe
  BY <1>4 DEF Become, CountRows, OpenProbe, CountBefore, RunWrite, RunInsert, CountAfter, UndoProbe,
              ProbeOther, SetSavepoint, UndoSavepoint
<1>5. CASE Environment \/ Finished \/ UNCHANGED vars
  BY <1>5 DEF Environment, OtherSessions, OtherInsert, OtherDelete, CommitElsewhere, Drop, Finished,
              vars, guardVars
<1>6. QED
  BY <1>1, <1>2, <1>3, <1>4, <1>5 DEF Next, Guard

\* What a table in hand adds to the result: no outcome, and at most this table.
LEMMA JudgedFields ==
  ASSUME TypeInv, NEW t \in Tables, NEW r \in {JudgeSole(result, t), JudgePair(result, t)}
  PROVE  /\ r.outcome = result.outcome /\ r.refused = result.refused
         /\ r.scanned = result.scanned
<1>1. result \in Results
  BY DEF TypeInv, GuardTypeOK
<1>2. QED
  BY <1>1 DEF JudgeSole, JudgePair, Note, Blame, Prove, Results

LEMMA PassOverFields ==
  ASSUME TypeInv, PassOver
  PROVE  /\ pc = "table" /\ pc' = pc /\ i \in 1..Len(plan) /\ i' = i + 1 /\ plan[i] \in Tables
         /\ result'.outcome = result.outcome /\ result'.refused = result.refused
         /\ result'.proven = result.proven /\ result'.readOnly = result.readOnly
         /\ result'.violations = result.violations
         /\ result'.noted = result.noted \cup {plan[i]}
         /\ result'.scanned \in {result.scanned, result.scanned \cup {plan[i]}}
         /\ UNCHANGED <<pgVars, cfg, plan, unsampled, tenants, canaryReady, probe, todo, m>>
<1>1. result \in Results
  BY DEF TypeInv, GuardTypeOK
<1>2. i \in 1..Len(plan)
  BY LenProperties DEF PassOver, TypeInv, GuardTypeOK
<1>3. plan[i] \in Tables
  BY <1>2, PlannedTable
<1>4. \/ result' = [result EXCEPT !.noted = @ \cup {plan[i]}]
      \/ result' = [[result EXCEPT !.noted = @ \cup {plan[i]}] EXCEPT !.scanned = @ \cup {plan[i]}]
  BY DEF PassOver
<1>5. QED
  BY <1>1, <1>2, <1>3, <1>4 DEF PassOver, TableOther, Results

LEMMA StepsLength ==
  ASSUME NEW ops \in Seq(Ops), NEW me, NEW other, NEW base
  PROVE  Len(Steps(ops, me, other, base)) = Len(ops)
  BY LenProperties DEF Steps

LEMMA StartTableFields ==
  ASSUME TypeInv, StartTable
  PROVE  /\ pc = "table" /\ pc' = "probe" /\ i \in 1..Len(plan) /\ i' = i /\ plan[i] \in Tables
         /\ Probeable(plan[i]) /\ probe.phase = "idle" /\ todo' # <<>> /\ m' = NoMeasure
         /\ result' = [result EXCEPT !.scanned = @ \cup {plan[i]}]
         /\ result'.scanned = result.scanned \cup {plan[i]}
         /\ result'.outcome = result.outcome /\ result'.refused = result.refused
         /\ result'.proven = result.proven /\ result'.readOnly = result.readOnly
         /\ result'.violations = result.violations /\ result'.noted = result.noted
         /\ UNCHANGED <<pgVars, cfg, plan, unsampled, tenants, canaryReady, probe>>
<1> DEFINE t == plan[i]
<1>1. result \in Results
  BY DEF TypeInv, GuardTypeOK
<1>2. i \in 1..Len(plan)
  BY LenProperties DEF StartTable, TypeInv, GuardTypeOK
<1>3. t \in Tables
  BY <1>2, PlannedTable
<1>4. pc = "table" /\ probe.phase = "idle"
  BY DEF StartTable, TypeInv, ProbeInHand
<1>5. \A f : ForeignScript(t, f) # <<>>
  BY DEF ForeignScript, Steps
<1>6. ASSUME Len(tenants[t]) >= 2 PROVE PairScript(t) # <<>>
  <2> DEFINE a == tenants[t][1]
             b == tenants[t][2]
  <2>1. a \in Tenants /\ b \in Tenants /\ owned[t][1] \in Nat /\ owned[t][2] \in Nat
    <3>1. tenants[t] \in Seq(Tenants) /\ 1 \in 1..Len(tenants[t]) /\ 2 \in 1..Len(tenants[t])
      BY <1>3, <1>6, LenProperties DEF TypeInv, GuardTypeOK
    <3>2. QED
      BY <1>3, <3>1, ElementOfSeq DEF TypeInv, GuardTypeOK
  <2>2. ASSUME NEW ops \in Seq(Ops), ops # <<>>, NEW x \in Tenants, NEW y \in Tenants, NEW n \in Nat
        PROVE  Steps(ops, x, y, n) \in Seq(Step) /\ Steps(ops, x, y, n) # <<>>
    BY <2>2, StepsType, StepsLength, EmptySeq, LenProperties
  <2>3. ASSUME NEW p \in Seq(Step), NEW q \in Seq(Step), p # <<>> PROVE p \o q # <<>>
    BY <2>3, ConcatProperties, LenProperties, EmptySeq
  <2>4. /\ <<"become", "own", "cross", "claim", "wipe", "move", "insert", "omit", "self">> \in Seq(Ops)
        /\ <<"become", "cross", "claim", "wipe", "move", "insert", "omit">> \in Seq(Ops)
        /\ <<"become", "own", "cross">> \in Seq(Ops) /\ <<"become", "cross">> \in Seq(Ops)
    BY DEF Ops
  <2>5. QED
    BY <2>1, <2>2, <2>3, <2>4 DEF PairScript
<1>7. QED
  BY <1>1, <1>2, <1>3, <1>4, <1>5, <1>6 DEF StartTable, TableOther, Results, Goto

LEMMA UndecidedStep ==
  ASSUME TypeInv, Undecided, [Next]_vars
  PROVE  Undecided'
<1> USE DEF Undecided, Early, AtTables, Goto
<1>1. CASE SkipRun \/ Connect \/ ConnectFails \/ Close \/ MakePlan \/ BeginProof \/ SeedOne
           \/ SeedFails \/ StartSampling
  BY <1>1 DEF SkipRun, Connect, ConnectFails, Close, MakePlan, BeginProof, SeedOne, SeedFails,
              StartSampling, StartOther
<1>2. CASE SampleTenants \/ SampleCounts
  BY <1>2 DEF SampleTenants, SampleCounts, SamplingFails, SamplingOther, NextSampled
<1>3. CASE SetUpCanary \/ SetRole \/ RefuseVacuousPass
  BY <1>3 DEF SetUpCanary, SetRole, RefuseVacuousPass, StartOther
<1>4. CASE ReadCanary
  BY <1>4 DEF ReadCanary, NoResult
<1>5. CASE PassOver
  BY <1>5, PassOverFields
<1>6. CASE StartTable
  BY <1>6, StartTableFields
<1>7. CASE JudgeTable
  <2>1. pc = "probe" /\ pc' = "table" /\ plan[i] \in Tables
        /\ result' \in {JudgeSole(result, plan[i]), JudgePair(result, plan[i])}
    BY <1>7, PlannedTable DEF JudgeTable, TypeInv, InPlan
  <2>2. QED
    BY <2>1, JudgedFields
<1>8. CASE FinishTables \/ Unwind
  BY <1>8 DEF FinishTables, Unwind, StartOther
<1>9. CASE Become \/ CountRows \/ OpenProbe \/ CountBefore \/ RunWrite \/ RunInsert \/ CountAfter
           \/ UndoProbe
  BY <1>9 DEF Become, CountRows, OpenProbe, CountBefore, RunWrite, RunInsert, CountAfter, UndoProbe,
              ProbeOther
<1>10. CASE Environment \/ Finished \/ UNCHANGED vars
  BY <1>10 DEF Environment, Finished, vars, guardVars
<1>11. QED
  BY <1>1, <1>2, <1>3, <1>4, <1>5, <1>6, <1>7, <1>8, <1>9, <1>10 DEF Next, Guard

-----------------------------------------------------------------------------
(* GreenMeansControlled.                                                   *)

\* The code tests neither fact when it reports. Both failures abort the
\* transaction, the abort lasts as long as no savepoint is rolled back to, and
\* SetRole does not get past it: so what is to be carried along is the pending
\* error, from the failure to the switch of role.
ControlInv ==
  /\ pc \in {"start", "plan", "begin", "seed"} => unsampled = {}
  /\ pc \in {"sample", "counts", "role"} /\ unsampled # {} => SessionError # ""
  /\ pc = "role" /\ ~canaryReady => SessionError # ""
  /\ pc \in {"canary"} \cup AtTables => canaryReady /\ unsampled = {}
  /\ Reported => canaryReady /\ unsampled = {}

\* Once the guard is inside its transaction an error stays pending until a
\* savepoint is rolled back to: another session or a lost connection does not
\* clear it, nor does a further failing statement, which also raises one.
LEMMA ErrorStays ==
  ASSUME TypeInv, Environment, SessionError # ""
  PROVE  SessionError' # ""
  BY DEF Environment, OtherSessions, OtherInsert, OtherDelete, CommitElsewhere, Drop, SessionError

LEMMA FailRaises ==
  ASSUME TypeInv, HarmlessInv, pc \in InTransaction, Fail
  PROVE  SessionError' # ""
  BY DEF TypeInv, PgInv, PgTypeOK, HarmlessInv, Fail, SessionError

LEMMA GreenInit == Init => ControlInv
  BY DEF Init, ControlInv, AtTables, NoResult, Reported

LEMMA GreenStep ==
  ASSUME TypeInv, HarmlessInv, Undecided, ControlInv, [Next]_vars
  PROVE  ControlInv'
<1> USE DEF ControlInv, AtTables, Reported, Goto
<1>0. result \in Results /\ (pc \in Early => result = NoResult) /\ NoResult.outcome = "running"
      /\ (pc \in AtTables => result.outcome = "running")
  BY DEF TypeInv, GuardTypeOK, Undecided, NoResult
<1> USE DEF Early
<1>1. CASE SkipRun \/ Connect \/ ConnectFails \/ Close \/ MakePlan \/ BeginProof
  BY <1>0, <1>1 DEF SkipRun, Connect, ConnectFails, Close, MakePlan, BeginProof,
              StartOther, Skip, Throws, Results
<1>2. CASE SeedOne \/ StartSampling
  BY <1>2 DEF SeedOne, StartSampling
<1>3. CASE SeedFails
  BY <1>0, <1>3 DEF SeedFails, Report, NoResult
<1>4. CASE SampleTenants \/ SampleCounts
  <2>1. pc \in {"sample", "counts"} /\ pc' \in {"sample", "counts"}
        /\ UNCHANGED <<canaryReady, result>>
    BY <1>4 DEF SampleTenants, SampleCounts, SamplingFails, SamplingOther, NextSampled
  <2>2. CASE Fail
    <3>1. SessionError' # ""
      BY <2>1, <2>2, FailRaises DEF InTransaction
    <3>2. QED
      BY <1>0, <2>1, <3>1
  <2>3. CASE ~Fail
    <3>1. UNCHANGED <<pgVars, unsampled>>
      BY <1>4, <2>3 DEF SampleTenants, SampleCounts, SamplingFails
    <3>2. SessionError' = SessionError
      BY <3>1 DEF SessionError, pgVars, session
    <3>3. QED
      BY <2>1, <3>1, <3>2
  <2>4. QED
    BY <2>2, <2>3
<1>5. CASE SetUpCanary
  <2>1. pc = "sample" /\ pc' = "role" /\ UNCHANGED <<unsampled, result>>
    BY <1>5 DEF SetUpCanary
  <2>2. CASE SessionError = "" /\ cfg.temp
    BY <1>5, <2>1, <2>2 DEF SetUpCanary
  <2>3. CASE ~(SessionError = "" /\ cfg.temp)
    <3>1. SessionError' # ""
      BY <1>5, <2>1, <2>3, FailRaises DEF SetUpCanary, InTransaction
    <3>2. QED
      BY <1>0, <2>1, <3>1
  <2>4. QED
    BY <2>2, <2>3
<1>6. CASE SetRole
  BY <1>0, <1>6 DEF SetRole, StartOther, Throws, Results
<1>7. CASE ReadCanary
  BY <1>7 DEF ReadCanary
<1>8. CASE RefuseVacuousPass
  BY <1>0, <1>8 DEF RefuseVacuousPass, StartOther, Report, NoResult
<1>9. CASE PassOver
  BY <1>0, <1>9, PassOverFields
<1>10. CASE StartTable
  BY <1>0, <1>10, StartTableFields
<1>11. CASE JudgeTable
  BY <1>0, <1>11 DEF JudgeTable
<1>12. CASE FinishTables \/ Unwind
  BY <1>12 DEF FinishTables, Unwind, StartOther, Report
<1>13. CASE Become \/ CountRows \/ OpenProbe \/ CountBefore \/ RunWrite \/ RunInsert \/ CountAfter
           \/ UndoProbe
  BY <1>13 DEF Become, CountRows, OpenProbe, CountBefore, RunWrite, RunInsert, CountAfter, UndoProbe,
              ProbeOther, Now, In, Undoing
<1>14. CASE Environment
  BY <1>14, ErrorStays DEF Environment, guardVars
<1>15. CASE Finished \/ UNCHANGED vars
  BY <1>15 DEF Finished, vars, guardVars, pgVars, session, SessionError
<1>16. QED
  BY <1>1, <1>2, <1>3, <1>4, <1>5, <1>6, <1>7, <1>8, <1>9, <1>10, <1>11, <1>12, <1>13, <1>14, <1>15
     DEF Next, Guard

\* A green report of rls-proof always rests on a negative control that was set up
\* and on a sampling pass in which no table failed, although the code that
\* reports looks at neither.
THEOREM GreenIsGrounded == Spec => []GreenMeansControlled
<1> DEFINE Inv == TypeInv /\ HarmlessInv /\ Undecided /\ ControlInv
<1>1. Init => Inv
  BY TypeInit, HarmlessInit, UndecidedInit, GreenInit
<1>2. Inv /\ [Next]_vars => Inv'
  BY TypeStep, HarmlessStep, UndecidedStep, GreenStep
<1>3. Inv => GreenMeansControlled
  BY DEF ControlInv, Reported, GreenMeansControlled, Ok
<1>4. QED
  BY <1>1, <1>2, <1>3, PTL DEF Spec

-----------------------------------------------------------------------------
(* NoVacuousPass.                                                          *)

\* With a role that bypasses row level security the guard gets past the negative
\* control only if its connection or transaction was already broken: then every
\* table fails at its first statement and none is proven.
BoundInv ==
  /\ pc \in AtTables /\ cfg.bypass =>
       /\ SessionError # "" /\ result.proven \cup result.readOnly = {}
       /\ pc = "probe" => probe.phase = "idle" /\ (todo # <<>> \/ m.failed)
  /\ pc = "probe" => ~OwnerBypass(plan[i])
  /\ NoVacuousPass

LEMMA BoundInit == Init => BoundInv
  BY DEF Init, BoundInv, AtTables, NoVacuousPass, NoResult

\* Of the table in hand at most itself is proven, and only if nothing failed.
LEMMA JudgedProven ==
  ASSUME TypeInv, NEW t \in Tables, NEW r \in {JudgeSole(result, t), JudgePair(result, t)}
  PROVE  /\ r.proven \in {result.proven, result.proven \cup {t}}
         /\ r.readOnly \in {result.readOnly, result.readOnly \cup {t}}
         /\ m.failed => r.proven = result.proven /\ r.readOnly = result.readOnly
<1>1. result \in Results
  BY DEF TypeInv, GuardTypeOK
<1>2. QED
  BY <1>1 DEF JudgeSole, JudgePair, Note, Blame, Prove, Results

\* The script of a table whose connection or transaction is broken: the first
\* statement gives up.
LEMMA BrokenStatement ==
  ASSUME TypeInv, BoundInv, cfg.bypass, pc = "probe",
         Become \/ CountRows \/ OpenProbe \/ CountBefore \/ RunWrite \/ RunInsert \/ CountAfter
           \/ UndoProbe
  PROVE  /\ SessionError' # "" /\ UNCHANGED <<result, probe>> /\ m'.failed
         /\ probe.phase = "idle"
<1>1. SessionError # "" /\ probe.phase = "idle" /\ SessionError \in {"lost", "aborted"}
  BY DEF BoundInv, AtTables, SessionError
<1>2. ~(CountBefore \/ RunWrite \/ RunInsert \/ CountAfter \/ UndoProbe)
  BY <1>1 DEF CountBefore, RunWrite, RunInsert, CountAfter, UndoProbe, Undoing, In
<1>3. Abandon(SessionError) /\ result' = result
  BY <1>1, <1>2 DEF Become, BecomeError, CountRows, SelectError, OpenProbe, ProbeOther
<1>4. m \in Measures
  BY DEF TypeInv, GuardTypeOK
<1>5. m' = [m EXCEPT !.failed = TRUE] /\ probe' = probe /\ Fail
  BY <1>1, <1>3 DEF Abandon, IsPermissionDenied
<1>6. SessionError' # ""
  BY <1>1, <1>5 DEF Fail, SessionError
<1>7. QED
  BY <1>1, <1>3, <1>4, <1>5, <1>6 DEF Measures

LEMMA BoundStep ==
  ASSUME TypeInv, Undecided, ControlInv, BoundInv, [Next]_vars
  PROVE  BoundInv'
<1>0. /\ UNCHANGED <<cfg, shape>> /\ \A t : OwnerBypass(t)' = OwnerBypass(t)
      /\ result \in Results
  BY FixedStep DEF OwnerBypass, KnownRls, TypeInv, GuardTypeOK
<1>1. ASSUME UNCHANGED result PROVE NoVacuousPass'
  BY <1>0, <1>1 DEF BoundInv, NoVacuousPass
<1> USE DEF AtTables, Goto
<1>2. CASE SkipRun \/ Connect \/ ConnectFails \/ Close \/ MakePlan \/ BeginProof \/ SeedOne
           \/ SeedFails \/ StartSampling \/ SampleTenants \/ SampleCounts \/ SetUpCanary \/ SetRole
           \/ RefuseVacuousPass \/ FinishTables \/ Unwind
  <2>1. pc' \notin AtTables
    BY <1>2 DEF SkipRun, Connect, ConnectFails, Close, MakePlan, BeginProof, SeedOne, SeedFails,
       StartSampling, SampleTenants, SampleCounts, SamplingFails, NextSampled, SetUpCanary, SetRole,
       RefuseVacuousPass, FinishTables, Unwind
  <2>2. result'.proven = result.proven /\ result'.readOnly = result.readOnly
    BY <1>0, <1>2 DEF SkipRun, Connect, ConnectFails, Close, MakePlan, BeginProof, SeedOne, SeedFails,
       StartSampling, SampleTenants, SampleCounts, SamplingOther, SetUpCanary, SetRole,
       RefuseVacuousPass, FinishTables, Unwind, Skip, Throws, Report, StartOther, Results
  <2>3. QED
    BY <1>0, <2>1, <2>2 DEF BoundInv, NoVacuousPass
<1>3. CASE ReadCanary
  <2>1. pc = "canary" /\ pc' = "table" /\ ~CanarySeen /\ UNCHANGED <<pgVars, result>>
    BY <1>3 DEF ReadCanary
  <2>2. result = NoResult /\ canaryReady /\ SessionError' = SessionError
    BY <2>1 DEF Undecided, Early, ControlInv, SessionError, pgVars, session
  <2>3. cfg.bypass => SessionError # ""
    BY <2>1, <2>2 DEF CanarySeen
  <2>4. QED
    BY <1>0, <1>1, <2>1, <2>2, <2>3 DEF BoundInv, NoResult
<1>4. CASE PassOver
  <2>1. SessionError' = SessionError
    BY <1>4, PassOverFields DEF SessionError, pgVars, session
  <2>2. QED
    BY <1>0, <1>4, <2>1, PassOverFields DEF BoundInv, NoVacuousPass
<1>5. CASE StartTable
  <2>1. SessionError' = SessionError /\ ~OwnerBypass(plan'[i'])
    BY <1>5, StartTableFields DEF SessionError, pgVars, session, Probeable
  <2>2. QED
    BY <1>0, <1>5, <2>1, StartTableFields DEF BoundInv, NoVacuousPass
<1>6. CASE JudgeTable
  <2>1. pc = "probe" /\ pc' = "table" /\ todo = <<>> /\ plan[i] \in Tables /\ UNCHANGED pgVars
        /\ result' \in {JudgeSole(result, plan[i]), JudgePair(result, plan[i])}
    BY <1>6, PlannedTable DEF JudgeTable, TypeInv, InPlan
  <2>2. SessionError' = SessionError
    BY <2>1 DEF SessionError, pgVars, session
  <2>3. CASE cfg.bypass
    <3>1. m.failed /\ result.proven \cup result.readOnly = {} /\ SessionError # ""
      BY <2>1, <2>3 DEF BoundInv
    <3>2. result'.proven \cup result'.readOnly = {}
      BY <2>1, <3>1, JudgedProven
    <3>3. QED
      BY <1>0, <2>1, <2>2, <3>1, <3>2 DEF BoundInv, NoVacuousPass
  <2>4. CASE ~cfg.bypass
    <3>1. ~OwnerBypass(plan[i])
      BY <2>1 DEF BoundInv
    <3>2. result'.proven \cup result'.readOnly \subseteq result.proven \cup result.readOnly \cup {plan[i]}
      BY <2>1, JudgedProven
    <3>3. NoVacuousPass'
      BY <1>0, <2>4, <3>1, <3>2 DEF BoundInv, NoVacuousPass
    <3>4. QED
      BY <1>0, <2>1, <2>4, <3>3 DEF BoundInv
  <2>5. QED
    BY <2>3, <2>4
<1>7. CASE Become \/ CountRows \/ OpenProbe \/ CountBefore \/ RunWrite \/ RunInsert \/ CountAfter
           \/ UndoProbe
  <2>1. pc = "probe" /\ UNCHANGED <<pc, plan, i, result>>
    BY <1>7 DEF Become, CountRows, OpenProbe, CountBefore, RunWrite, RunInsert, CountAfter, UndoProbe,
                ProbeOther, Now, In, Undoing
  <2>2. cfg.bypass => SessionError' # "" /\ m'.failed /\ probe'.phase = "idle"
    BY <1>7, <2>1, BrokenStatement
  <2>3. QED
    BY <1>0, <1>1, <2>1, <2>2 DEF BoundInv
<1>8. CASE Environment
  BY <1>0, <1>1, <1>8, ErrorStays DEF Environment, guardVars, BoundInv
<1>9. CASE Finished \/ UNCHANGED vars
  BY <1>0, <1>1, <1>9 DEF Finished, vars, guardVars, pgVars, session, SessionError, BoundInv
<1>10. QED
  BY <1>2, <1>3, <1>4, <1>5, <1>6, <1>7, <1>8, <1>9 DEF Next, Guard

\* No table is counted as proven, not even for reads, when the app role bypasses
\* row level security or owns the table without FORCE: the verdict would be vacuous.
THEOREM NothingProvenVacuously == Spec => []NoVacuousPass
<1> DEFINE Inv == TypeInv /\ HarmlessInv /\ Undecided /\ ControlInv /\ BoundInv
<1>1. Init => Inv
  BY TypeInit, HarmlessInit, UndecidedInit, GreenInit, BoundInit
<1>2. Inv /\ [Next]_vars => Inv'
  BY TypeStep, HarmlessStep, UndecidedStep, GreenStep, BoundStep
<1>3. Inv => NoVacuousPass
  BY DEF BoundInv
<1>4. QED
  BY <1>1, <1>2, <1>3, PTL DEF Spec

-----------------------------------------------------------------------------
(* EveryTableAnswered.                                                     *)

Answered == result.proven \cup result.readOnly \cup Blamed \cup result.noted
Decided == result.proven \cup Blamed

DistinctPlan == \A j, k \in 1..Len(plan) : plan[j] = plan[k] => j = k

\* The tables before the one in hand are answered, the others still open; a
\* table in the plan twice would break the second half.
Judged ==
  /\ pc \in AtTables =>
       \A k \in 1..Len(plan) : IF k < i THEN plan[k] \in Answered ELSE plan[k] \notin Decided
  /\ pc = "probe" => plan[i] \in result.scanned
  /\ Reported => \A k \in 1..Len(plan) : plan[k] \in Answered

\* What the subtraction of the summary needs.
Counted ==
  /\ result.proven \cap Blamed = {}
  /\ Decided \subseteq result.scanned
  /\ IsFiniteSet(result.scanned)

AnswerInv == DistinctPlan /\ Judged /\ Counted
BlamedIn(r) == {v[1] : v \in r.violations}

\* No table is planned twice.
LEMMA PlanDistinct ==
  ASSUME NEW p \in PlanTables
  PROVE  \A j, k \in 1..Len(p) : p[j] = p[k] => j = k
<1>1. p \in Seq(Tables) /\ DOMAIN p = 1..Cardinality(Planned) /\ DOMAIN p = 1..Len(p)
  BY PlanType, LenProperties DEF PlanTables
<1>2. ASSUME NEW j \in 1..Len(p), NEW k \in 1..Len(p), j < k PROVE p[j] # p[k]
  <2>1. Before(p[j], p[k])
    BY <1>1, <1>2 DEF PlanTables
  <2>2. QED
    BY <2>1, OrderAssumption, SetupAssumption, LenProperties DEF Before
<1>3. Len(p) \in Nat
  BY <1>1, LenProperties
<1>4. QED
  BY <1>2, <1>3

LEMMA BlameBlames ==
  ASSUME NEW r \in Results, NEW t \in Tables, NEW kinds \in SUBSET Kinds, kinds # {}
  PROVE  BlamedIn(Blame(r, t, kinds)) = BlamedIn(r) \cup {t}
<1>1. Blame(r, t, kinds).violations = r.violations \cup {<<t, k>> : k \in kinds}
  BY DEF Blame, Results
<1>2. PICK k \in kinds : TRUE
  OBVIOUS
<1>3. <<t, k>> \in Blame(r, t, kinds).violations /\ <<t, k>>[1] = t
  BY <1>1
<1>4. \A v \in Blame(r, t, kinds).violations : v \in r.violations \/ v[1] = t
  BY <1>1
<1>5. BlamedIn(Blame(r, t, kinds)) \subseteq BlamedIn(r) \cup {t}
  BY <1>4 DEF BlamedIn
<1>6. BlamedIn(r) \cup {t} \subseteq BlamedIn(Blame(r, t, kinds))
  BY <1>1, <1>3 DEF BlamedIn
<1>7. QED
  BY <1>5, <1>6

\* The verdict on a table answers for it in exactly one of three ways, and takes
\* nothing back.
LEMMA JudgedAnswer ==
  ASSUME TypeInv, NEW t \in Tables, NEW r \in {JudgeSole(result, t), JudgePair(result, t)}
  PROVE  /\ result.noted \subseteq r.noted /\ result.readOnly \subseteq r.readOnly
         /\ \/ r.proven = result.proven /\ BlamedIn(r) = Blamed /\ t \in r.noted
            \/ r.proven = result.proven /\ BlamedIn(r) = Blamed \cup {t}
            \/ r.proven = result.proven \cup {t} /\ BlamedIn(r) = Blamed
<1>1. result \in Results /\ Note(result, t) \in Results
  BY OutcomeTypes DEF TypeInv, GuardTypeOK
<1>2. Blamed = BlamedIn(result)
  BY DEF Blamed, BlamedIn
<1>3. ASSUME NEW q \in {result, Note(result, t)}
      PROVE  /\ q \in Results /\ BlamedIn(q) = Blamed /\ q.proven = result.proven
             /\ result.noted \subseteq q.noted /\ result.readOnly = q.readOnly
  BY <1>1, <1>2 DEF Note, Results, BlamedIn
<1>4. ASSUME NEW q \in {result, Note(result, t)}, NEW kinds \in SUBSET Kinds, kinds # {}
      PROVE  LET b == Blame(q, t, kinds)
             IN  /\ b.proven = q.proven /\ b.noted = q.noted /\ b.readOnly = q.readOnly
                 /\ BlamedIn(b) = Blamed \cup {t}
  BY <1>3, <1>4, BlameBlames DEF Blame, Results
<1>5. ASSUME NEW q \in {result, Note(result, t)}
      PROVE  /\ Prove(q, t).proven = q.proven \cup {t} /\ Prove(q, t).noted = q.noted
             /\ Prove(q, t).readOnly = q.readOnly /\ BlamedIn(Prove(q, t)) = Blamed
             /\ Note(q, t).proven = q.proven /\ t \in Note(q, t).noted
             /\ q.noted \subseteq Note(q, t).noted
             /\ Note(q, t).readOnly = q.readOnly /\ BlamedIn(Note(q, t)) = Blamed
  BY <1>3 DEF Prove, Note, Results, BlamedIn
<1>6. CASE r = JudgePair(result, t)
  <2> DEFINE verdict == ClassifyTableResult(m, KnownNoPolicy(t), Len(tenants[t]))
             noting == IF verdict # "leak" /\ Inconclusive(m) THEN Note(result, t) ELSE result
  <2>1. Leaks(m) \in SUBSET Kinds /\ (verdict = "leak" => Leaks(m) # {})
    BY DEF Leaks, Kinds, ClassifyTableResult
  <2>2. noting \in {result, Note(result, t)}
    OBVIOUS
  <2>3. \/ r = Note(result, t) \/ r = Note(noting, t) \/ r = Prove(noting, t)
        \/ r = Blame(noting, t, Leaks(m)) /\ Leaks(m) # {}
    BY <1>6, <2>1 DEF JudgePair
  <2> HIDE DEF noting, verdict
  <2>4. CASE r = Blame(noting, t, Leaks(m)) /\ Leaks(m) # {}
    BY <1>3, <1>4, <2>1, <2>2, <2>4
  <2>5. CASE r \in {Note(result, t), Note(noting, t), Prove(noting, t)}
    BY <1>3, <1>5, <2>2, <2>5
  <2>6. QED
    BY <2>3, <2>4, <2>5
<1>7. CASE r = JudgeSole(result, t)
  <2>1. {"read"} \in SUBSET Kinds /\ {"write"} \in SUBSET Kinds
    BY DEF Kinds
  <2>2. CASE \E k \in {"read", "write"} : r = Blame(result, t, {k})
    BY <1>3, <1>4, <2>1, <2>2
  <2>3. CASE r \in {Note(result, t), Prove(result, t)}
    BY <1>3, <1>5, <2>3
  <2>4. CASE r = [Note(result, t) EXCEPT !.readOnly = @ \cup {t}]
    <3>1. /\ r.proven = Note(result, t).proven /\ r.noted = Note(result, t).noted
          /\ result.readOnly \subseteq r.readOnly /\ r.violations = Note(result, t).violations
      BY <1>1, <1>3, <2>4 DEF Results
    <3>2. BlamedIn(r) = BlamedIn(Note(result, t))
      BY <3>1 DEF BlamedIn
    <3>3. QED
      BY <1>3, <1>5, <3>1, <3>2
  <2>5. QED
    BY <1>7, <2>2, <2>3, <2>4 DEF JudgeSole
<1>8. QED
  BY <1>6, <1>7

LEMMA AnswerInit == Init => AnswerInv
  BY FS_EmptySet DEF Init, AnswerInv, DistinctPlan, Judged, Counted, AtTables, Reported, Answered, Decided,
     Blamed, NoResult

LEMMA AnswerStep ==
  ASSUME TypeInv, Undecided, AnswerInv, [Next]_vars
  PROVE  AnswerInv'
<1> USE DEF AtTables, Goto
<1>0. /\ result \in Results /\ plan \in Seq(Tables) /\ Len(plan) \in Nat /\ i \in Nat \ {0}
      /\ Blamed = BlamedIn(result) /\ Blamed' = BlamedIn(result')
  BY LenProperties DEF TypeInv, GuardTypeOK, Blamed, BlamedIn
<1>1. ASSUME UNCHANGED <<plan, result>>, pc' \notin AtTables
      PROVE  AnswerInv'
  BY <1>1 DEF AnswerInv, DistinctPlan, Judged, Counted, Answered, Decided, Blamed, Reported
<1>2. ASSUME plan' = plan, pc' \notin AtTables, ~Reported',
             UNCHANGED <<result.proven, result.violations, result.scanned>>
      PROVE  AnswerInv'
  BY <1>2 DEF AnswerInv, DistinctPlan, Judged, Counted, Decided, Blamed, Reported
<1>3. CASE SkipRun \/ Connect \/ ConnectFails \/ Close \/ BeginProof \/ SeedOne \/ StartSampling
           \/ SampleTenants \/ SampleCounts \/ SetUpCanary \/ SetRole \/ Unwind
  <2>1. plan' = plan /\ pc' \notin AtTables
    BY <1>3 DEF SkipRun, Connect, ConnectFails, Close, BeginProof, SeedOne, StartSampling, StartOther,
       SampleTenants, SampleCounts, SamplingFails, NextSampled, SamplingOther, SetUpCanary, SetRole, Unwind
  <2>2. result' = result \/ Skip \/ Throws
    BY <1>3 DEF SkipRun, Connect, ConnectFails, Close, BeginProof, SeedOne, StartSampling, StartOther,
       SampleTenants, SampleCounts, SamplingOther, SetUpCanary, SetRole, Unwind
  <2>3. CASE Skip \/ Throws
    BY <1>0, <1>2, <2>1, <2>3 DEF Skip, Throws, Results, Reported
  <2>4. QED
    BY <1>1, <2>1, <2>2, <2>3
<1>4. CASE MakePlan
  <2>1. pc = "plan" /\ pc' \notin AtTables /\ result = NoResult
    BY <1>4 DEF MakePlan, Undecided, Early
  <2>2. plan' = plan \/ plan' \in PlanTables
    BY <1>4 DEF MakePlan
  <2>3. DistinctPlan'
    BY <2>2, PlanDistinct DEF AnswerInv, DistinctPlan
  <2>4. result' = NoResult \/ result' = [NoResult EXCEPT !.outcome = "skip"]
        \/ result' = [NoResult EXCEPT !.outcome = "throw"]
    BY <1>4, <2>1 DEF MakePlan, Skip, Throws
  <2>5. result'.outcome # "report" /\ UNCHANGED <<result.proven, result.violations, result.scanned>>
    BY <2>1, <2>4 DEF NoResult
  <2>6. QED
    BY <2>1, <2>3, <2>5 DEF AnswerInv, Judged, Counted, Decided, Blamed, Reported
<1>5. CASE SeedFails \/ RefuseVacuousPass
  <2>1. plan' = plan /\ pc' = "unwind"
        /\ \E x \in {"seed", "canary"} : Report([result EXCEPT !.refused = x])
    BY <1>5 DEF SeedFails, RefuseVacuousPass, StartOther
  <2>2. QED
    BY <1>0, <1>2, <2>1 DEF Report, Results, Reported
<1>6. CASE ReadCanary
  <2>1. pc = "canary" /\ pc' = "table" /\ i' = 1 /\ UNCHANGED <<plan, result>> /\ result = NoResult
    BY <1>6 DEF ReadCanary, Undecided, Early
  <2>2. QED
    BY <1>0, <2>1 DEF AnswerInv, DistinctPlan, Judged, Counted, Answered, Decided, Blamed, Reported,
                      NoResult
<1>7. CASE PassOver
  <2>1. BlamedIn(result') = BlamedIn(result) /\ ~Reported'
    BY <1>7, PassOverFields DEF BlamedIn, Undecided, Reported
  <2>2. IsFiniteSet(result'.scanned)
    <3>1. IsFiniteSet(result.scanned) /\ IsFiniteSet(result.scanned \cup {plan[i]})
      BY FS_AddElement DEF AnswerInv, Counted
    <3>2. result'.scanned \in {result.scanned, result.scanned \cup {plan[i]}}
      BY <1>7, PassOverFields
    <3>3. QED
      BY <3>1, <3>2
  <2>3. Decided' = Decided /\ Answered \subseteq Answered' /\ plan[i] \in Answered'
    BY <1>0, <1>7, <2>1, PassOverFields DEF Decided, Answered
  <2>4. Judged'
    <3> SUFFICES ASSUME NEW k \in 1..Len(plan)
                 PROVE  IF k < i' THEN plan[k] \in Answered' ELSE plan[k] \notin Decided'
      BY <1>7, <2>1, PassOverFields DEF Judged
    <3>1. IF k < i THEN plan[k] \in Answered ELSE plan[k] \notin Decided
      BY <1>7, PassOverFields DEF AnswerInv, Judged
    <3>2. i' = i + 1
      BY <1>7, PassOverFields
    <3>3. QED
      BY <1>0, <2>3, <3>1, <3>2
  <2>5. Counted'
    BY <1>0, <1>7, <2>1, <2>2, <2>3, PassOverFields DEF AnswerInv, Counted
  <2>6. QED
    BY <1>7, <2>4, <2>5, PassOverFields DEF AnswerInv, DistinctPlan
<1>8. CASE StartTable
  <2>1. BlamedIn(result') = BlamedIn(result) /\ ~Reported'
    BY <1>8, StartTableFields DEF BlamedIn, Undecided, Reported
  <2>2. IsFiniteSet(result'.scanned)
    <3>1. IsFiniteSet(result.scanned \cup {plan[i]})
      BY FS_AddElement DEF AnswerInv, Counted
    <3>2. result'.scanned = result.scanned \cup {plan[i]}
      BY <1>8, StartTableFields
    <3>3. QED
      BY <3>1, <3>2
  <2>3. Decided' = Decided /\ Answered' = Answered
    BY <1>0, <1>8, <2>1, StartTableFields DEF Decided, Answered
  <2>4. QED
    BY <1>0, <1>8, <2>1, <2>2, <2>3, StartTableFields DEF AnswerInv, DistinctPlan, Judged, Counted
<1>9. CASE JudgeTable
  <2> DEFINE t == plan[i]
  <2>1. pc = "probe" /\ pc' = "table" /\ i \in 1..Len(plan) /\ i' = i + 1 /\ t \in Tables
        /\ plan' = plan /\ result' \in {JudgeSole(result, t), JudgePair(result, t)}
    BY <1>9, PlannedTable DEF JudgeTable, TypeInv, InPlan
  <2>2. result'.scanned = result.scanned /\ result'.outcome = "running"
    BY <2>1, JudgedFields DEF Undecided
  <2>3. /\ result.noted \subseteq result'.noted /\ result.readOnly \subseteq result'.readOnly
        /\ \/ result'.proven = result.proven /\ Blamed' = Blamed /\ t \in result'.noted
           \/ result'.proven = result.proven /\ Blamed' = Blamed \cup {t}
           \/ result'.proven = result.proven \cup {t} /\ Blamed' = Blamed
    BY <1>0, <2>1, JudgedAnswer
  <2>4. t \notin Decided /\ t \in result.scanned
    BY <2>1 DEF AnswerInv, Judged
  <2>5. Answered \subseteq Answered' /\ t \in Answered' /\ Decided' \subseteq Decided \cup {t}
    BY <2>3 DEF Answered, Decided
  <2>6. Judged'
    <3> SUFFICES ASSUME NEW k \in 1..Len(plan)
                 PROVE  IF k < i' THEN plan[k] \in Answered' ELSE plan[k] \notin Decided'
      BY <2>1, <2>2 DEF Judged, Reported
    <3>1. IF k < i THEN plan[k] \in Answered ELSE plan[k] \notin Decided
      BY <2>1 DEF AnswerInv, Judged
    <3>2. k # i => plan[k] # t
      BY <2>1 DEF AnswerInv, DistinctPlan
    <3>3. QED
      BY <1>0, <2>1, <2>5, <3>1, <3>2
  <2>7. Counted'
    BY <2>2, <2>3, <2>4 DEF AnswerInv, Counted, Decided
  <2>8. QED
    BY <2>1, <2>6, <2>7 DEF AnswerInv, DistinctPlan
<1>10. CASE FinishTables
  <2>1. pc = "table" /\ pc' = "unwind" /\ i > Len(plan) /\ plan' = plan
        /\ result' = [result EXCEPT !.outcome = "report"]
    BY <1>10 DEF FinishTables, StartOther, Report
  <2>2. /\ result'.proven = result.proven /\ result'.readOnly = result.readOnly
        /\ result'.violations = result.violations /\ result'.noted = result.noted
        /\ result'.scanned = result.scanned
    BY <1>0, <2>1 DEF Results
  <2>3. Answered' = Answered /\ Decided' = Decided /\ Blamed' = Blamed
    BY <2>2 DEF Answered, Decided, Blamed
  <2>4. \A k \in 1..Len(plan) : plan[k] \in Answered
    BY <1>0, <2>1 DEF AnswerInv, Judged
  <2>5. QED
    BY <2>1, <2>2, <2>3, <2>4 DEF AnswerInv, DistinctPlan, Judged, Counted
<1>11. CASE Become \/ CountRows \/ OpenProbe \/ CountBefore \/ RunWrite \/ RunInsert \/ CountAfter
           \/ UndoProbe \/ Environment \/ Finished \/ UNCHANGED vars
  <2>1. UNCHANGED <<plan, result, pc, i>>
    BY <1>11 DEF Become, CountRows, OpenProbe, CountBefore, RunWrite, RunInsert, CountAfter, UndoProbe,
                ProbeOther, Environment, Finished, vars, guardVars
  <2>2. QED
    BY <2>1 DEF AnswerInv, DistinctPlan, Judged, Counted, Answered, Decided, Blamed, Reported
<1>12. QED
  BY <1>3, <1>4, <1>5, <1>6, <1>7, <1>8, <1>9, <1>10, <1>11 DEF Next, Guard

\* The subtraction of the summary counts what it names.
LEMMA NotProvenCounts ==
  ASSUME Counted
  PROVE  NotProven = Cardinality(result.scanned \ Decided)
<1> DEFINE S == result.scanned
           P == result.proven
           B == Blamed
<1>1. IsFiniteSet(S) /\ P \in SUBSET S /\ B \in SUBSET S /\ P \cap B = {} /\ S \cap (P \cup B) = P \cup B
  BY DEF Counted, Decided
<1>2. IsFiniteSet(P) /\ IsFiniteSet(B)
  BY <1>1, FS_Subset
<1>3. Cardinality(P \cup B) = Cardinality(P) + Cardinality(B) - Cardinality({})
  BY <1>1, <1>2, FS_Union
<1>4. Cardinality(S \ (P \cup B)) = Cardinality(S) - Cardinality(P \cup B) /\ IsFiniteSet(S \ (P \cup B))
  BY <1>1, FS_Difference
<1>5. Cardinality({}) = 0
  BY FS_EmptySet
<1>6. /\ Cardinality(S) \in Nat /\ Cardinality(P) \in Nat /\ Cardinality(B) \in Nat
      /\ Cardinality(S \ (P \cup B)) \in Nat
  BY <1>1, <1>2, <1>4, FS_CardinalityType
<1>7. QED
  BY <1>3, <1>4, <1>5, <1>6 DEF NotProven, Larger, Decided

\* When rls-proof reports, every planned table has an answer, none is both proven
\* and blamed, and the number of tables "not proven" is exactly the number of
\* scanned tables that are neither.
THEOREM NoTableUnanswered == Spec => []EveryTableAnswered
<1> DEFINE Inv == TypeInv /\ Undecided /\ AnswerInv
<1>1. Init => Inv
  BY TypeInit, UndecidedInit, AnswerInit
<1>2. Inv /\ [Next]_vars => Inv'
  BY TypeStep, UndecidedStep, AnswerStep
<1>3. Inv => EveryTableAnswered
  BY NotProvenCounts DEF AnswerInv, Judged, Counted, Reported, Answered, Decided, EveryTableAnswered
<1>4. QED
  BY <1>1, <1>2, <1>3, PTL DEF Spec

-----------------------------------------------------------------------------
(* LeaksAreReal and ProvenIsolated: the measurements mean what they are    *)
(* taken to mean. While no other session commits, what the probes read and *)
(* change is the baseline; the invariant carries, for every place of the   *)
(* script, what is already known about the table in hand.                  *)

Own(t, x) == Cardinality({r \in Baseline(t) : r.tenant = x})

\* The privileged pass: an only tenant is the only one, two samples are two
\* tenants, and the counts are those of the baseline.
SampledInv ==
  /\ pc \in {"start", "plan", "begin", "seed"} => \A t \in Tables : tenants[t] = <<>>
  /\ \A t \in Tables :
       /\ SoleTenant(t) /\ SampleLimit > 1 =>
            \A r \in Baseline(t) : r.tenant \in {tenants[t][1], NullTenant}
       /\ Len(tenants[t]) >= 2 => tenants[t][1] # tenants[t][2]
       /\ Len(tenants[t]) >= 2 /\ ~(pc = "counts" /\ t = plan[i]) =>
            \A k \in 1..2 : owned[t][k] = Own(t, tenants[t][k])

\* A statement compares two tenants, and what is subtracted from its count are
\* the rows the acting one owns.
Fair(t, s) ==
  /\ s.me # s.other
  /\ s.base = Own(t, s.me) \/ (s.base = 0 /\ Undersampled(t))

InHand(t) == pc = "probe" /\ t = plan[i]

ScriptInv ==
  \A t \in Tables : InHand(t) =>
    /\ SoleTenant(t) \/ Len(tenants[t]) >= 2
    /\ \A s \in ToSet(todo) : Fair(t, s)
    /\ Len(tenants[t]) >= 2 /\ cfg.probeWrites /\ todo # <<>> => todo[Len(todo)].op = "omit"

\* An aborted transaction is one whose probe is being undone.
PhaseInv ==
  /\ status = "lost" => drops > 0
  /\ probe.phase \in {"before", "run", "after", "undo"} => status \in {"open", "lost"}
  /\ probe.phase \in {"run", "caught"} /\ Head(todo).op \notin InsertOps => probe.count = 0

-----------------------------------------------------------------------------
(* What a statement finds out.                                             *)

\* The tenant an INSERT names, and the one its row lands in.
Aim(s) == CASE s.op = "insert" -> s.other [] s.op = "omit" -> NullTenant [] s.op = "self" -> s.me
Lands(t, s) == IF shape[t].trigger = "stamp" THEN Stamp(Assumed(s.me)) ELSE Aim(s)

SeenRows(x, t, y) == {r \in Baseline(t) : r.tenant = y /\ CanRead(x, t, r)}
Watches(s) == IF s.op = "omit" THEN NullTenant ELSE s.me

\* A probe under way works on the baseline, and on the row it inserted.
Doing(t, s, phases) == InHand(t) /\ s = Head(todo) /\ probe.phase \in phases

ProbeInv ==
  \A t \in Tables, s \in ToSet(todo) : Doing(t, s, {"before", "run", "after"}) =>
    /\ probe.phase \in {"before", "run"} /\ status = "open" => work[t] = Baseline(t)
    /\ s.op \in InsertOps /\ probe.phase # "before" =>
         /\ "select" \in shape[t].grants
         /\ probe.count = Cardinality(SeenRows(Assumed(s.me), t, Watches(s)))
    /\ probe.phase = "after" =>
         /\ CanInsert(Assumed(s.me), t, Lands(t, s))
         /\ status = "open" => work[t] = Baseline(t) \cup {Fresh(Lands(t, s))}

\* Tenant x cannot do to the rows of y what the operation tries.
Settled(op, x, y, t) ==
  CASE op = "cross"  -> /\ "select" \in shape[t].grants
                        /\ \A r \in Baseline(t) : r.tenant = y => ~CanRead(x, t, r)
    [] op = "claim"  -> Plain(t) => \A r \in Baseline(t) : r.tenant = y => ~CanUpdate(x, t, r, x)
    [] op = "wipe"   -> Plain(t) => \A r \in Baseline(t) : r.tenant = y => ~CanDelete(x, t, r)
    [] op = "move"   -> Plain(t) => \A r \in Baseline(t) : r.tenant # y => ~CanUpdate(x, t, r, y)
    [] op = "insert" -> "select" \in shape[t].grants => ~CanInsert(x, t, y)
    [] op = "omit"   -> "select" \in shape[t].grants => ~Orphans(x, t)

Changes == {"claim", "wipe", "move"}
Floor(s) == IF s.op = "move" THEN 0 ELSE s.base
Unclean == {"leak", "inconclusive"}

\* The outcome of a probe, before it is recorded.
EvidenceInv ==
  \A t \in Tables, s \in ToSet(todo) : Doing(t, s, {"undo", "caught"}) =>
    /\ s.op \in Changes =>
         /\ probe.count > Floor(s) => WriteLeak(t) \/ Undersampled(t)
         /\ cfg.identity = "ok" =>
              probe.count > Floor(s) \/ Settled(s.op, s.me, s.other, t) \/ status = "lost"
    /\ s.op = "insert" /\ probe.answer = "leak" => InsertLeak(t) \/ Mislaid(t)
    /\ s.op = "omit" /\ probe.answer = "leak" => OrphanLeak(t)
    /\ s.op \in {"insert", "omit"} /\ cfg.identity = "ok" =>
         probe.answer \in Unclean \/ Settled(s.op, s.me, s.other, t)

\* What is recorded as a leak is one.
MeasuredInv ==
  \A t \in Tables : InHand(t) =>
    /\ m.cross > 0 => ReadLeak(t)
    /\ m.write > 0 => WriteLeak(t) \/ Undersampled(t)
    /\ "leak" \in m.inserts => InsertLeak(t) \/ Mislaid(t)
    /\ "leak" \in m.orphans => OrphanLeak(t)
    /\ m.denied => "select" \notin shape[t].grants

-----------------------------------------------------------------------------
(* What is not a leak was asked: each question about the table in hand is  *)
(* still in the script, or answered, or the table cannot end as proven.    *)

Sides(t) ==
  IF Len(tenants[t]) >= 2
    THEN {{<<tenants[t][1], tenants[t][2]>>, <<tenants[t][2], tenants[t][1]>>}}
    ELSE {{<<f, tenants[t][1]>>} : f \in Tenants \ {tenants[t][1]}}

Questions(t) ==
  {"cross"} \cup (IF ~cfg.probeWrites THEN {}
                  ELSE IF Len(tenants[t]) >= 2 THEN Changes \cup {"insert", "omit"}
                  ELSE {"claim", "wipe"})

Pending(op, x, y) == \E s \in ToSet(todo) : s.op = op /\ s.me = x /\ s.other = y

\* The connection was lost before the next statement, which will fail.
Lost == status = "lost" /\ todo # <<>> /\ probe.phase = "idle"

\* In a one-tenant table the last statement may be a write, which takes a lost
\* connection for a refusal.
Excused(op, t) ==
  \/ m.failed \/ m.denied \/ Lost
  \/ op = "cross" /\ m.cross > 0
  \/ op \in Changes /\ (m.write > 0 \/ (SoleTenant(t) /\ drops > 0))
  \/ op \in {"insert", "omit"} /\ Unclean \cap (m.inserts \cup m.orphans) # {}

AskedInv ==
  \A t \in Tables : InHand(t) /\ cfg.identity = "ok" =>
    \E sides \in Sides(t) : \A p \in sides, op \in Questions(t) :
      \/ Pending(op, p[1], p[2])
      \/ Settled(op, p[1], p[2], t)
      \/ Excused(op, t)

KnownInv == /\ SampledInv /\ ScriptInv /\ PhaseInv /\ ProbeInv /\ EvidenceInv
            /\ MeasuredInv /\ AskedInv
QuietInv == writes = 0 => KnownInv

-----------------------------------------------------------------------------
(* Counting and the meaning of the statements.                             *)

LEMMA MoreThanOwn ==
  ASSUME NEW B, IsFiniteSet(B), NEW x, NEW S \in SUBSET B,
         Cardinality(S) > Cardinality({r \in B : r.tenant = x})
  PROVE  \E r \in S : r.tenant # x
<1> DEFINE own == {r \in B : r.tenant = x}
<1>1. IsFiniteSet(own) /\ IsFiniteSet(S)
  BY FS_Subset
<1>2. SUFFICES ASSUME S \in SUBSET own PROVE FALSE
  OBVIOUS
<1>3. Cardinality(S) <= Cardinality(own)
  BY <1>1, <1>2, FS_Subset
<1>4. Cardinality(S) \in Nat /\ Cardinality(own) \in Nat
  BY <1>1, FS_CardinalityType
<1>5. QED
  BY <1>3, <1>4

LEMMA MoreWithForeign ==
  ASSUME NEW B, IsFiniteSet(B), NEW x, NEW r \in B, r.tenant # x
  PROVE  Cardinality(B) > Cardinality({q \in B : q.tenant = x})
<1> DEFINE own == {q \in B : q.tenant = x}
<1>1. IsFiniteSet(own) /\ own \in SUBSET B /\ r \notin own
  BY FS_Subset
<1>2. own \cup {r} \in SUBSET B /\ IsFiniteSet(own \cup {r})
  BY <1>1, FS_AddElement
<1>3. Cardinality(own \cup {r}) = Cardinality(own) + 1
  BY <1>1, FS_AddElement
<1>4. Cardinality(own \cup {r}) <= Cardinality(B)
  BY <1>2, FS_Subset
<1>5. Cardinality(own) \in Nat /\ Cardinality(B) \in Nat
  BY <1>1, FS_CardinalityType
<1>6. QED
  BY <1>3, <1>4, <1>5

LEMMA NoneOrSome ==
  ASSUME NEW S, IsFiniteSet(S)
  PROVE  Cardinality(S) \in Nat /\ (Cardinality(S) > 0 <=> S # {})
  BY FS_CardinalityType, FS_EmptySet

\* The session of a statement on an open connection: the app role, as the tenant
\* of the statement, or as nobody.
LEMMA Asking ==
  ASSUME StrongIdentity, NEW s \in Step, pc = "probe", todo # <<>>, s = Head(todo),
         s.op # "become", status = "open"
  PROVE  /\ role = "app" /\ acting = Assumed(s.me) /\ acting \in Anyone /\ SessionError = ""
         /\ cfg.identity = "ok" => acting = s.me
         /\ cfg.identity # "ok" => acting = NoTenant
         /\ \A y \in Owners : y # s.me => y # acting
         /\ \A t : Exempt(t, cfg.bypass) <=> Unrestricted(t, cfg.bypass)
<1>1. role = "app" /\ acting = Assumed(s.me)
  BY DEF StrongIdentity, IdentityInv, AppRole, Impersonating
<1>2. s.me \in Tenants
  BY DEF Step
<1>3. SessionError = ""
  BY DEF SessionError
<1>4. \A t : Exempt(t, cfg.bypass) <=> Unrestricted(t, cfg.bypass)
  BY <1>1 DEF Exempt
<1>5. QED
  BY <1>1, <1>2, <1>3, <1>4, SentinelAssumption DEF Assumed, Anyone, Owners

\* An error of the session itself, in a probe: the connection is gone.
LEMMA OnlyLost ==
  ASSUME StrongIdentity, pc = "probe"
  PROVE  /\ status \in {"open", "aborted", "lost", "closed"}
         /\ SessionError = "" <=> status = "open"
         /\ status = "lost" => SessionError = "lost"
  BY DEF StrongIdentity, Strong, TypeInv, PgInv, PgTypeOK, HarmlessInv, InTransaction, SessionError

LEMMA Rows ==
  ASSUME StrongIdentity, NEW t \in Tables, work[t] = Baseline(t)
  PROVE  Baseline(t) \in SUBSET Row /\ IsFiniteSet(Baseline(t))
  BY DEF StrongIdentity, Strong, TypeInv, PgInv, PgTypeOK, FiniteRows

\* What a SELECT of the probes counts.
SeenNow(x, t, y) == {r \in work[t] : r.tenant = y /\ CanRead(x, t, r)}

LEMMA CountsSeen ==
  ASSUME StrongIdentity, NEW t \in Tables, NEW s \in Step, InHand(t), todo # <<>>, s = Head(todo),
         s.op # "become", SelectError(t) = "", NEW y
  PROVE  /\ status = "open" /\ "select" \in shape[t].grants
         /\ VisibleCount(t, y) = Cardinality(SeenNow(acting, t, y))
<1>1. status = "open"
  BY OnlyLost DEF SelectError, InHand
<1>2. role = "app" /\ \A u : Exempt(u, cfg.bypass) <=> Unrestricted(u, cfg.bypass)
  BY <1>1, Asking DEF InHand
<1>3. "select" \in shape[t].grants
  BY <1>1, <1>2 DEF SelectError, SessionError, Denied
<1>4. {r \in Visible(t, cfg.bypass) : r.tenant = y} = SeenNow(acting, t, y)
  BY <1>2, <1>3 DEF SeenNow, Visible, Reach, CanRead, May
<1>5. QED
  BY <1>1, <1>3, <1>4 DEF VisibleCount

LEMMA SelectFails ==
  ASSUME StrongIdentity, NEW t \in Tables, pc = "probe", SelectError(t) # ""
  PROVE  \/ SelectError(t) = SessionError /\ status # "open"
         \/ SelectError(t) = "denied" /\ "select" \notin shape[t].grants /\ status = "open"
  BY OnlyLost DEF SelectError, Denied

-----------------------------------------------------------------------------
(* UPDATE.                                                                 *)

Target(s) == IF s.op = "claim" THEN s.me ELSE s.other
Touched(t) == Reach(t, "update", shape[t].upd, cfg.bypass)

\* Whoever may move a row to another tenant may also take it over.
LEMMA HopIsTake ==
  ASSUME NEW t \in Tables, NEW r \in Row, NEW x, NEW y \in Tenants, y # x, CanUpdate(x, t, r, y),
         shape[t].chk \in Policies
  PROVE  CanUpdate(x, t, r, x)
<1>1. [r EXCEPT !.tenant = y].tenant = y /\ [r EXCEPT !.tenant = y].open = r.open
      /\ [r EXCEPT !.tenant = x].tenant = x /\ [r EXCEPT !.tenant = x].open = r.open
  BY DEF Row
<1>2. y # NullTenant
  BY SentinelAssumption
<1>3. Passes(shape[t].chk, x, [r EXCEPT !.tenant = y]) => Passes(shape[t].chk, x, [r EXCEPT !.tenant = x])
  BY <1>1, <1>2 DEF Passes, Policies
<1>4. QED
  BY <1>3 DEF CanUpdate, May

LEMMA TouchedRows ==
  ASSUME StrongIdentity, NEW t \in Tables, NEW s \in Step, Doing(t, s, {"run"}), s \in ToSet(todo),
         status = "open", s.op \in Changes, work[t] = Baseline(t), todo # <<>>
  PROVE  /\ Touched(t) \in SUBSET Baseline(t) /\ IsFiniteSet(Touched(t))
         /\ Touched(t) = {r \in Baseline(t) : Unrestricted(t, cfg.bypass) \/ Passes(shape[t].upd, acting, r)}
         /\ UpdateError(t, Target(s), cfg.bypass) = "" =>
              \A r \in Touched(t) : CanUpdate(acting, t, r, Target(s))
<1>1. role = "app" /\ SessionError = "" /\ \A u : Exempt(u, cfg.bypass) <=> Unrestricted(u, cfg.bypass)
  BY Asking DEF Doing, InHand, Changes
<1>2. Touched(t) = {r \in Baseline(t) : Unrestricted(t, cfg.bypass) \/ Passes(shape[t].upd, acting, r)}
  BY <1>1 DEF Touched, Reach
<1>3. IsFiniteSet(Touched(t))
  BY <1>2, Rows, FS_Subset
<1>4. ASSUME UpdateError(t, Target(s), cfg.bypass) = "", NEW r \in Touched(t)
      PROVE  CanUpdate(acting, t, r, Target(s))
  <2>1. "update" \in shape[t].grants
    BY <1>1, <1>4 DEF UpdateError, Denied
  <2>2. Unrestricted(t, cfg.bypass) \/ \A q \in Retenant(Touched(t), Target(s)) : Passes(shape[t].chk, acting, q)
    BY <1>1, <1>4 DEF UpdateError, Denied, Touched
  <2>3. [r EXCEPT !.tenant = Target(s)] \in Retenant(Touched(t), Target(s))
    BY DEF Retenant
  <2>4. ~Pinned(t, "update", r)
    BY <1>1, <1>4 DEF UpdateError, Denied, Touched
  <2>5. Unrestricted(t, cfg.bypass) \/ Passes(shape[t].upd, acting, r)
    BY <1>2
  <2>6. QED
    BY <2>1, <2>2, <2>3, <2>4, <2>5 DEF CanUpdate, May
<1>5. QED
  BY <1>2, <1>3, <1>4

\* An UPDATE that reaches more rows than the tenant owns is a cross-tenant write.
LEMMA UpdateIsLeak ==
  ASSUME StrongIdentity, NEW t \in Tables, NEW s \in Step, Doing(t, s, {"run"}), s \in ToSet(todo), todo # <<>>,
         status = "open", s.op \in {"claim", "move"}, work[t] = Baseline(t), Fair(t, s),
         UpdateError(t, Target(s), cfg.bypass) = "", Cardinality(Touched(t)) > Floor(s)
  PROVE  WriteLeak(t) \/ Undersampled(t)
<1> DEFINE x == acting
<1>1. /\ x \in Anyone /\ (cfg.identity = "ok" => x = s.me) /\ (cfg.identity # "ok" => x = NoTenant)
      /\ \A y \in Owners : y # s.me => y # x
  BY Asking DEF Doing, InHand
<1>2. /\ Touched(t) \in SUBSET Baseline(t) /\ IsFiniteSet(Touched(t))
      /\ \A r \in Touched(t) : CanUpdate(x, t, r, Target(s))
  BY TouchedRows DEF Changes
<1>3. Baseline(t) \in SUBSET Row /\ IsFiniteSet(Baseline(t))
  BY Rows
<1>4. s.me \in Tenants /\ s.other \in Tenants /\ s.me # s.other /\ Tenants \subseteq Owners
  BY DEF Step, Fair, Owners
<1>5. \A r \in Baseline(t) : r.tenant \in Owners
  BY <1>3 DEF Row, Owners
<1> HIDE DEF x
<1>6. CASE s.op = "claim" /\ s.base = Own(t, s.me)
  <2>1. PICK r \in Touched(t) : r.tenant # s.me
    <3>1. PICK B : B = Baseline(t)
      OBVIOUS
    <3>2. PICK S : S = Touched(t)
      OBVIOUS
    <3>3. Cardinality(S) > Cardinality({r \in B : r.tenant = s.me})
      BY <1>6, <3>1, <3>2 DEF Floor, Own
    <3>4. IsFiniteSet(B) /\ S \in SUBSET B
      BY <1>2, <1>3, <3>1, <3>2
    <3>5. QED
      BY <3>2, <3>3, <3>4, MoreThanOwn
  <2>2. CanUpdate(x, t, r, s.me) /\ r \in Baseline(t) /\ r.tenant \in Owners
    BY <1>2, <1>5, <1>6, <2>1 DEF Target
  <2>3. CASE x = s.me
    BY <1>1, <2>1, <2>2, <2>3 DEF WriteLeak, Takes
  <2>4. CASE x = NoTenant
    BY <1>1, <1>4, <2>1, <2>2, <2>4, SentinelAssumption DEF WriteLeak, Hops
  <2>5. QED
    BY <1>1, <2>3, <2>4
<1>7. CASE s.op = "move"
  <2>1. PICK r \in Touched(t) : TRUE
    BY <1>2, <1>7, NoneOrSome DEF Floor
  <2>2. CanUpdate(x, t, r, s.other) /\ r \in Baseline(t) /\ r.tenant \in Owners
    BY <1>2, <1>5, <1>7 DEF Target
  <2>3. s.other # x
    BY <1>1, <1>4
  <2>4. CASE r.tenant # s.other
    BY <1>1, <1>4, <2>2, <2>3, <2>4 DEF WriteLeak, Hops
  <2>5. CASE r.tenant = s.other
    <3>1. CanUpdate(x, t, r, x)
      BY <1>3, <1>4, <2>2, <2>3, HopIsTake DEF StrongIdentity, Strong, TypeInv, PgInv, PgTypeOK, Shape
    <3>2. QED
      BY <1>1, <2>2, <2>3, <2>5, <3>1 DEF WriteLeak, Takes
  <2>6. QED
    BY <2>4, <2>5
<1>8. QED
  BY <1>6, <1>7 DEF Fair

\* The policies of a plain table pass all rows of a tenant or none.
LEMMA PlainPasses ==
  ASSUME NEW p \in {"none", "all", "own", "shared"}, NEW x \in Tenants, NEW r, NEW q,
         Passes(p, x, r)
  PROVE  /\ r.tenant = q.tenant => Passes(p, x, q)
         /\ r.tenant \in Tenants \ {x} => Passes(p, x, q)
  BY SentinelAssumption DEF Passes

\* An UPDATE that fails, or reaches no more than the tenant's own rows, settles it.
LEMMA UpdateSettles ==
  ASSUME StrongIdentity, NEW t \in Tables, NEW s \in Step, Doing(t, s, {"run"}), s \in ToSet(todo), todo # <<>>,
         status = "open", s.op \in {"claim", "move"}, work[t] = Baseline(t), Fair(t, s),
         cfg.identity = "ok",
         ~(UpdateError(t, Target(s), cfg.bypass) = "" /\ Cardinality(Touched(t)) > Floor(s))
  PROVE  Settled(s.op, s.me, s.other, t)
<1> DEFINE x == s.me
           v == Target(s)
<1>1. /\ acting = x /\ role = "app" /\ SessionError = ""
      /\ Exempt(t, cfg.bypass) <=> Unrestricted(t, cfg.bypass)
  BY Asking DEF Doing, InHand
<1>2. x \in Tenants /\ s.other \in Tenants /\ x # s.other /\ v \in Tenants
  BY DEF Step, Fair, Target
<1>3. Baseline(t) \in SUBSET Row /\ IsFiniteSet(Baseline(t))
  BY Rows
<1>4. /\ Touched(t) \in SUBSET Baseline(t) /\ IsFiniteSet(Touched(t))
      /\ Touched(t) = {r \in Baseline(t) : Unrestricted(t, cfg.bypass) \/ Passes(shape[t].upd, x, r)}
  <2>1. /\ Touched(t) \in SUBSET Baseline(t) /\ IsFiniteSet(Touched(t))
        /\ Touched(t) = {r \in Baseline(t) : Unrestricted(t, cfg.bypass) \/ Passes(shape[t].upd, acting, r)}
    BY TouchedRows DEF Changes
  <2>2. QED
    BY <1>1, <2>1
<1>5. SUFFICES ASSUME Plain(t), NEW r \in Baseline(t), CanUpdate(x, t, r, v),
                      IF s.op = "claim" THEN r.tenant = s.other ELSE r.tenant # s.other
               PROVE  UpdateError(t, v, cfg.bypass) = "" /\ Cardinality(Touched(t)) > Floor(s)
  BY DEF Settled, Target
<1>6. {shape[t].upd, shape[t].chk} \subseteq {"none", "all", "own", "shared"}
  BY <1>5 DEF Plain
<1>7. r \in Touched(t)
  BY <1>4, <1>5 DEF CanUpdate, May
<1>8. UpdateError(t, v, cfg.bypass) = ""
  <2>1. ~Denied(t, "update")
    BY <1>5 DEF CanUpdate, May, Denied
  <2>2. ASSUME ~Exempt(t, cfg.bypass), NEW q \in Retenant(Touched(t), v) PROVE Passes(shape[t].chk, acting, q)
    <3>1. PICK p \in Touched(t) : q = [p EXCEPT !.tenant = v]
      BY DEF Retenant
    <3>2. q.tenant = v /\ [r EXCEPT !.tenant = v].tenant = v
      BY <1>3, <1>4, <3>1 DEF Row
    <3>3. Passes(shape[t].chk, x, [r EXCEPT !.tenant = v])
      BY <1>1, <1>5, <2>2 DEF CanUpdate, May
    <3>4. PICK rv : rv.tenant = v /\ Passes(shape[t].chk, x, rv)
      BY <3>2, <3>3
    <3>5. PICK pol \in {"none", "all", "own", "shared"} : pol = shape[t].chk
      BY <1>6
    <3>6. PICK y \in Tenants : y = x
      BY <1>2
    <3>7. Passes(pol, y, q)
      BY <3>2, <3>4, <3>5, <3>6, PlainPasses
    <3>8. QED
      BY <1>1, <3>5, <3>6, <3>7
  <2>3. ASSUME NEW q \in Touched(t) PROVE ~Pinned(t, "update", q)
    BY <1>4, <1>5 DEF Plain, CanUpdate
  <2>4. PICK hit : hit = Touched(t)
    OBVIOUS
  <2>5. /\ \A q \in hit : ~Pinned(t, "update", q)
        /\ ~Exempt(t, cfg.bypass) => \A q \in Retenant(hit, v) : Passes(shape[t].chk, acting, q)
    BY <2>2, <2>3, <2>4
  <2>6. Reach(t, "update", shape[t].upd, cfg.bypass) = hit
    BY <2>4 DEF Touched
  <2> HIDE DEF x, v
  <2>7. QED
    BY <1>1, <2>1, <2>5, <2>6 DEF UpdateError
<1>9. Cardinality(Touched(t)) > 0 /\ Cardinality(Touched(t)) \in Nat
  BY <1>4, <1>7, NoneOrSome
<1>10. CASE s.op = "claim" /\ s.base = Own(t, x)
  <2>1. r.tenant \in Tenants \ {x}
    BY <1>2, <1>5, <1>10
  <2>2. ASSUME NEW q \in Baseline(t) PROVE q \in Touched(t)
    <3>1. Unrestricted(t, cfg.bypass) \/ Passes(shape[t].upd, x, r)
      BY <1>4, <1>7
    <3>2. QED
      BY <1>2, <1>4, <1>6, <2>1, <3>1, PlainPasses
  <2>3. Touched(t) = Baseline(t)
    BY <1>4, <2>2
  <2>4. Cardinality(Baseline(t)) > Own(t, x)
    BY <1>3, <2>1, MoreWithForeign DEF Own
  <2>5. QED
    BY <1>8, <1>10, <2>3, <2>4 DEF Floor
<1>11. CASE s.op = "move" \/ s.base = 0
  BY <1>8, <1>9, <1>11 DEF Floor
<1>12. QED
  BY <1>10, <1>11 DEF Fair

-----------------------------------------------------------------------------
(* DELETE.                                                                 *)

Wiped(t) == Reach(t, "delete", shape[t].del, cfg.bypass)

LEMMA WipedRows ==
  ASSUME StrongIdentity, NEW t \in Tables, NEW s \in Step, Doing(t, s, {"run"}), s \in ToSet(todo), todo # <<>>,
         status = "open", s.op \in Changes, work[t] = Baseline(t)
  PROVE  /\ Wiped(t) \in SUBSET Baseline(t) /\ IsFiniteSet(Wiped(t))
         /\ Wiped(t) = {r \in Baseline(t) : Unrestricted(t, cfg.bypass) \/ Passes(shape[t].del, acting, r)}
         /\ DeleteError(t, cfg.bypass) = "" => \A r \in Wiped(t) : CanDelete(acting, t, r)
<1>1. role = "app" /\ SessionError = "" /\ \A u : Exempt(u, cfg.bypass) <=> Unrestricted(u, cfg.bypass)
  BY Asking DEF Doing, InHand, Changes
<1>2. Wiped(t) = {r \in Baseline(t) : Unrestricted(t, cfg.bypass) \/ Passes(shape[t].del, acting, r)}
  BY <1>1 DEF Wiped, Reach
<1>3. IsFiniteSet(Wiped(t))
  BY <1>2, Rows, FS_Subset
<1>4. ASSUME DeleteError(t, cfg.bypass) = "", NEW r \in Wiped(t) PROVE CanDelete(acting, t, r)
  <2>1. "delete" \in shape[t].grants /\ ~Pinned(t, "delete", r)
    BY <1>1, <1>4 DEF DeleteError, Denied, Wiped
  <2>2. Unrestricted(t, cfg.bypass) \/ Passes(shape[t].del, acting, r)
    BY <1>2
  <2>3. QED
    BY <2>1, <2>2 DEF CanDelete, May
<1>5. QED
  BY <1>2, <1>3, <1>4

LEMMA DeleteIsLeak ==
  ASSUME StrongIdentity, NEW t \in Tables, NEW s \in Step, Doing(t, s, {"run"}), s \in ToSet(todo), todo # <<>>,
         status = "open", s.op = "wipe", work[t] = Baseline(t), Fair(t, s),
         DeleteError(t, cfg.bypass) = "", Cardinality(Wiped(t)) > Floor(s)
  PROVE  WriteLeak(t) \/ Undersampled(t)
<1> DEFINE x == acting
<1>1. /\ x \in Anyone /\ (cfg.identity = "ok" => x = s.me) /\ (cfg.identity # "ok" => x = NoTenant)
  BY Asking DEF Doing, InHand
<1>2. /\ Wiped(t) \in SUBSET Baseline(t) /\ IsFiniteSet(Wiped(t))
      /\ \A r \in Wiped(t) : CanDelete(x, t, r)
  BY WipedRows DEF Changes
<1>3. Baseline(t) \in SUBSET Row /\ IsFiniteSet(Baseline(t))
  BY Rows
<1> HIDE DEF x
<1>4. CASE s.base = Own(t, s.me)
  <2>1. PICK r \in Wiped(t) : r.tenant # s.me
    <3>1. PICK B : B = Baseline(t)
      OBVIOUS
    <3>2. PICK S : S = Wiped(t)
      OBVIOUS
    <3>3. Cardinality(S) > Cardinality({r \in B : r.tenant = s.me})
      BY <1>4, <3>1, <3>2 DEF Floor, Own
    <3>4. IsFiniteSet(B) /\ S \in SUBSET B
      BY <1>2, <1>3, <3>1, <3>2
    <3>5. QED
      BY <3>2, <3>3, <3>4, MoreThanOwn
  <2>2. CanDelete(x, t, r) /\ r \in Baseline(t) /\ r.tenant \in Owners
    BY <1>2, <1>3 DEF Row, Owners
  <2>3. r.tenant # x
    BY <1>1, <2>1, <2>2, SentinelAssumption DEF Owners
  <2>4. QED
    BY <1>1, <2>2, <2>3 DEF WriteLeak, Takes
<1>5. QED
  BY <1>4 DEF Fair

LEMMA DeleteSettles ==
  ASSUME StrongIdentity, NEW t \in Tables, NEW s \in Step, Doing(t, s, {"run"}), s \in ToSet(todo), todo # <<>>,
         status = "open", s.op = "wipe", work[t] = Baseline(t), Fair(t, s), cfg.identity = "ok",
         ~(DeleteError(t, cfg.bypass) = "" /\ Cardinality(Wiped(t)) > Floor(s))
  PROVE  Settled(s.op, s.me, s.other, t)
<1> DEFINE x == s.me
<1>1. /\ acting = x /\ role = "app" /\ SessionError = ""
      /\ Exempt(t, cfg.bypass) <=> Unrestricted(t, cfg.bypass)
  BY Asking DEF Doing, InHand
<1>2. x \in Tenants /\ s.other \in Tenants /\ x # s.other
  BY DEF Step, Fair
<1>3. Baseline(t) \in SUBSET Row /\ IsFiniteSet(Baseline(t))
  BY Rows
<1>4. /\ Wiped(t) \in SUBSET Baseline(t) /\ IsFiniteSet(Wiped(t))
      /\ Wiped(t) = {r \in Baseline(t) : Unrestricted(t, cfg.bypass) \/ Passes(shape[t].del, x, r)}
  <2>1. /\ Wiped(t) \in SUBSET Baseline(t) /\ IsFiniteSet(Wiped(t))
        /\ Wiped(t) = {r \in Baseline(t) : Unrestricted(t, cfg.bypass) \/ Passes(shape[t].del, acting, r)}
    BY WipedRows DEF Changes
  <2>2. QED
    BY <1>1, <2>1
<1>5. SUFFICES ASSUME Plain(t), NEW r \in Baseline(t), CanDelete(x, t, r), r.tenant = s.other
               PROVE  DeleteError(t, cfg.bypass) = "" /\ Cardinality(Wiped(t)) > Floor(s)
  BY DEF Settled
<1>6. shape[t].del \in {"none", "all", "own", "shared"}
  BY <1>5 DEF Plain
<1>7. r.tenant \in Tenants \ {x}
  BY <1>2, <1>5
<1>8. r \in Wiped(t)
  BY <1>4, <1>5 DEF CanDelete, May
<1>9. DeleteError(t, cfg.bypass) = ""
  <2>1. ~Denied(t, "delete")
    BY <1>5 DEF CanDelete, May, Denied
  <2>2. \A q \in Wiped(t) : ~Pinned(t, "delete", q)
    BY <1>4, <1>5 DEF Plain, CanDelete
  <2>3. QED
    BY <1>1, <2>1, <2>2 DEF DeleteError, Wiped
<1>10. Wiped(t) = Baseline(t)
  <2>1. Unrestricted(t, cfg.bypass) \/ Passes(shape[t].del, x, r)
    BY <1>4, <1>8
  <2>2. ASSUME NEW q \in Baseline(t) PROVE q \in Wiped(t)
    BY <1>2, <1>4, <1>6, <1>7, <2>1, PlainPasses
  <2>3. QED
    BY <1>4, <2>2
<1>11. Cardinality(Baseline(t)) > Own(t, x) /\ Cardinality(Baseline(t)) > 0
  BY <1>3, <1>7, MoreWithForeign, NoneOrSome DEF Own
<1>12. QED
  BY <1>9, <1>10, <1>11 DEF Fair, Floor

-----------------------------------------------------------------------------
(* INSERT.                                                                 *)

\* Who can insert for whom: a stamping trigger leaves only one's own tenant.
LEMMA StampedOnly ==
  ASSUME NEW t \in Tables, NEW x, NEW v, CanInsert(x, t, v)
  PROVE  shape[t].trigger = "stamp" => v = Stamp(x)
  BY DEF CanInsert

LEMMA InsertLands ==
  ASSUME StrongIdentity, NEW t \in Tables, NEW s \in Step, Doing(t, s, {"run"}), s \in ToSet(todo), todo # <<>>,
         status = "open", s.op \in InsertOps
  PROVE  /\ Landed(t, Aim(s), 0) = Fresh(Lands(t, s))
         /\ InsertError(t, Aim(s), cfg.bypass) = "" /\ shape[t].trigger # "swallow" =>
              CanInsert(acting, t, Lands(t, s))
<1>1. /\ role = "app" /\ SessionError = "" /\ acting = Assumed(s.me)
      /\ Exempt(t, cfg.bypass) <=> Unrestricted(t, cfg.bypass)
  BY Asking DEF Doing, InHand, InsertOps
<1>2. Landed(t, Aim(s), 0) = Fresh(Lands(t, s))
  BY <1>1 DEF Landed, Fresh, Lands, Stamp
<1>3. Lands(t, s) = Fresh(Lands(t, s)).tenant /\ (shape[t].trigger = "stamp" => Lands(t, s) = Stamp(acting))
  BY <1>1 DEF Fresh, Lands
<1>4. ASSUME InsertError(t, Aim(s), cfg.bypass) = "", shape[t].trigger # "swallow"
      PROVE  CanInsert(acting, t, Lands(t, s))
  BY <1>1, <1>2, <1>3, <1>4 DEF InsertError, Denied, CanInsert, May
<1>5. QED
  BY <1>2, <1>4

\* An INSERT refused by the policies, the grants or NOT NULL, or one without a row.
LEMMA InsertSettles ==
  ASSUME StrongIdentity, NEW t \in Tables, NEW s \in Step, Doing(t, s, {"run"}), s \in ToSet(todo), todo # <<>>,
         status = "open", s.op \in {"insert", "omit"}, cfg.identity = "ok", Fair(t, s),
         \/ shape[t].trigger = "swallow"
         \/ /\ InsertError(t, Aim(s), cfg.bypass) # ""
            /\ InsertAnswer(s.op, InsertError(t, Aim(s), cfg.bypass)) \notin Unclean
  PROVE  Settled(s.op, s.me, s.other, t)
<1>1. /\ role = "app" /\ SessionError = "" /\ acting = s.me
      /\ Exempt(t, cfg.bypass) <=> Unrestricted(t, cfg.bypass)
  BY Asking DEF Doing, InHand
<1>2. s.me \in Tenants /\ s.other \in Tenants /\ s.me # s.other
  BY DEF Step, Fair
<1>3. Aim(s) = IF s.op = "insert" THEN s.other ELSE NullTenant
  BY DEF Aim
<1>4. SUFFICES ASSUME CanInsert(s.me, t, Aim(s)) PROVE FALSE
  BY <1>3 DEF Settled, Orphans
<1>5. shape[t].trigger # "swallow"
  BY <1>4 DEF CanInsert
<1>6. shape[t].trigger # "stamp"
  BY <1>2, <1>3, <1>4, StampedOnly, SentinelAssumption DEF Stamp
<1>7. Lands(t, s) = Aim(s) /\ Landed(t, Aim(s), 0) = Fresh(Aim(s))
  BY <1>6, InsertLands DEF Lands, InsertOps
<1>8. Fresh(Aim(s)).tenant = Aim(s)
  BY DEF Fresh
<1>9. InsertError(t, Aim(s), cfg.bypass) \in {"", "constraint"}
  BY <1>1, <1>4, <1>5, <1>7, <1>8 DEF InsertError, CanInsert, May, Denied
<1>10. QED
  BY <1>5, <1>9 DEF InsertAnswer, IsPermissionDenied, Unclean

\* A new row is not one of the baseline, so it is counted when it is seen.
LEMMA GrowsWhenSeen ==
  ASSUME StrongIdentity, NEW t \in Tables, NEW v, NEW x, NEW y,
         work[t] = Baseline(t) \cup {Fresh(v)}
  PROVE  Cardinality(SeenNow(x, t, y)) > Cardinality(SeenRows(x, t, y))
           <=> v = y /\ CanRead(x, t, Fresh(v))
<1> DEFINE A == SeenNow(x, t, y)
           S == SeenRows(x, t, y)
<1>1. IsFiniteSet(work[t])
  BY DEF StrongIdentity, Strong, TypeInv, PgInv, FiniteRows
<1>2. Fresh(v) \notin Baseline(t)
  BY DEF StrongIdentity, Strong, TraceInv, ApartFromSeed, Baseline, Fresh
<1>3. IsFiniteSet(A) /\ IsFiniteSet(S)
  <2>1. A \in SUBSET work[t] /\ S \in SUBSET work[t]
    BY DEF SeenRows, SeenNow
  <2>2. QED
    BY <1>1, <2>1, FS_Subset
<1>4. Cardinality(A) \in Nat /\ Cardinality(S) \in Nat
  BY <1>3, FS_CardinalityType
<1>5. Fresh(v).tenant = v
  BY DEF Fresh
<1>6. CASE v = y /\ CanRead(x, t, Fresh(v))
  <2>1. A = S \cup {Fresh(v)} /\ Fresh(v) \notin S
    BY <1>2, <1>5, <1>6 DEF SeenRows, SeenNow
  <2>2. Cardinality(A) = Cardinality(S) + 1
    BY <1>3, <2>1, FS_AddElement
  <2>3. QED
    BY <1>4, <1>6, <2>2
<1>7. CASE ~(v = y /\ CanRead(x, t, Fresh(v)))
  <2>1. A = S
    BY <1>5, <1>7 DEF SeenRows, SeenNow
  <2>2. QED
    BY <1>4, <1>7, <2>1
<1>8. QED
  BY <1>6, <1>7

\* Where the row of an INSERT landed, read from the count: a leak is one, unless
\* the trigger stamped the row for the acting tenant, who cannot see it.
LEMMA GrowthMeans ==
  ASSUME StrongIdentity, ProbeInv, NEW t \in Tables, NEW s \in Step, Doing(t, s, {"after"}), s \in ToSet(todo),
         todo # <<>>, s.op \in {"insert", "omit"}, Fair(t, s), SelectError(t) = ""
  PROVE  LET ans == Grew(s.op, Watched(t, s) > probe.count)
         IN  /\ s.op = "insert" /\ ans = "leak" => InsertLeak(t) \/ Mislaid(t)
             /\ s.op = "omit" /\ ans = "leak" => OrphanLeak(t)
             /\ cfg.identity = "ok" => ans \in Unclean \/ Settled(s.op, s.me, s.other, t)
<1> DEFINE x == acting
           v == Lands(t, s)
           y == Watches(s)
           grew == Watched(t, s) > probe.count
<1>1. /\ status = "open" /\ "select" \in shape[t].grants
      /\ \A z : VisibleCount(t, z) = Cardinality(SeenNow(x, t, z))
  BY CountsSeen DEF Doing
<1>2. /\ x = Assumed(s.me) /\ x \in Anyone
      /\ (cfg.identity = "ok" => x = s.me) /\ (cfg.identity # "ok" => x = NoTenant)
      /\ \A z \in Owners : z # s.me => z # x
  BY <1>1, Asking DEF Doing, InHand
<1>3. s.me \in Tenants /\ s.other \in Tenants /\ s.me # s.other /\ NullTenant \notin Tenants
  BY SentinelAssumption DEF Step, Fair
<1>4. /\ CanInsert(x, t, v) /\ work[t] = Baseline(t) \cup {Fresh(v)}
      /\ probe.count = Cardinality(SeenRows(x, t, y))
  BY <1>1, <1>2 DEF ProbeInv, Doing, InsertOps
<1>5. Watched(t, s) = Cardinality(SeenNow(x, t, y))
  BY <1>1 DEF Watched, Watches
<1>6. grew <=> v = y /\ CanRead(x, t, Fresh(v))
  <2>1. PICK a, b, c : a = v /\ b = x /\ c = y
    OBVIOUS
  <2>2. work[t] = Baseline(t) \cup {Fresh(a)}
    BY <1>4, <2>1
  <2>3. Cardinality(SeenNow(b, t, c)) > Cardinality(SeenRows(b, t, c))
          <=> a = c /\ CanRead(b, t, Fresh(a))
    BY <2>2, GrowsWhenSeen
  <2>4. QED
    BY <1>4, <1>5, <2>1, <2>3
<1>7. shape[t].trigger = "stamp" => v = Stamp(x)
  BY <1>4, StampedOnly
<1>8. shape[t].trigger # "stamp" => v = Aim(s)
  BY DEF Lands
<1> HIDE DEF x, v, y, grew
<1>9. CASE s.op = "insert"
  <2>1. y = s.me /\ Aim(s) = s.other
    BY <1>9 DEF y, Watches, Aim
  <2>2. ASSUME ~grew PROVE InsertLeak(t) \/ Mislaid(t)
    <3>1. CASE shape[t].trigger # "stamp"
      <4>1. CanInsert(x, t, s.other) /\ s.other \in Owners \ {x}
        BY <1>2, <1>3, <1>4, <1>8, <2>1, <3>1 DEF Owners
      <4>2. QED
        BY <1>2, <4>1 DEF InsertLeak, Plants
    <3>2. CASE shape[t].trigger = "stamp"
      <4>1. ASSUME cfg.identity = "ok" PROVE ~CanRead(s.me, t, Fresh(s.me))
        BY <1>2, <1>3, <1>6, <1>7, <2>1, <2>2, <3>2, <4>1 DEF Stamp
      <4>2. QED
        BY <1>3, <3>2, <4>1 DEF Mislaid
    <3>3. QED
      BY <3>1, <3>2
  <2>3. ASSUME grew, cfg.identity = "ok" PROVE ~CanInsert(s.me, t, s.other)
    <3>1. v = s.me
      BY <1>6, <2>1, <2>3
    <3>2. shape[t].trigger = "stamp"
      BY <1>3, <1>8, <2>1, <3>1
    <3>3. QED
      BY <1>3, <3>2, StampedOnly DEF Stamp
  <2>4. Grew(s.op, grew) = IF grew THEN "blocked" ELSE "leak"
    BY <1>9 DEF Grew
  <2>5. CASE grew
    BY <1>9, <2>3, <2>4, <2>5 DEF grew, Settled
  <2>6. CASE ~grew
    BY <1>9, <2>2, <2>4, <2>6 DEF grew, Unclean
  <2>7. QED
    BY <2>5, <2>6
<1>10. CASE s.op = "omit"
  <2>1. y = NullTenant /\ Aim(s) = NullTenant
    BY <1>10 DEF y, Watches, Aim
  <2>2. ASSUME grew PROVE OrphanLeak(t)
    BY <1>2, <1>4, <1>6, <2>1, <2>2 DEF OrphanLeak, Orphans
  <2>3. ASSUME ~grew, cfg.identity = "ok" PROVE ~Orphans(s.me, t)
    <3>1. SUFFICES ASSUME CanInsert(s.me, t, NullTenant), CanRead(s.me, t, Fresh(NullTenant)) PROVE FALSE
      BY DEF Orphans
    <3>2. shape[t].trigger # "stamp"
      BY <1>3, <3>1, StampedOnly DEF Stamp
    <3>3. QED
      BY <1>2, <1>6, <1>8, <2>1, <2>3, <3>1, <3>2
  <2>4. Grew(s.op, grew) = IF grew THEN "leak" ELSE "blocked"
    BY <1>10 DEF Grew
  <2>5. CASE grew
    BY <1>10, <2>2, <2>4, <2>5 DEF grew, Unclean
  <2>6. CASE ~grew
    BY <1>10, <2>3, <2>4, <2>6 DEF grew, Settled
  <2>7. QED
    BY <2>5, <2>6
<1>11. QED
  BY <1>9, <1>10

-----------------------------------------------------------------------------
(* What a step leaves as it was.                                           *)

LEMMA CommitsCount ==
  ASSUME TypeInv, OtherSessions
  PROVE  writes' # 0
<1>1. writes' = writes + 1
  BY DEF OtherSessions, OtherInsert, OtherDelete, CommitElsewhere
<1>2. writes \in Nat
  BY BoundAssumption DEF TypeInv, PgInv, PgTypeOK
<1>3. QED
  BY <1>1, <1>2

\* While no other session commits, the baseline moves only with the seed, and
\* the samples only in the privileged pass.
LEMMA QuietStep ==
  ASSUME TypeInv, [Next]_vars, writes' = 0
  PROVE  /\ writes = 0 /\ UNCHANGED <<cfg, shape, others>>
         /\ pc # "seed" => UNCHANGED seeded
         /\ pc \notin {"sample", "counts"} => UNCHANGED <<tenants, owned>>
         /\ pc # "plan" => UNCHANGED plan
         /\ drops \in Nat /\ drops' \in {drops, drops + 1}
<1>0. drops \in Nat /\ drops + 1 # drops
  BY BoundAssumption DEF TypeInv, PgInv, PgTypeOK
<1> USE DEF pgVars, session, Fail, Apply, Rollback, Abandon
<1>1. CASE SkipRun \/ Connect \/ ConnectFails \/ Close \/ MakePlan \/ BeginProof \/ SeedOne
           \/ SeedFails \/ StartSampling
  BY <1>0, <1>1 DEF SkipRun, Connect, ConnectFails, Close, MakePlan, BeginProof, SeedOne, SeedFails,
              StartSampling, StartOther, EndSession, Begin
<1>2. CASE SampleTenants \/ SampleCounts \/ SetUpCanary \/ SetRole \/ ReadCanary \/ RefuseVacuousPass
  BY <1>0, <1>2 DEF SampleTenants, SampleCounts, SetUpCanary, SetRole, ReadCanary, RefuseVacuousPass,
              SamplingOther, SamplingFails, StartOther
<1>3. CASE PassOver \/ StartTable \/ JudgeTable \/ FinishTables \/ Unwind
  BY <1>0, <1>3 DEF PassOver, StartTable, JudgeTable, FinishTables, Unwind, TableOther, StartOther
<1>4. CASE Become \/ CountRows \/ OpenProbe \/ CountBefore \/ RunWrite \/ RunInsert \/ CountAfter
           \/ UndoProbe
  BY <1>0, <1>4 DEF Become, CountRows, OpenProbe, CountBefore, RunWrite, RunInsert, CountAfter, UndoProbe,
              ProbeOther, SetSavepoint, UndoSavepoint
<1>5. CASE Environment
  <2>1. CASE OtherSessions
    BY <2>1, CommitsCount
  <2>2. CASE Drop
    BY <1>0, <1>5, <2>2 DEF Environment, Drop, guardVars
  <2>3. QED
    BY <1>5, <2>1, <2>2 DEF Environment
<1>6. CASE Finished \/ UNCHANGED vars
  BY <1>0, <1>6 DEF Finished, vars, guardVars
<1>7. QED
  BY <1>1, <1>2, <1>3, <1>4, <1>5, <1>6 DEF Next, Guard

Probing == Become \/ CountRows \/ OpenProbe \/ CountBefore \/ RunWrite \/ RunInsert \/ CountAfter
           \/ UndoProbe

\* What can happen while a table is probed.
LEMMA ProbeActions ==
  ASSUME TypeInv, [Next]_vars, writes' = 0, pc = "probe"
  PROVE  \/ Probing /\ ProbeOther
         \/ JudgeTable
         \/ Drop /\ UNCHANGED guardVars
         \/ UNCHANGED vars
<1>1. CASE SkipRun \/ Connect \/ ConnectFails \/ Close \/ MakePlan \/ BeginProof \/ SeedOne
           \/ SeedFails \/ StartSampling \/ SampleTenants \/ SampleCounts \/ SetUpCanary \/ SetRole
           \/ ReadCanary \/ RefuseVacuousPass \/ PassOver \/ StartTable \/ FinishTables \/ Unwind
  BY <1>1 DEF SkipRun, Connect, ConnectFails, Close, MakePlan, BeginProof, SeedOne,
       SeedFails, StartSampling, SampleTenants, SampleCounts, SetUpCanary, SetRole,
       ReadCanary, RefuseVacuousPass, PassOver, StartTable, FinishTables, Unwind
<1>2. CASE Probing
  BY <1>2 DEF Probing, Become, CountRows, OpenProbe, CountBefore, RunWrite, RunInsert, CountAfter,
              UndoProbe
<1>3. CASE Environment
  <2>1. CASE OtherSessions
    BY <2>1, CommitsCount
  <2>2. QED
    BY <1>3, <2>1 DEF Environment
<1>4. CASE Finished \/ UNCHANGED vars
  BY <1>4 DEF Finished
<1>5. QED
  BY <1>1, <1>2, <1>3, <1>4 DEF Next, Guard, Probing

\* Nothing that decides what a session may do has changed.
Known == <<cfg, shape, others, seeded, tenants>>

LEMMA RightsFrame ==
  ASSUME UNCHANGED Known, NEW t \in Tables
  PROVE  /\ Baseline(t)' = Baseline(t) /\ SoleTenant(t)' = SoleTenant(t)
         /\ Undersampled(t)' = Undersampled(t) /\ Pair(t)' = Pair(t)
         /\ \A x, r : CanRead(x, t, r)' = CanRead(x, t, r)
         /\ \A x, r : CanDelete(x, t, r)' = CanDelete(x, t, r)
         /\ \A x, r, v : CanUpdate(x, t, r, v)' = CanUpdate(x, t, r, v)
         /\ \A x, v : CanInsert(x, t, v)' = CanInsert(x, t, v)
         /\ \A x : Assumed(x)' = Assumed(x)
<1> USE DEF Known, Baseline, May, Unrestricted, Passes, Pinned, Fresh
<1>1. /\ Baseline(t)' = Baseline(t) /\ SoleTenant(t)' = SoleTenant(t)
      /\ Undersampled(t)' = Undersampled(t) /\ Pair(t)' = Pair(t)
      /\ \A x : Assumed(x)' = Assumed(x)
  BY DEF SoleTenant, Undersampled, Pair, Assumed
<1>2. \A x, r : CanRead(x, t, r)' = CanRead(x, t, r)
  BY DEF CanRead
<1>3. \A x, r : CanDelete(x, t, r)' = CanDelete(x, t, r)
  BY DEF CanDelete
<1>4. \A x, r, v : CanUpdate(x, t, r, v)' = CanUpdate(x, t, r, v)
  BY DEF CanUpdate
<1>5. \A x, v : CanInsert(x, t, v)' = CanInsert(x, t, v)
  BY DEF CanInsert, Stamp
<1>6. QED
  BY <1>1, <1>2, <1>3, <1>4, <1>5

Asked == Changes \cup {"cross", "insert", "omit"}

LEMMA TruthFrame ==
  ASSUME UNCHANGED Known, NEW t \in Tables
  PROVE  /\ \A x, ys : Reads(x, t, ys)' = Reads(x, t, ys)
         /\ \A x, ys : Takes(x, t, ys)' = Takes(x, t, ys)
         /\ \A x, ys : Hops(x, t, ys)' = Hops(x, t, ys)
         /\ \A x, ys : Plants(x, t, ys)' = Plants(x, t, ys)
         /\ \A x : Orphans(x, t)' = Orphans(x, t)
         /\ \A k : Leak(t, k)' = Leak(t, k)
         /\ ReadLeak(t)' = ReadLeak(t) /\ WriteLeak(t)' = WriteLeak(t)
         /\ InsertLeak(t)' = InsertLeak(t) /\ OrphanLeak(t)' = OrphanLeak(t)
         /\ Mislaid(t)' = Mislaid(t) /\ Plain(t)' = Plain(t)
         /\ \A s : Fair(t, s)' = Fair(t, s)
         /\ \A op \in Asked : \A x, y : Settled(op, x, y, t)' = Settled(op, x, y, t)
         /\ \A s : Lands(t, s)' = Lands(t, s)
         /\ \A x, y : SeenRows(x, t, y)' = SeenRows(x, t, y)
         /\ Sides(t)' = Sides(t) /\ Questions(t)' = Questions(t)
<1> USE RightsFrame
<1>1. \A x, ys : Reads(x, t, ys)' = Reads(x, t, ys)
  BY DEF Reads
<1>2. \A x, ys : Takes(x, t, ys)' = Takes(x, t, ys)
  BY DEF Takes
<1>3. \A x, ys : Hops(x, t, ys)' = Hops(x, t, ys)
  BY DEF Hops
<1>4. \A x, ys : Plants(x, t, ys)' = Plants(x, t, ys)
  BY DEF Plants
<1>5. \A x : Orphans(x, t)' = Orphans(x, t)
  BY DEF Orphans, Fresh
<1>6. /\ ReadLeak(t)' = ReadLeak(t) /\ WriteLeak(t)' = WriteLeak(t)
      /\ InsertLeak(t)' = InsertLeak(t) /\ OrphanLeak(t)' = OrphanLeak(t)
  BY <1>1, <1>2, <1>3, <1>4, <1>5 DEF ReadLeak, WriteLeak, InsertLeak, OrphanLeak, Anyone, Owners
<1>7. \A k : Leak(t, k)' = Leak(t, k)
  BY <1>6 DEF Leak
<1>8. Mislaid(t)' = Mislaid(t)
  BY DEF Mislaid, Fresh, Known
<1>9. Plain(t)' = Plain(t)
  BY DEF Plain, Pinned, Known
<1>10. \A s : Fair(t, s)' = Fair(t, s)
  BY DEF Fair, Own
<1>11. ASSUME NEW op \in Asked, NEW x, NEW y PROVE Settled(op, x, y, t)' = Settled(op, x, y, t)
  <2>1. CASE op = "cross"
    BY <2>1 DEF Settled, Known
  <2>2. CASE op \in {"claim", "wipe", "move"}
    BY <1>9, <2>2 DEF Settled
  <2>3. CASE op \in {"insert", "omit"}
    BY <1>5, <2>3 DEF Settled, Known
  <2>4. QED
    BY <2>1, <2>2, <2>3 DEF Asked, Changes
<1>12. \A s : Lands(t, s)' = Lands(t, s)
  BY DEF Lands, Aim, Stamp, Assumed, Known
<1>13. \A x, y : SeenRows(x, t, y)' = SeenRows(x, t, y)
  BY DEF SeenRows
<1>14. Sides(t)' = Sides(t) /\ Questions(t)' = Questions(t)
  BY DEF Sides, Questions, Known, Changes
<1>15. QED
  BY <1>1, <1>2, <1>3, <1>4, <1>5, <1>6, <1>7, <1>8, <1>9, <1>10, <1>11, <1>12, <1>13, <1>14

-----------------------------------------------------------------------------
(* The script of a table.                                                  *)

LEMMA Elements ==
  ASSUME NEW S, NEW q \in Seq(S)
  PROVE  /\ ToSet(q) = {q[k] : k \in 1..Len(q)} /\ ToSet(q) \in SUBSET S /\ Len(q) \in Nat
         /\ \A k \in 1..Len(q) : q[k] \in ToSet(q) /\ q[k] \in S
         /\ q = <<>> <=> ToSet(q) = {}
<1>1. Len(q) \in Nat /\ DOMAIN q = 1..Len(q)
  BY LenProperties
<1>2. \A k \in 1..Len(q) : q[k] \in S
  BY ElementOfSeq
<1>3. ToSet(q) = {q[k] : k \in 1..Len(q)}
  BY <1>1 DEF ToSet
<1>4. q = <<>> <=> Len(q) = 0
  BY EmptySeq, <1>1
<1>5. \A k \in 1..Len(q) : q[k] \in ToSet(q)
  BY <1>3
<1>6. ToSet(q) \in SUBSET S
  BY <1>2, <1>3
<1>7. q = <<>> <=> ToSet(q) = {}
  <2>1. CASE Len(q) = 0
    BY <1>3, <1>4, <2>1
  <2>2. CASE Len(q) # 0
    BY <1>1, <1>4, <1>5, <2>2
  <2>3. QED
    BY <2>1, <2>2
<1>8. QED
  BY <1>1, <1>2, <1>3, <1>5, <1>6, <1>7

\* Taking the first statement leaves the others, and the last one in its place.
LEMMA HeadAndTail ==
  ASSUME NEW S, NEW q \in Seq(S), q # <<>>
  PROVE  /\ Head(q) \in S /\ Head(q) \in ToSet(q) /\ Tail(q) \in Seq(S)
         /\ ToSet(q) = {Head(q)} \cup ToSet(Tail(q))
         /\ Tail(q) # <<>> => Tail(q)[Len(Tail(q))] = q[Len(q)]
         /\ Tail(q) = <<>> => q[Len(q)] = Head(q)
<1>1. /\ Head(q) \in S /\ Tail(q) \in Seq(S) /\ Len(Tail(q)) = Len(q) - 1
      /\ \A k \in 1..Len(Tail(q)) : Tail(q)[k] = q[k+1]
      /\ Len(q) \in Nat \ {0} /\ Head(q) = q[1]
  BY HeadTailProperties, EmptySeq
<1>2. ToSet(q) = {q[k] : k \in 1..Len(q)} /\ ToSet(Tail(q)) = {Tail(q)[k] : k \in 1..Len(Tail(q))}
  BY <1>1, Elements
<1>3. ASSUME NEW k \in 1..Len(q) PROVE q[k] = Head(q) \/ (k - 1 \in 1..Len(Tail(q)) /\ q[k] = Tail(q)[k-1])
  BY <1>1
<1>4. ASSUME NEW k \in 1..Len(Tail(q)) PROVE k + 1 \in 1..Len(q) /\ Tail(q)[k] = q[k+1]
  BY <1>1
<1>5. ToSet(q) \subseteq {Head(q)} \cup ToSet(Tail(q))
  BY <1>2, <1>3
<1>6. ToSet(Tail(q)) \subseteq ToSet(q) /\ Head(q) \in ToSet(q)
  BY <1>1, <1>2, <1>4
<1>7. ASSUME Tail(q) # <<>> PROVE Tail(q)[Len(Tail(q))] = q[Len(q)]
  <2>1. Len(Tail(q)) \in Nat \ {0}
    BY <1>1, <1>7, EmptySeq
  <2>2. QED
    BY <1>1, <2>1
<1>8. ASSUME Tail(q) = <<>> PROVE q[Len(q)] = Head(q)
  <2>1. Len(Tail(q)) = 0
    BY <1>8, EmptySeq
  <2>2. Len(q) = 1
    <3>1. Len(q) \in Nat /\ Len(Tail(q)) = Len(q) - 1
      BY <1>1
    <3>2. QED
      BY <2>1, <3>1
  <2>3. QED
    BY <1>1, <2>2
<1>9. QED
  BY <1>1, <1>5, <1>6, <1>7, <1>8

\* A script, or its second half, asks its questions with the tenants it names.
LEMMA OneHalf ==
  ASSUME NEW p \in Seq(Ops), NEW x \in Tenants, NEW y \in Tenants, NEW n \in Nat,
         NEW w, w = Steps(p, x, y, n)
  PROVE  /\ w \in Seq(Step) /\ Len(w) = Len(p)
         /\ \A k \in 1..Len(p) : w[k].op = p[k]
         /\ \A s \in ToSet(w) : s.me = x /\ s.other = y /\ s.base = n
         /\ \A op \in ToSet(p) : \E s \in ToSet(w) : s.op = op /\ s.me = x /\ s.other = y
<1>1. /\ w \in Seq(Step) /\ Len(w) = Len(p) /\ Len(p) \in Nat
      /\ \A k \in 1..Len(p) : w[k].op = p[k] /\ w[k].me = x /\ w[k].other = y /\ w[k].base = n
  BY StepsContent, LenProperties
<1>2. ToSet(w) = {w[k] : k \in 1..Len(w)} /\ ToSet(p) = {p[k] : k \in 1..Len(p)}
  BY <1>1, Elements
<1>3. QED
  BY <1>1, <1>2

Halves(w, p, q, x, y, n, k) ==
  /\ w # <<>> /\ w[Len(w)].op = q[Len(q)]
  /\ \A s \in ToSet(w) : \/ s.me = x /\ s.other = y /\ s.base = n
                         \/ s.me = y /\ s.other = x /\ s.base = k
  /\ \A op \in ToSet(p) : \E s \in ToSet(w) : s.op = op /\ s.me = x /\ s.other = y
  /\ \A op \in ToSet(q) : \E s \in ToSet(w) : s.op = op /\ s.me = y /\ s.other = x

LEMMA TwoHalves ==
  ASSUME NEW p \in Seq(Ops), NEW q \in Seq(Ops), q # <<>>, NEW x \in Tenants, NEW y \in Tenants,
         NEW n \in Nat, NEW k \in Nat, NEW w, w = Steps(p, x, y, n) \o Steps(q, y, x, k)
  PROVE  Halves(w, p, q, x, y, n, k)
<1>1. PICK a : a = Steps(p, x, y, n)
  OBVIOUS
<1>2. PICK b : b = Steps(q, y, x, k)
  OBVIOUS
<1>3. /\ a \in Seq(Step)
      /\ \A s \in ToSet(a) : s.me = x /\ s.other = y /\ s.base = n
      /\ \A op \in ToSet(p) : \E s \in ToSet(a) : s.op = op /\ s.me = x /\ s.other = y
  BY <1>1, OneHalf
<1>4. /\ b \in Seq(Step) /\ Len(b) = Len(q)
      /\ \A j \in 1..Len(q) : b[j].op = q[j]
      /\ \A s \in ToSet(b) : s.me = y /\ s.other = x /\ s.base = k
      /\ \A op \in ToSet(q) : \E s \in ToSet(b) : s.op = op /\ s.me = y /\ s.other = x
  BY <1>2, OneHalf
<1>5. w = a \o b
  BY <1>1, <1>2
<1>6. Len(a) \in Nat /\ Len(b) \in Nat \ {0}
  BY <1>3, <1>4, LenProperties, EmptySeq
<1>7. /\ Len(w) = Len(a) + Len(b) /\ w \in Seq(Step)
      /\ \A j \in 1..Len(a) + Len(b) : w[j] = IF j <= Len(a) THEN a[j] ELSE b[j - Len(a)]
  <2>1. a \in Seq(Step) /\ b \in Seq(Step)
    BY <1>3, <1>4
  <2>2. /\ a \o b \in Seq(Step) /\ Len(a \o b) = Len(a) + Len(b)
        /\ \A j \in 1..Len(a) + Len(b) : (a \o b)[j] = IF j <= Len(a) THEN a[j] ELSE b[j - Len(a)]
    BY <2>1, ConcatProperties
  <2>3. QED
    BY <1>5, <2>2, Zenon
<1>8. Range(w) = Range(a) \cup Range(b)
  BY <1>3, <1>4, <1>5, RangeConcatenation
<1>9. ToSet(w) = ToSet(a) \cup ToSet(b)
  BY <1>8 DEF Range, ToSet
<1>10. w[Len(w)] = b[Len(b)]
  BY <1>6, <1>7
<1>11. w # <<>> /\ w[Len(w)].op = q[Len(q)]
  <2>1. Len(w) # 0
    BY <1>6, <1>7
  <2>2. w # <<>>
    BY <2>1, EmptySeq
  <2>3. Len(q) \in 1..Len(q)
    BY <1>4, <1>6
  <2>4. b[Len(q)].op = q[Len(q)]
    BY <1>4, <2>3
  <2>5. QED
    BY <1>4, <1>10, <2>2, <2>4
<1>12. QED
  BY <1>3, <1>4, <1>9, <1>11 DEF Halves

\* What a table starts with: fair statements, the omitted tenant last, and
\* every question in the script.
Scripted(t, script) ==
  /\ SoleTenant(t) \/ Len(tenants[t]) >= 2
  /\ \A s \in ToSet(script) : Fair(t, s)
  /\ Len(tenants[t]) >= 2 /\ cfg.probeWrites /\ script # <<>> => script[Len(script)].op = "omit"

Poses(t, script) ==
  \E sides \in Sides(t) : \A p \in sides, op \in Questions(t) :
    \E s \in ToSet(script) : s.op = op /\ s.me = p[1] /\ s.other = p[2]

LEMMA ScriptWords ==
  LET solo == <<"become", "cross", "claim", "wipe">>
      look == <<"become", "cross">>
      first == <<"become", "own", "cross", "claim", "wipe", "move", "insert", "omit", "self">>
      second == <<"become", "cross", "claim", "wipe", "move", "insert", "omit">>
      own == <<"become", "own", "cross">>
  IN  /\ solo \in Seq(Ops) /\ {"cross", "claim", "wipe"} \subseteq ToSet(solo)
      /\ look \in Seq(Ops) /\ look # <<>> /\ {"cross"} \subseteq ToSet(look)
      /\ own \in Seq(Ops) /\ {"cross"} \subseteq ToSet(own)
      /\ first \in Seq(Ops) /\ Asked \subseteq ToSet(first)
      /\ second \in Seq(Ops) /\ second # <<>> /\ Asked \subseteq ToSet(second)
      /\ second[Len(second)] = "omit"
<1> DEFINE solo == <<"become", "cross", "claim", "wipe">>
           look == <<"become", "cross">>
           first == <<"become", "own", "cross", "claim", "wipe", "move", "insert", "omit", "self">>
           second == <<"become", "cross", "claim", "wipe", "move", "insert", "omit">>
           own == <<"become", "own", "cross">>
<1>1. /\ solo \in Seq(Ops) /\ look \in Seq(Ops) /\ own \in Seq(Ops)
      /\ first \in Seq(Ops) /\ second \in Seq(Ops)
  BY DEF Ops
<1>2. /\ Len(solo) = 4 /\ Len(look) = 2 /\ Len(own) = 3 /\ Len(first) = 9 /\ Len(second) = 7
      /\ solo[2] = "cross" /\ solo[3] = "claim" /\ solo[4] = "wipe"
      /\ look[2] = "cross" /\ own[3] = "cross"
      /\ first[3] = "cross" /\ first[4] = "claim" /\ first[5] = "wipe" /\ first[6] = "move"
      /\ first[7] = "insert" /\ first[8] = "omit"
      /\ second[2] = "cross" /\ second[3] = "claim" /\ second[4] = "wipe" /\ second[5] = "move"
      /\ second[6] = "insert" /\ second[7] = "omit"
  OBVIOUS
<1>3. look # <<>> /\ second # <<>>
  BY <1>2
<1> HIDE DEF solo, look, first, second, own
<1>4. /\ \A k \in 1..4 : solo[k] \in ToSet(solo)
      /\ \A k \in 1..2 : look[k] \in ToSet(look)
      /\ \A k \in 1..3 : own[k] \in ToSet(own)
      /\ \A k \in 1..9 : first[k] \in ToSet(first)
      /\ \A k \in 1..7 : second[k] \in ToSet(second)
  <2>1. \A q \in Seq(Ops) : \A k \in 1..Len(q) : q[k] \in ToSet(q)
    BY Elements
  <2>2. QED
    BY <1>1, <1>2, <2>1
<1>5. {"cross", "claim", "wipe"} \subseteq ToSet(solo)
  <2>1. solo[2] \in ToSet(solo) /\ solo[3] \in ToSet(solo) /\ solo[4] \in ToSet(solo)
    BY <1>4
  <2>2. QED
    BY <1>2, <2>1
<1>6. {"cross"} \subseteq ToSet(look) /\ {"cross"} \subseteq ToSet(own)
  <2>1. look[2] \in ToSet(look) /\ own[3] \in ToSet(own)
    BY <1>4
  <2>2. QED
    BY <1>2, <2>1
<1>7. Asked \subseteq ToSet(first)
  <2>1. /\ first[3] \in ToSet(first) /\ first[4] \in ToSet(first) /\ first[5] \in ToSet(first)
        /\ first[6] \in ToSet(first) /\ first[7] \in ToSet(first) /\ first[8] \in ToSet(first)
    BY <1>4
  <2>2. QED
    BY <1>2, <2>1 DEF Asked, Changes
<1>8. Asked \subseteq ToSet(second)
  <2>1. /\ second[2] \in ToSet(second) /\ second[3] \in ToSet(second) /\ second[4] \in ToSet(second)
        /\ second[5] \in ToSet(second) /\ second[6] \in ToSet(second) /\ second[7] \in ToSet(second)
    BY <1>4
  <2>2. QED
    BY <1>2, <2>1 DEF Asked, Changes
<1>9. QED
  BY <1>1, <1>2, <1>3, <1>5, <1>6, <1>7, <1>8 DEF solo, look, first, second, own

\* A table with one tenant is asked about as another tenant, who owns none of it.
LEMMA SoleScripted ==
  ASSUME TypeInv, SampledInv, NEW t \in Tables, SoleTenant(t), NEW f \in Tenants,
         f # tenants[t][1], NEW w, w = ForeignScript(t, f)
  PROVE  Scripted(t, w) /\ Poses(t, w)
<1> DEFINE mine == tenants[t][1]
<1>1. mine \in Tenants /\ Len(tenants[t]) = 1
  <2>1. tenants[t] \in Seq(Tenants) /\ 1 \in 1..Len(tenants[t])
    BY DEF SoleTenant, TypeInv, GuardTypeOK
  <2>2. QED
    BY <2>1, ElementOfSeq DEF SoleTenant
<1>2. 0 = Own(t, f) \/ (0 = 0 /\ Undersampled(t))
  <2>1. CASE SampleLimit = 1
    BY <2>1 DEF Undersampled
  <2>2. CASE SampleLimit > 1
    <3>1. {r \in Baseline(t) : r.tenant = f} = {}
      BY <2>2, SentinelAssumption DEF SampledInv
    <3>2. QED
      BY <3>1, FS_EmptySet DEF Own
  <2>3. QED
    BY <2>1, <2>2, SetupAssumption
<1>3. PICK p \in Seq(Ops) :
        /\ p = IF cfg.probeWrites THEN <<"become", "cross", "claim", "wipe">> ELSE <<"become", "cross">>
        /\ IF cfg.probeWrites THEN {"cross", "claim", "wipe"} \subseteq ToSet(p) ELSE {"cross"} \subseteq ToSet(p)
  BY ScriptWords
<1>4. w = Steps(p, f, mine, 0)
  BY <1>3 DEF ForeignScript
<1>5. /\ \A s \in ToSet(w) : s.me = f /\ s.other = mine /\ s.base = 0
      /\ \A op \in ToSet(p) : \E s \in ToSet(w) : s.op = op /\ s.me = f /\ s.other = mine
  BY <1>1, <1>4, OneHalf
<1>6. \A s \in ToSet(w) : Fair(t, s)
  BY <1>2, <1>5 DEF Fair
<1>7. Questions(t) \subseteq ToSet(p)
  BY <1>1, <1>3 DEF Questions
<1>8. {<<f, mine>>} \in Sides(t)
  BY <1>1 DEF Sides
<1>9. Poses(t, w)
  BY <1>5, <1>7, <1>8 DEF Poses
<1>10. QED
  BY <1>1, <1>6, <1>9 DEF Scripted

LEMMA PairScripted ==
  ASSUME TypeInv, SampledInv, pc = "table", NEW t \in Tables, Len(tenants[t]) >= 2,
         NEW w, w = PairScript(t)
  PROVE  Scripted(t, w) /\ Poses(t, w)
<1> DEFINE a == tenants[t][1]
           b == tenants[t][2]
<1>1. a \in Tenants /\ b \in Tenants /\ a # b
  <2>1. tenants[t] \in Seq(Tenants) /\ 1 \in 1..Len(tenants[t]) /\ 2 \in 1..Len(tenants[t])
    BY LenProperties DEF TypeInv, GuardTypeOK
  <2>2. QED
    BY <2>1, ElementOfSeq DEF SampledInv
<1>2. owned[t][1] \in Nat /\ owned[t][2] \in Nat
  BY DEF TypeInv, GuardTypeOK
<1>3. owned[t][1] = Own(t, a) /\ owned[t][2] = Own(t, b)
  BY DEF SampledInv
<1>4. PICK p \in Seq(Ops), q \in Seq(Ops) :
        /\ q # <<>> /\ (cfg.probeWrites => q[Len(q)] = "omit")
        /\ IF cfg.probeWrites THEN Asked \subseteq ToSet(p) /\ Asked \subseteq ToSet(q)
           ELSE "cross" \in ToSet(p) /\ "cross" \in ToSet(q)
        /\ w = Steps(p, a, b, owned[t][1]) \o Steps(q, b, a, owned[t][2])
  <2>1. CASE cfg.probeWrites
    <3>1. PICK p \in Seq(Ops) : /\ Asked \subseteq ToSet(p)
               /\ p = <<"become", "own", "cross", "claim", "wipe", "move", "insert", "omit", "self">>
      BY ScriptWords
    <3>2. PICK q \in Seq(Ops) : /\ Asked \subseteq ToSet(q) /\ q # <<>> /\ q[Len(q)] = "omit"
               /\ q = <<"become", "cross", "claim", "wipe", "move", "insert", "omit">>
      BY ScriptWords
    <3>3. w = Steps(p, a, b, owned[t][1]) \o Steps(q, b, a, owned[t][2])
      BY <2>1, <3>1, <3>2 DEF PairScript
    <3>4. QED
      BY <2>1, <3>1, <3>2, <3>3
  <2>2. CASE ~cfg.probeWrites
    <3>1. PICK p \in Seq(Ops) : {"cross"} \subseteq ToSet(p) /\ p = <<"become", "own", "cross">>
      BY ScriptWords
    <3>2. PICK q \in Seq(Ops) : {"cross"} \subseteq ToSet(q) /\ q # <<>> /\ q = <<"become", "cross">>
      BY ScriptWords
    <3>3. w = Steps(p, a, b, owned[t][1]) \o Steps(q, b, a, owned[t][2])
      BY <2>2, <3>1, <3>2 DEF PairScript
    <3>4. QED
      BY <2>2, <3>1, <3>2, <3>3
  <2>3. QED
    BY <2>1, <2>2
<1>5. /\ w # <<>> /\ w[Len(w)].op = q[Len(q)]
      /\ \A s \in ToSet(w) : \/ s.me = a /\ s.other = b /\ s.base = owned[t][1]
                             \/ s.me = b /\ s.other = a /\ s.base = owned[t][2]
      /\ \A op \in ToSet(p) : \E s \in ToSet(w) : s.op = op /\ s.me = a /\ s.other = b
      /\ \A op \in ToSet(q) : \E s \in ToSet(w) : s.op = op /\ s.me = b /\ s.other = a
  <2>1. PICK n \in Nat, k \in Nat, x \in Tenants, y \in Tenants :
          n = owned[t][1] /\ k = owned[t][2] /\ x = a /\ y = b
    BY <1>1, <1>2
  <2> HIDE DEF a, b
  <2>2. w = Steps(p, x, y, n) \o Steps(q, y, x, k) /\ q # <<>>
    BY <1>4, <2>1
  <2>3. Halves(w, p, q, x, y, n, k)
    BY <2>2, TwoHalves
  <2>4. QED
    BY <2>1, <2>3 DEF Halves
<1> HIDE DEF a, b
<1>6. \A s \in ToSet(w) : Fair(t, s)
  BY <1>1, <1>3, <1>5 DEF Fair
<1>7. Questions(t) \subseteq ToSet(p) /\ Questions(t) \subseteq ToSet(q)
  BY <1>4 DEF Questions, Asked
<1>8. {<<a, b>>, <<b, a>>} \in Sides(t)
  BY DEF Sides, a, b
<1>9. ASSUME NEW z \in {<<a, b>>, <<b, a>>}, NEW op \in Questions(t)
      PROVE  \E s \in ToSet(w) : s.op = op /\ s.me = z[1] /\ s.other = z[2]
  <2>1. CASE z = <<a, b>>
    <3>1. z[1] = a /\ z[2] = b
      BY <2>1
    <3>2. QED
      BY <1>5, <1>7, <3>1
  <2>2. CASE z = <<b, a>>
    <3>1. z[1] = b /\ z[2] = a
      BY <2>2
    <3>2. QED
      BY <1>5, <1>7, <3>1
  <2>3. QED
    BY <2>1, <2>2
<1>10. Poses(t, w)
  BY <1>8, <1>9 DEF Poses
<1>11. QED
  BY <1>4, <1>5, <1>6, <1>10 DEF Scripted

LEMMA StartAsks ==
  ASSUME TypeInv, SampledInv, StartTable
  PROVE  Scripted(plan[i], todo') /\ Poses(plan[i], todo')
<1> DEFINE t == plan[i]
<1>1. pc = "table" /\ t \in Tables
  BY StartTableFields
<1>2. ASSUME SoleTenant(t), NEW f \in Tenants, IsForeign(f, tenants[t][1]), todo' = ForeignScript(t, f)
      PROVE  Scripted(t, todo') /\ Poses(t, todo')
  BY <1>1, <1>2, SoleScripted DEF IsForeign
<1>3. ASSUME Len(tenants[t]) >= 2, todo' = PairScript(t)
      PROVE  Scripted(t, todo') /\ Poses(t, todo')
  BY <1>1, <1>3, PairScripted
<1>4. QED
  BY <1>2, <1>3 DEF StartTable

-----------------------------------------------------------------------------
(* The privileged pass.                                                    *)

\* What is sampled when the transaction is sound are tenants of the baseline.
LEMMA SampleMeans ==
  ASSUME PgInv, NEW t \in Tables, NEW s \in Samples(t), work[t] = Baseline(t)
  PROVE  /\ Len(s) = 1 /\ SampleLimit > 1 => \A r \in Baseline(t) : r.tenant \in {s[1], NullTenant}
         /\ Len(s) >= 2 => s[1] # s[2]
<1> DEFINE k == Cardinality(Present(t))
           n == IF k < SampleLimit THEN k ELSE SampleLimit
<1>1. IsFiniteSet(Present(t))
  <2> DEFINE f == [r \in work[t] |-> r.tenant]
             all == {r.tenant : r \in work[t]}
  <2>1. IsFiniteSet(work[t])
    BY DEF PgInv, FiniteRows
  <2>2. f \in Surjection(work[t], all)
    BY DEF Surjection
  <2>3. IsFiniteSet(all)
    BY <2>1, <2>2, FS_Surjection
  <2>4. QED
    BY <2>3, FS_Difference DEF Present
<1>2. k \in Nat /\ SampleLimit \in Nat \ {0}
  BY <1>1, FS_CardinalityType, SetupAssumption
<1>3. s \in [1..n -> Present(t)] /\ \A a, b \in 1..n : s[a] = s[b] => a = b
  BY DEF Samples
<1>4. s \in Seq(Tenants) /\ DOMAIN s = 1..Len(s) /\ Len(s) \in Nat
  BY SamplesType, LenProperties
<1>5. n \in Nat /\ 1..n = 1..Len(s)
  BY <1>2, <1>3, <1>4
<1>6. n = Len(s)
  BY <1>4, <1>5
<1>7. ASSUME Len(s) = 1, SampleLimit > 1, NEW r \in Baseline(t), r.tenant # NullTenant
      PROVE  r.tenant = s[1]
  <2>1. k = 1
    BY <1>2, <1>6, <1>7
  <2>2. PICK x : Present(t) = {x}
    BY <1>1, <2>1, FS_Singleton
  <2>3. s[1] \in Present(t)
    BY <1>3, <1>6, <1>7
  <2>4. r.tenant \in Present(t)
    BY <1>7 DEF Present
  <2>5. QED
    BY <2>2, <2>3, <2>4
<1>8. ASSUME Len(s) >= 2 PROVE s[1] # s[2]
  <2>1. 1 \in 1..n /\ 2 \in 1..n
    BY <1>4, <1>6, <1>8
  <2>2. QED
    BY <1>3, <2>1
<1>9. QED
  BY <1>7, <1>8

LEMMA SoundWork ==
  ASSUME StrongIdentity, pc \in {"sample", "counts"}, SessionError = ""
  PROVE  \A t \in Tables : work[t] = Baseline(t)
<1>1. probe.phase = "idle"
  BY DEF StrongIdentity, Strong, TypeInv, ProbeInHand
<1>2. status = "open"
  BY DEF StrongIdentity, Strong, TypeInv, PgInv, PgTypeOK, HarmlessInv, InTransaction, SessionError
<1>3. QED
  BY <1>1, <1>2 DEF StrongIdentity, Strong, TraceInv, NoTrace

LEMMA SampledInit == Init => SampledInv
  BY DEF Init, SampledInv, SoleTenant

LEMMA SampledStep ==
  ASSUME StrongIdentity, SampledInv, [Next]_vars, writes' = 0
  PROVE  SampledInv'
<1>0. /\ TypeInv /\ others' = others
      /\ pc # "seed" => UNCHANGED seeded
      /\ pc \notin {"sample", "counts"} => UNCHANGED <<tenants, owned>>
      /\ pc # "plan" => plan' = plan
      /\ tenants \in [Tables -> Seq(Tenants)] /\ owned \in [Tables -> [1..2 -> Nat]]
  BY QuietStep DEF StrongIdentity, Strong, TypeInv, GuardTypeOK
<1> DEFINE Opening == {"start", "plan", "begin", "seed"}
<1>1. ASSUME UNCHANGED <<seeded, tenants, owned>>, pc' \in Opening => pc \in Opening,
             pc = "counts" => UNCHANGED <<pc, plan, i>>
      PROVE  SampledInv'
  BY <1>0, <1>1 DEF SampledInv, SoleTenant, Baseline, Own
<1>2. ASSUME \A t \in Tables : tenants'[t] = <<>> PROVE SampledInv'
  BY <1>2 DEF SampledInv, SoleTenant
<1>3. CASE SeedOne \/ SeedFails
  <2>1. pc = "seed" /\ UNCHANGED tenants
    BY <1>3 DEF SeedOne, SeedFails
  <2>2. QED
    BY <1>2, <2>1 DEF SampledInv
<1>4. ASSUME NEW t \in Tables, pc \in {"sample", "counts"}, pc' \in {"sample", "counts"}, UNCHANGED <<seeded, plan>>,
             t = plan[i], NEW a, NEW b, tenants' = [tenants EXCEPT ![t] = a], owned' = [owned EXCEPT ![t] = b],
             pc' = "counts" => i' = i,
             Len(a) = 1 /\ SampleLimit > 1 => \A r \in Baseline(t) : r.tenant \in {a[1], NullTenant},
             Len(a) >= 2 => a[1] # a[2],
             Len(a) >= 2 /\ pc' # "counts" => \A k \in 1..2 : b[k] = Own(t, a[k])
      PROVE  SampledInv'
  <2>1. \A u \in Tables : Baseline(u)' = Baseline(u)
    BY <1>0, <1>4 DEF Baseline
  <2>2. \A u \in Tables : \A x : Own(u, x)' = Own(u, x)
    BY <2>1 DEF Own
  <2>3. /\ tenants'[t] = a /\ owned'[t] = b
        /\ \A u \in Tables \ {t} : tenants'[u] = tenants[u] /\ owned'[u] = owned[u]
    BY <1>0, <1>4
  <2>4. ASSUME NEW u \in Tables
        PROVE  /\ SoleTenant(u)' /\ SampleLimit > 1 =>
                    \A r \in Baseline(u)' : r.tenant \in {tenants'[u][1], NullTenant}
               /\ Len(tenants'[u]) >= 2 => tenants'[u][1] # tenants'[u][2]
               /\ Len(tenants'[u]) >= 2 /\ ~(pc' = "counts" /\ u = plan'[i']) =>
                    \A k \in 1..2 : owned'[u][k] = Own(u, tenants'[u][k])
    <3>1. CASE u = t
      BY <1>4, <2>1, <2>3, <3>1 DEF SoleTenant
    <3>2. CASE u # t
      <4>1. tenants'[u] = tenants[u] /\ owned'[u] = owned[u] /\ ~(pc = "counts" /\ u = plan[i])
        BY <1>4, <2>3, <3>2
      <4>2. QED
        BY <2>1, <4>1 DEF SampledInv, SoleTenant
    <3>3. QED
      BY <3>1, <3>2
  <2>5. QED
    BY <1>4, <2>2, <2>4 DEF SampledInv
<1>5. CASE SampleTenants
  <2> DEFINE t == plan[i]
  <2>1. /\ pc = "sample" /\ pc' \in {"sample", "counts"} /\ UNCHANGED <<seeded, plan>>
        /\ t \in Tables
    <3>1. pc = "sample" /\ pc' \in {"sample", "counts"} /\ UNCHANGED <<seeded, plan>> /\ i <= Len(plan)
      BY <1>5 DEF SampleTenants, SamplingOther, SamplingFails, NextSampled, Goto
    <3>2. i \in 1..Len(plan)
      BY <1>0, <3>1, LenProperties DEF TypeInv, GuardTypeOK
    <3>3. QED
      BY <1>0, <3>1, <3>2, PlannedTable
  <2>2. owned' = owned /\ owned = [owned EXCEPT ![t] = owned[t]]
    BY <1>0, <1>5 DEF SampleTenants, SamplingFails
  <2> HIDE DEF t
  <2>3. ASSUME tenants' = [tenants EXCEPT ![t] = SeedPair], pc' = "counts", i' = i PROVE SampledInv'
    <3>1. Len(SeedPair) = 2 /\ SeedPair[1] # SeedPair[2]
      BY SeedPairType, LenProperties, SetupAssumption
    <3>2. PICK a : a = SeedPair
      OBVIOUS
    <3>3. PICK b : b = owned[t]
      OBVIOUS
    <3>4. QED
      BY <1>4, <2>1, <2>2, <2>3, <3>1, <3>2, <3>3 DEF t
  <2>4. ASSUME SessionError = "", NEW s \in Samples(t), tenants' = [tenants EXCEPT ![t] = s],
               IF Len(s) >= 2 THEN pc' = "counts" /\ i' = i ELSE pc' = "sample"
        PROVE  SampledInv'
    <3>1. work[t] = Baseline(t) /\ PgInv
      BY <2>1, <2>4, SoundWork DEF StrongIdentity, Strong, TypeInv
    <3>2. /\ Len(s) = 1 /\ SampleLimit > 1 => \A r \in Baseline(t) : r.tenant \in {s[1], NullTenant}
          /\ Len(s) >= 2 => s[1] # s[2]
      BY <2>1, <3>1, SampleMeans
    <3>3. PICK b : b = owned[t]
      OBVIOUS
    <3>4. QED
      BY <1>4, <2>1, <2>2, <2>4, <3>2, <3>3 DEF t
  <2>5. ASSUME tenants' = [tenants EXCEPT ![t] = <<>>], pc' = "sample" PROVE SampledInv'
    <3>1. PICK a : a = <<>> /\ Len(a) # 1 /\ ~(Len(a) >= 2)
      OBVIOUS
    <3>2. PICK b : b = owned[t]
      OBVIOUS
    <3>3. QED
      BY <1>4, <2>1, <2>2, <2>5, <3>1, <3>2 DEF t
  <2>6. QED
    BY <1>5, <2>3, <2>4, <2>5 DEF SampleTenants, SamplingFails, NextSampled, Goto, t
<1>6. CASE SampleCounts
  <2> DEFINE t == plan[i]
  <2>1. pc = "counts" /\ pc' = "sample" /\ UNCHANGED <<seeded, plan>> /\ t \in Tables
    BY <1>0, <1>6, PlannedTable
       DEF SampleCounts, SamplingOther, SamplingFails, NextSampled, Goto, TypeInv, InPlan
  <2>2. \A u \in Tables : owned[u] \in [1..2 -> Nat] /\ tenants[u] \in Seq(Tenants)
    BY <1>0
  <2> HIDE DEF t
  <2>3. ASSUME tenants' = [tenants EXCEPT ![t] = <<>>], owned' = owned PROVE SampledInv'
    <3>1. PICK a : a = <<>> /\ Len(a) # 1 /\ ~(Len(a) >= 2)
      OBVIOUS
    <3>2. PICK b : b = owned[t]
      OBVIOUS
    <3>3. owned' = [owned EXCEPT ![t] = b]
      BY <1>0, <2>3, <3>2
    <3>4. QED
      BY <1>4, <2>1, <2>3, <3>1, <3>3 DEF t
  <2>4. ASSUME SessionError = "", tenants' = tenants,
               owned' = [owned EXCEPT ![t] = <<CountOf(t, tenants[t][1]), CountOf(t, tenants[t][2])>>]
        PROVE  SampledInv'
    <3>1. \A x : CountOf(t, x) = Own(t, x)
      BY <2>1, <2>4, SoundWork DEF CountOf, Own
    <3>2. PICK a : a = tenants[t]
      OBVIOUS
    <3>3. PICK b : b = <<CountOf(t, a[1]), CountOf(t, a[2])>>
      OBVIOUS
    <3>4. tenants' = [tenants EXCEPT ![t] = a] /\ owned' = [owned EXCEPT ![t] = b]
      BY <1>0, <2>4, <3>2, <3>3
    <3>5. \A k \in 1..2 : b[k] = Own(t, a[k])
      BY <3>1, <3>3
    <3>6. /\ Len(a) = 1 /\ SampleLimit > 1 => \A r \in Baseline(t) : r.tenant \in {a[1], NullTenant}
          /\ Len(a) >= 2 => a[1] # a[2]
      BY <2>1, <3>2 DEF SampledInv, SoleTenant
    <3>7. QED
      BY <1>4, <2>1, <3>4, <3>5, <3>6 DEF t
  <2>5. QED
    BY <1>6, <2>3, <2>4 DEF SampleCounts, SamplingFails, t
<1>7. CASE SkipRun \/ Connect \/ ConnectFails \/ Close \/ MakePlan \/ BeginProof \/ StartSampling
           \/ SetUpCanary \/ SetRole \/ ReadCanary \/ RefuseVacuousPass \/ FinishTables \/ Unwind
  <2>1. /\ pc' \in Opening => pc \in Opening
        /\ pc # "counts" /\ UNCHANGED <<seeded, tenants, owned>>
    BY <1>7 DEF SkipRun, Connect, ConnectFails, Close, MakePlan, BeginProof, StartSampling, StartOther,
       SetUpCanary, SetRole, ReadCanary, RefuseVacuousPass, FinishTables, Unwind, Goto
  <2>2. QED
    BY <1>1, <2>1
<1>8. CASE PassOver \/ StartTable \/ JudgeTable \/ Probing
  <2>1. /\ pc' \notin Opening /\ pc \notin {"seed", "sample", "counts"}
    BY <1>8 DEF PassOver, StartTable, JudgeTable, Probing, Become, CountRows, OpenProbe, CountBefore, RunWrite,
       RunInsert, CountAfter, UndoProbe, Undoing, Now, In, ProbeOther, Goto
  <2>2. QED
    BY <1>0, <1>1, <2>1
<1>9. CASE Environment \/ Finished \/ UNCHANGED vars
  BY <1>1, <1>9 DEF Environment, Finished, vars, guardVars
<1>10. QED
  BY <1>3, <1>5, <1>6, <1>7, <1>8, <1>9 DEF Next, Guard, Probing

-----------------------------------------------------------------------------
(* The steps outside the probes.                                           *)

LEMMA PhaseInit == Init => PhaseInv
  BY DEF Init, PhaseInv, NoProbe

\* A connection is lost by Drop only.
LEMMA LostByDrop ==
  ASSUME TypeInv, [Next]_vars, status' = "lost", status # "lost"
  PROVE  Drop
<1>1. \/ Drop \/ OtherSessions \/ status' \in {status, "idle", "open", "aborted", "closed"}
      \/ UndoSavepoint
  <2> USE DEF Fail, Apply, Rollback, Abandon, pgVars, session
  <2>1. CASE SkipRun \/ Connect \/ ConnectFails \/ Close \/ MakePlan \/ BeginProof \/ SeedOne
             \/ SeedFails \/ StartSampling
    BY <2>1 DEF SkipRun, Connect, ConnectFails, Close, MakePlan, BeginProof, SeedOne, SeedFails,
                StartSampling, StartOther, EndSession, Begin
  <2>2. CASE SampleTenants \/ SampleCounts \/ SetUpCanary \/ SetRole \/ ReadCanary \/ RefuseVacuousPass
    BY <2>2 DEF SampleTenants, SampleCounts, SetUpCanary, SetRole, ReadCanary, RefuseVacuousPass,
                SamplingFails
  <2>3. CASE PassOver \/ StartTable \/ JudgeTable \/ FinishTables \/ Unwind
    BY <2>3 DEF PassOver, StartTable, JudgeTable, FinishTables, Unwind, TableOther
  <2>4. CASE Become \/ CountRows \/ OpenProbe \/ CountBefore \/ RunWrite \/ RunInsert \/ CountAfter
             \/ UndoProbe
    BY <2>4 DEF Become, CountRows, OpenProbe, CountBefore, RunWrite, RunInsert, CountAfter, UndoProbe,
                SetSavepoint
  <2>5. CASE Environment \/ Finished \/ UNCHANGED vars
    BY <2>5 DEF Environment, Finished, vars
  <2>6. QED
    BY <2>1, <2>2, <2>3, <2>4, <2>5 DEF Next, Guard
<1>2. CASE OtherSessions
  BY <1>2 DEF OtherSessions, OtherInsert, OtherDelete, CommitElsewhere
<1>3. CASE UndoSavepoint
  BY <1>3 DEF UndoSavepoint, session
<1>4. QED
  BY <1>1, <1>2, <1>3

\* What a statement of the script leaves of it.
LEMMA ProbingScript ==
  ASSUME TypeInv, Probing, ProbeOther
  PROVE  /\ pc = "probe" /\ pc' = "probe" /\ i' = i /\ plan' = plan /\ plan[i] \in Tables
         /\ todo # <<>> /\ Head(todo) \in Step /\ Head(todo) \in ToSet(todo)
         /\ ToSet(todo) = {Head(todo)} \cup ToSet(Tail(todo))
         /\ todo' \in {todo, Tail(todo), <<>>}
<1>1. pc = "probe" /\ todo # <<>> /\ todo' \in {todo, Tail(todo), <<>>}
  BY DEF Probing, Become, CountRows, OpenProbe, CountBefore, RunWrite, RunInsert, CountAfter, UndoProbe,
     Undoing, Now, In, Abandon
<1>2. plan[i] \in Tables
  BY <1>1, PlannedTable DEF TypeInv, InPlan
<1>3. todo \in Seq(Step)
  BY DEF TypeInv, GuardTypeOK
<1>4. QED
  BY <1>1, <1>2, <1>3, HeadAndTail DEF ProbeOther

LEMMA PhaseStep ==
  ASSUME StrongIdentity, PhaseInv, [Next]_vars, writes' = 0
  PROVE  PhaseInv'
<1>0. /\ TypeInv /\ drops \in Nat /\ drops' \in {drops, drops + 1} /\ UNCHANGED cfg
  BY QuietStep DEF StrongIdentity, Strong
<1>1. status' = "lost" => drops' > 0
  BY <1>0, LostByDrop DEF PhaseInv, Drop
<1>2. ASSUME probe'.phase = "idle" PROVE PhaseInv'
  BY <1>1, <1>2 DEF PhaseInv
<1>3. ProbeInHand'
  BY <1>0, TypeStep DEF TypeInv
<1>4. CASE pc = "probe" /\ pc' = "probe"
  <2>1. probe \in [phase: Phases, count: Nat, answer: Answers] /\ NoProbe.count = 0
    BY <1>0 DEF TypeInv, GuardTypeOK, NoProbe
  <2>2. CASE Become \/ CountRows
    <3>1. probe' = probe /\ probe.phase = "idle"
      BY <2>2 DEF Become, CountRows, Now, Abandon
    <3>2. QED
      BY <1>2, <3>1
  <2>3. CASE OpenProbe
    <3>1. CASE SessionError # ""
      <4>1. probe' = probe /\ probe.phase = "idle"
        BY <2>3, <3>1 DEF OpenProbe, Now, Abandon
      <4>2. QED
        BY <1>2, <4>1
    <3>2. CASE SessionError = ""
      <4>1. status = "open"
        BY <1>4, <3>2, OnlyLost
      <4>2. /\ probe' = [NoProbe EXCEPT !.phase = IF Head(todo).op \in InsertOps THEN "before" ELSE "run"]
            /\ status' = status /\ todo' = todo
        BY <2>3, <3>2 DEF OpenProbe, SetSavepoint
      <4>3. probe'.count = 0 /\ probe'.phase \in {"before", "run"}
        BY <4>2 DEF NoProbe
      <4>4. QED
        BY <1>1, <4>1, <4>2, <4>3 DEF PhaseInv
    <3>3. QED
      BY <3>1, <3>2
  <2>4. CASE CountBefore \/ CountAfter \/ RunInsert
    <3>1. /\ probe.phase \in {"before", "run", "after"} /\ todo' = todo /\ Head(todo).op \in InsertOps
          /\ \/ probe'.phase = "caught"
             \/ status' = status /\ probe'.phase \in Phases
      BY <1>0, <2>1, <2>4 DEF CountBefore, CountAfter, RunInsert, In, TypeInv, ProbeInHand, Apply, pgVars,
         session, Phases
    <3>2. QED
      BY <1>1, <3>1 DEF PhaseInv
  <2>5. CASE RunWrite
    <3>1. probe.phase = "run" /\ probe.count = 0 /\ todo' = todo
      BY <2>5 DEF RunWrite, In, PhaseInv
    <3>2. CASE probe' = [probe EXCEPT !.phase = "caught"]
      BY <1>1, <2>1, <3>1, <3>2 DEF PhaseInv
    <3>3. CASE probe'.phase = "undo" /\ status' = status
      BY <1>1, <3>1, <3>3 DEF PhaseInv
    <3>4. \/ probe' = [probe EXCEPT !.phase = "caught"]
          \/ probe'.phase = "undo" /\ status' = status
      BY <2>1, <2>5 DEF RunWrite, Apply, session
    <3>5. QED
      BY <3>2, <3>3, <3>4
  <2>6. CASE UndoProbe
    BY <1>2, <2>6 DEF UndoProbe, NoProbe
  <2>7. CASE Drop /\ UNCHANGED guardVars
    BY <1>1, <2>7 DEF PhaseInv, Drop, guardVars
  <2>8. CASE UNCHANGED vars
    BY <1>1, <2>8 DEF PhaseInv, vars, guardVars, pgVars, session
  <2>9. CASE JudgeTable
    BY <1>4, <2>9 DEF JudgeTable, Goto
  <2>10. QED
    BY <1>0, <1>4, <2>2, <2>3, <2>4, <2>5, <2>6, <2>7, <2>8, <2>9, ProbeActions DEF Probing
<1>5. CASE pc' # "probe"
  BY <1>2, <1>3, <1>5 DEF ProbeInHand
<1>6. CASE pc # "probe" /\ pc' = "probe"
  <2>1. probe' = probe /\ probe.phase = "idle"
    <3>1. StartTable
      BY <1>6 DEF Next, Guard, SkipRun, Connect, ConnectFails, Close, MakePlan, BeginProof, SeedOne,
       SeedFails, StartSampling, SampleTenants, SampleCounts, SamplingFails, NextSampled, SetUpCanary, SetRole,
       ReadCanary, RefuseVacuousPass, PassOver, FinishTables, Unwind, Goto, Become, CountRows, OpenProbe,
       CountBefore, RunWrite, RunInsert, CountAfter, UndoProbe, Undoing, Now, In, ProbeOther, JudgeTable,
       Environment, Finished, vars, guardVars
    <3>2. QED
      BY <1>0, <3>1, StartTableFields
  <2>2. QED
    BY <1>2, <2>1
<1>7. QED
  BY <1>4, <1>5, <1>6

-----------------------------------------------------------------------------
(* The table in hand.                                                      *)

TableInv == ScriptInv /\ ProbeInv /\ EvidenceInv /\ MeasuredInv /\ AskedInv

LEMMA NoneInHand ==
  ASSUME pc' # "probe"
  PROVE  TableInv'
  BY DEF TableInv, ScriptInv, ProbeInv, EvidenceInv, MeasuredInv, AskedInv, Doing, InHand

LEMMA TableInit == Init => TableInv
  BY DEF Init, TableInv, ScriptInv, ProbeInv, EvidenceInv, MeasuredInv, AskedInv, Doing, InHand

LEMMA StartTableStep ==
  ASSUME StrongIdentity, SampledInv, StartTable, [Next]_vars, writes' = 0
  PROVE  TableInv'
<1>0. TypeInv
  BY DEF StrongIdentity, Strong
<1>t. PICK t \in Tables : t = plan[i]
  BY <1>0, StartTableFields
<1>1. /\ pc = "table" /\ pc' = "probe" /\ i' = i /\ plan' = plan /\ t = plan[i] /\ t = plan'[i']
      /\ probe.phase = "idle" /\ probe' = probe /\ m' = NoMeasure
  BY <1>0, <1>t, StartTableFields
<1>2. UNCHANGED Known /\ UNCHANGED cfg
  BY <1>0, <1>1, QuietStep DEF Known
<1>3. Scripted(t, todo') /\ Poses(t, todo')
  BY <1>0, <1>1, StartAsks
<1>4. \A u \in Tables : InHand(u)' <=> u = t
  BY <1>1 DEF InHand
<1>5. ScriptInv'
  <2>1. \A s : Fair(t, s)' = Fair(t, s)
    BY <1>1, <1>2, TruthFrame
  <2>2. tenants' = tenants /\ SoleTenant(t)' = SoleTenant(t)
    BY <1>1, <1>2, RightsFrame DEF Known
  <2>3. QED
    BY <1>2, <1>3, <1>4, <2>1, <2>2 DEF ScriptInv, Scripted
<1>6. ProbeInv' /\ EvidenceInv'
  BY <1>1 DEF ProbeInv, EvidenceInv, Doing
<1>7. MeasuredInv'
  BY <1>1 DEF MeasuredInv, NoMeasure
<1>8. AskedInv'
  <2>1. PICK sides \in Sides(t) : \A p \in sides, op \in Questions(t) :
          \E s \in ToSet(todo') : s.op = op /\ s.me = p[1] /\ s.other = p[2]
    BY <1>3 DEF Poses
  <2>2. sides \in Sides(t)' /\ Questions(t)' = Questions(t)
    BY <1>1, <1>2, TruthFrame
  <2>3. \A p \in sides, op \in Questions(t) : Pending(op, p[1], p[2])'
    BY <2>1 DEF Pending
  <2>4. QED
    BY <1>4, <2>2, <2>3 DEF AskedInv
<1>9. QED
  BY <1>5, <1>6, <1>7, <1>8 DEF TableInv

-----------------------------------------------------------------------------
(* The statements: what is recorded about a probe under way.               *)

\* The statement s of table t is the one to be executed, or under way.
Facing(t, s) ==
  /\ t \in Tables /\ s \in Step /\ InHand(t)
  /\ todo # <<>> /\ s = Head(todo) /\ s \in ToSet(todo)

LEMMA SameFacing ==
  ASSUME NEW t, NEW s, Facing(t, s), ProbeOther, todo' = todo, NEW u, NEW z, NEW P, Doing(u, z, P)'
  PROVE  u = t /\ z = s /\ probe'.phase \in P
  BY DEF Facing, ProbeOther, Doing, InHand

\* Inside a probe the connection is open or lost.
LEMMA OpenOrLost ==
  ASSUME StrongIdentity, PhaseInv, pc = "probe", probe.phase \in {"before", "run", "after", "undo"}
  PROVE  \/ status = "open" /\ SessionError = ""
         \/ status = "lost" /\ SessionError = "lost"
  BY OnlyLost DEF PhaseInv

LEMMA CountSettled ==
  ASSUME StrongIdentity, PhaseInv, ProbeInv, NEW t, NEW s, Facing(t, s), CountBefore, UNCHANGED Known
  PROVE  ProbeInv' /\ EvidenceInv'
<1>1. /\ probe.phase = "before" /\ s.op \in InsertOps /\ todo' = todo /\ ProbeOther /\ t = plan[i]
      /\ probe \in [phase: Phases, count: Nat, answer: Answers]
  BY DEF CountBefore, In, Facing, InHand, StrongIdentity, Strong, TypeInv, ProbeInHand, GuardTypeOK
<1>2. Doing(t, s, {"before", "run", "after"})
  BY <1>1 DEF Facing, Doing
<1> DEFINE e == SelectError(t)
<1>3. CASE e # ""
  <2>1. probe'.phase = "caught" /\ probe'.answer = InsertAnswer(s.op, e)
    BY <1>1, <1>3 DEF CountBefore, Facing
  <2>2. \/ e = "lost"
        \/ e = "denied" /\ "select" \notin shape[t].grants
    BY <1>1, <1>3, OpenOrLost, SelectFails DEF Facing, InHand
  <2>3. /\ probe'.answer # "leak"
        /\ s.op \in {"insert", "omit"} => probe'.answer \in Unclean \/ Settled(s.op, s.me, s.other, t)
    BY <2>1, <2>2 DEF InsertAnswer, IsPermissionDenied, Unclean, Settled
  <2>4. \A op \in Asked : Settled(op, s.me, s.other, t)' = Settled(op, s.me, s.other, t)
    BY TruthFrame DEF Facing
  <2>5. ProbeInv'
    BY <2>1 DEF ProbeInv, Doing
  <2>6. EvidenceInv'
    BY <1>1, <2>1, <2>3, <2>4, SameFacing DEF EvidenceInv, Changes, InsertOps, Asked
  <2>7. QED
    BY <2>5, <2>6
<1>4. CASE e = ""
  <2>1. /\ probe'.phase = "run" /\ probe'.count = Watched(t, s) /\ UNCHANGED pgVars
    BY <1>1, <1>4 DEF CountBefore, Facing
  <2>2. status = "open" /\ "select" \in shape[t].grants
        /\ \A y : VisibleCount(t, y) = Cardinality(SeenNow(acting, t, y))
    BY <1>1, <1>4, CountsSeen DEF Facing, InsertOps
  <2>3. work[t] = Baseline(t)
    BY <1>1, <1>2, <2>2 DEF ProbeInv, Facing
  <2>4. acting = Assumed(s.me)
    BY <1>1, <2>2, Asking DEF Facing, InHand, InsertOps
  <2>5. Watched(t, s) = Cardinality(SeenRows(Assumed(s.me), t, Watches(s)))
    BY <2>2, <2>3, <2>4 DEF Watched, Watches, SeenNow, SeenRows
  <2>6. /\ Baseline(t)' = Baseline(t) /\ Assumed(s.me)' = Assumed(s.me)
        /\ \A x, y : SeenRows(x, t, y)' = SeenRows(x, t, y)
    BY RightsFrame, TruthFrame DEF Facing
  <2>7. /\ work'[t] = Baseline(t)' /\ "select" \in shape'[t].grants
        /\ (probe.count = Cardinality(SeenRows(Assumed(s.me), t, Watches(s))))'
    <3>1. work' = work /\ shape' = shape /\ Watches(s)' = Watches(s)
      BY <2>1 DEF pgVars, Watches
    <3>2. QED
      BY <2>1, <2>2, <2>3, <2>5, <2>6, <3>1
  <2>8. ProbeInv'
    BY <1>1, <2>1, <2>7, SameFacing DEF ProbeInv
  <2>9. EvidenceInv'
    BY <2>1 DEF EvidenceInv, Doing
  <2>10. QED
    BY <2>8, <2>9
<1>5. QED
  BY <1>3, <1>4

LEMMA OpenSettled ==
  ASSUME StrongIdentity, NEW t, NEW s, Facing(t, s), OpenProbe, UNCHANGED Known
  PROVE  ProbeInv' /\ EvidenceInv'
<1>1. probe.phase = "idle"
  BY DEF OpenProbe, Now
<1>2. CASE SessionError # ""
  BY <1>1, <1>2 DEF OpenProbe, Abandon, ProbeInv, EvidenceInv, Doing
<1>3. CASE SessionError = ""
  <2>1. status = "open"
    BY <1>3, OnlyLost DEF Facing, InHand
  <2>2. \A u \in Tables : work[u] = Baseline(u)
    BY <1>1, <2>1 DEF StrongIdentity, Strong, TraceInv, NoTrace
  <2>3. /\ probe' = [NoProbe EXCEPT !.phase = IF Head(todo).op \in InsertOps THEN "before" ELSE "run"]
        /\ todo' = todo /\ work' = work
    BY <1>3 DEF OpenProbe, SetSavepoint
  <2>4. probe'.phase = IF Head(todo).op \in InsertOps THEN "before" ELSE "run"
    BY <2>3 DEF NoProbe
  <2>5. \A u \in Tables : Baseline(u)' = Baseline(u)
    BY RightsFrame
  <2>6. ProbeInv'
    BY <2>2, <2>3, <2>4, <2>5 DEF ProbeInv, Doing
  <2>7. EvidenceInv'
    BY <2>4 DEF EvidenceInv, Doing
  <2>8. QED
    BY <2>6, <2>7
<1>4. QED
  BY <1>2, <1>3

LEMMA WriteSettled ==
  ASSUME StrongIdentity, PhaseInv, ScriptInv, ProbeInv, NEW t, NEW s, Facing(t, s), RunWrite, UNCHANGED Known
  PROVE  ProbeInv' /\ EvidenceInv'
<1>1. /\ probe.phase = "run" /\ s.op \in Changes /\ todo' = todo /\ ProbeOther /\ t = plan[i]
      /\ probe \in [phase: Phases, count: Nat, answer: Answers] /\ probe.count = 0
  BY DEF RunWrite, In, Facing, InHand, StrongIdentity, Strong, TypeInv, GuardTypeOK, PhaseInv, ProbeOps,
         InsertOps, Changes
<1>2. Doing(t, s, {"before", "run", "after"}) /\ Doing(t, s, {"run"}) /\ t \in Tables /\ s \in Step
      /\ Fair(t, s) /\ s \in ToSet(todo) /\ todo # <<>>
  BY <1>1 DEF Facing, Doing, ScriptInv
<1>3. status = "open" => work[t] = Baseline(t)
  BY <1>1, <1>2 DEF ProbeInv
<1> DEFINE e == IF s.op = "wipe" THEN DeleteError(t, cfg.bypass) ELSE UpdateError(t, Target(s), cfg.bypass)
           hit == IF s.op = "wipe" THEN Wiped(t) ELSE Touched(t)
<1>4. /\ e # "" => probe'.phase = "caught" /\ probe'.count = 0
      /\ e = "" => probe'.phase = "undo" /\ probe'.count = Cardinality(hit)
      /\ status = "lost" => status' = "lost"
  <2>1. e # "" => Fail /\ probe' = [probe EXCEPT !.phase = "caught"]
    BY <1>1 DEF RunWrite, Facing, Target
  <2>2. e = "" => probe' = [probe EXCEPT !.phase = "undo", !.count = Cardinality(hit)] /\ UNCHANGED session
    BY <1>1 DEF RunWrite, Facing, Target, Wiped, Touched, Apply
  <2>3. QED
    BY <1>1, <2>1, <2>2 DEF Fail, session
<1>5. status = "lost" => e # ""
  BY DEF SessionError, DeleteError, UpdateError
<1>6. Floor(s) \in Nat
  BY <1>2 DEF Floor, Step
<1>7. ASSUME status = "open"
      PROVE  /\ e = "" /\ Cardinality(hit) > Floor(s) => WriteLeak(t) \/ Undersampled(t)
             /\ cfg.identity = "ok" /\ ~(e = "" /\ Cardinality(hit) > Floor(s)) =>
                  Settled(s.op, s.me, s.other, t)
  <2>1. CASE s.op = "wipe"
    BY <1>2, <1>3, <1>7, <2>1, DeleteIsLeak, DeleteSettles
  <2>2. CASE s.op \in {"claim", "move"}
    BY <1>2, <1>3, <1>7, <2>2, UpdateIsLeak, UpdateSettles
  <2>3. QED
    BY <1>1, <2>1, <2>2 DEF Changes
<1> HIDE DEF e, hit
<1>8. /\ probe'.count > Floor(s) => WriteLeak(t) \/ Undersampled(t)
      /\ cfg.identity = "ok" =>
           probe'.count > Floor(s) \/ Settled(s.op, s.me, s.other, t) \/ status' = "lost"
  <2>1. CASE e = ""
    <3>1. status = "open"
      BY <1>1, <1>5, <2>1, OpenOrLost DEF Facing, InHand
    <3>2. probe'.count = Cardinality(hit)
      BY <1>4, <2>1
    <3>3. CASE Cardinality(hit) > Floor(s)
      BY <1>7, <2>1, <3>1, <3>2, <3>3
    <3>4. CASE ~(Cardinality(hit) > Floor(s))
      BY <1>7, <2>1, <3>1, <3>2, <3>4
    <3>5. QED
      BY <3>3, <3>4
  <2>2. CASE e # ""
    <3>1. ~(probe'.count > Floor(s))
      <4>1. PICK f \in Nat : f = Floor(s)
        BY <1>6
      <4>2. probe'.count = 0
        BY <1>4, <2>2
      <4>3. QED
        BY <4>1, <4>2
    <3>2. CASE status = "open"
      BY <1>7, <2>2, <3>1, <3>2
    <3>3. CASE status = "lost"
      BY <1>4, <3>1, <3>3
    <3>4. QED
      BY <1>1, <3>2, <3>3, OpenOrLost DEF Facing, InHand
  <2>3. QED
    BY <2>1, <2>2
<1>9. ProbeInv'
  BY <1>4 DEF ProbeInv, Doing
<1>10. EvidenceInv'
  <2>1. /\ WriteLeak(t)' = WriteLeak(t) /\ Undersampled(t)' = Undersampled(t) /\ cfg' = cfg
        /\ Settled(s.op, s.me, s.other, t)' = Settled(s.op, s.me, s.other, t)
    BY <1>1, <1>2, TruthFrame, RightsFrame DEF Asked, Known
  <2>2. Floor(s)' = Floor(s) /\ s.op \notin {"insert", "omit"}
    BY <1>1 DEF Floor, Changes
  <2>3. QED
    BY <1>1, <1>8, <2>1, <2>2, SameFacing DEF EvidenceInv
<1>11. QED
  BY <1>9, <1>10

LEMMA InsertSettled ==
  ASSUME StrongIdentity, PhaseInv, ScriptInv, ProbeInv, NEW t, NEW s, Facing(t, s), RunInsert, UNCHANGED Known
  PROVE  ProbeInv' /\ EvidenceInv'
<1>1. /\ probe.phase = "run" /\ s.op \in InsertOps /\ todo' = todo /\ ProbeOther /\ t = plan[i]
      /\ probe \in [phase: Phases, count: Nat, answer: Answers]
  BY DEF RunInsert, In, Facing, InHand, StrongIdentity, Strong, TypeInv, GuardTypeOK
<1>2. Doing(t, s, {"before", "run", "after"}) /\ Doing(t, s, {"run"}) /\ t \in Tables /\ s \in Step
      /\ Fair(t, s) /\ s \in ToSet(todo) /\ todo # <<>>
  BY <1>1 DEF Facing, Doing, ScriptInv
<1>3. /\ status = "open" => work[t] = Baseline(t)
      /\ "select" \in shape[t].grants
      /\ probe.count = Cardinality(SeenRows(Assumed(s.me), t, Watches(s)))
  BY <1>1, <1>2 DEF ProbeInv
<1> DEFINE e == InsertError(t, Aim(s), cfg.bypass)
<1>4. /\ e # "" => probe'.phase = "caught" /\ probe'.answer = InsertAnswer(s.op, e)
      /\ e = "" => /\ work' = [work EXCEPT ![t] = AfterInsert(t, Aim(s), 0)] /\ status' = status
                   /\ IF shape[t].trigger = "swallow"
                        THEN probe'.phase = "undo" /\ probe'.answer = IF s.op = "self" THEN "rejected" ELSE "blocked"
                        ELSE probe'.phase = "after" /\ probe'.count = probe.count
  <2>1. e # "" => probe' = [probe EXCEPT !.phase = "caught", !.answer = InsertAnswer(s.op, e)]
    BY <1>1 DEF RunInsert, Facing, Aim
  <2>2. e = "" => /\ Apply(t, AfterInsert(t, Aim(s), 0))
                  /\ probe' = IF shape[t].trigger = "swallow"
                                THEN [probe EXCEPT !.phase = "undo",
                                                   !.answer = IF s.op = "self" THEN "rejected" ELSE "blocked"]
                                ELSE [probe EXCEPT !.phase = "after"]
    BY <1>1 DEF RunInsert, Facing, Aim
  <2> HIDE DEF e
  <2>3. QED
    BY <1>1, <2>1, <2>2 DEF Apply, session
<1>5. \/ status = "open" /\ SessionError = ""
      \/ status = "lost" /\ e = "lost"
  BY <1>1, OpenOrLost DEF Facing, InHand, InsertError
<1>6. ASSUME probe'.phase \in {"undo", "caught"}
      PROVE  /\ probe'.answer # "leak"
             /\ s.op \in {"insert", "omit"} /\ cfg.identity = "ok" =>
                  probe'.answer \in Unclean \/ Settled(s.op, s.me, s.other, t)
  <2>1. CASE e = ""
    <3>1. shape[t].trigger = "swallow" /\ probe'.answer # "leak" /\ status = "open"
      BY <1>4, <1>5, <1>6, <2>1
    <3>2. QED
      BY <1>2, <3>1, InsertSettles
  <2>2. CASE e # ""
    <3>1. probe'.answer = InsertAnswer(s.op, e)
      BY <1>4, <2>2
    <3>2. probe'.answer # "leak"
      BY <3>1 DEF InsertAnswer
    <3>3. CASE status = "lost"
      BY <1>5, <3>1, <3>3 DEF InsertAnswer, IsPermissionDenied, Unclean
    <3>4. CASE status = "open"
      BY <1>2, <2>2, <3>1, <3>2, <3>4, InsertSettles
    <3>5. QED
      BY <1>5, <3>2, <3>3, <3>4
  <2>3. QED
    BY <2>1, <2>2
<1>7. ASSUME probe'.phase = "after"
      PROVE  /\ e = "" /\ shape[t].trigger # "swallow" /\ status = "open"
             /\ CanInsert(Assumed(s.me), t, Lands(t, s))
             /\ work'[t] = Baseline(t) \cup {Fresh(Lands(t, s))}
             /\ probe'.count = probe.count
  <2>1. e = "" /\ shape[t].trigger # "swallow" /\ status = "open" /\ probe'.count = probe.count
    BY <1>4, <1>5, <1>7
  <2>2. acting = Assumed(s.me)
    BY <1>1, <2>1, Asking DEF Facing, InHand, InsertOps
  <2>3. Landed(t, Aim(s), 0) = Fresh(Lands(t, s)) /\ CanInsert(acting, t, Lands(t, s))
    BY <1>1, <1>2, <2>1, InsertLands
  <2>4. work[t] = Baseline(t) /\ work \in [Tables -> SUBSET Row]
    BY <1>3, <2>1 DEF StrongIdentity, Strong, TypeInv, PgInv, PgTypeOK
  <2>5. work'[t] = AfterInsert(t, Aim(s), 0)
    BY <1>2, <1>4, <2>1, <2>4
  <2>6. QED
    BY <2>1, <2>2, <2>3, <2>4, <2>5 DEF AfterInsert
<1> HIDE DEF e
<1>8. /\ Baseline(t)' = Baseline(t) /\ Assumed(s.me)' = Assumed(s.me) /\ Watches(s)' = Watches(s)
      /\ \A x, y : SeenRows(x, t, y)' = SeenRows(x, t, y)
      /\ \A x, v : CanInsert(x, t, v)' = CanInsert(x, t, v)
      /\ Lands(t, s)' = Lands(t, s) /\ shape' = shape /\ cfg' = cfg
      /\ \A op \in Asked : Settled(op, s.me, s.other, t)' = Settled(op, s.me, s.other, t)
  BY <1>2, RightsFrame, TruthFrame DEF Known, Watches
<1>9. probe'.phase \in {"undo", "caught", "after"}
  BY <1>4
<1>10. ProbeInv'
  <2>1. ASSUME probe'.phase = "after"
        PROVE  /\ "select" \in shape'[t].grants
               /\ (probe.count = Cardinality(SeenRows(Assumed(s.me), t, Watches(s))))'
               /\ CanInsert(Assumed(s.me), t, Lands(t, s))'
               /\ (work[t] = Baseline(t) \cup {Fresh(Lands(t, s))})'
    BY <1>3, <1>7, <1>8, <2>1 DEF Fresh
  <2>2. QED
    BY <1>1, <1>9, <2>1, SameFacing DEF ProbeInv
<1>11. EvidenceInv'
  BY <1>1, <1>6, <1>8, SameFacing DEF EvidenceInv, Changes, InsertOps, Asked
<1>12. QED
  BY <1>10, <1>11

LEMMA AfterSettled ==
  ASSUME StrongIdentity, PhaseInv, ScriptInv, ProbeInv, NEW t, NEW s, Facing(t, s), CountAfter, UNCHANGED Known
  PROVE  ProbeInv' /\ EvidenceInv'
<1>1. /\ probe.phase = "after" /\ s.op \in InsertOps /\ todo' = todo /\ ProbeOther /\ t = plan[i]
      /\ probe \in [phase: Phases, count: Nat, answer: Answers]
  BY DEF CountAfter, In, Facing, InHand, StrongIdentity, Strong, TypeInv, ProbeInHand, GuardTypeOK
<1>2. Doing(t, s, {"before", "run", "after"}) /\ Doing(t, s, {"after"}) /\ t \in Tables /\ s \in Step
      /\ Fair(t, s) /\ s \in ToSet(todo) /\ todo # <<>>
  BY <1>1 DEF Facing, Doing, ScriptInv
<1>3. "select" \in shape[t].grants
  BY <1>1, <1>2 DEF ProbeInv
<1> DEFINE e == SelectError(t)
<1>4. /\ e # "" => probe'.phase = "caught" /\ probe'.answer = InsertAnswer(s.op, e)
      /\ e = "" => probe'.phase = "undo" /\ probe'.answer = Grew(s.op, Watched(t, s) > probe.count)
  BY <1>1 DEF CountAfter, Facing
<1>5. e # "" => e = "lost"
  BY <1>1, <1>2, <1>3, OpenOrLost, SelectFails DEF Facing, InHand
<1>6. /\ s.op = "insert" /\ probe'.answer = "leak" => InsertLeak(t) \/ Mislaid(t)
      /\ s.op = "omit" /\ probe'.answer = "leak" => OrphanLeak(t)
      /\ s.op \in {"insert", "omit"} /\ cfg.identity = "ok" =>
           probe'.answer \in Unclean \/ Settled(s.op, s.me, s.other, t)
  <2>1. CASE e # ""
    BY <1>4, <1>5, <2>1 DEF InsertAnswer, IsPermissionDenied, Unclean
  <2>2. CASE e = ""
    BY <1>2, <1>4, <2>2, GrowthMeans
  <2>3. QED
    BY <2>1, <2>2
<1>7. ProbeInv'
  BY <1>4 DEF ProbeInv, Doing
<1>8. EvidenceInv'
  <2>1. /\ InsertLeak(t)' = InsertLeak(t) /\ OrphanLeak(t)' = OrphanLeak(t) /\ Mislaid(t)' = Mislaid(t)
        /\ cfg' = cfg
        /\ \A op \in Asked : Settled(op, s.me, s.other, t)' = Settled(op, s.me, s.other, t)
    BY <1>2, TruthFrame DEF Known
  <2>2. QED
    BY <1>1, <1>6, <2>1, SameFacing DEF EvidenceInv, Changes, InsertOps, Asked
<1>9. QED
  BY <1>7, <1>8

-----------------------------------------------------------------------------
(* The statements: the script, and what happens between them.              *)

LEMMA ScriptStep ==
  ASSUME StrongIdentity, ScriptInv, Probing, ProbeOther, UNCHANGED Known
  PROVE  ScriptInv'
<1>1. /\ pc = "probe" /\ pc' = "probe" /\ i' = i /\ plan' = plan /\ todo # <<>>
      /\ ToSet(todo) = {Head(todo)} \cup ToSet(Tail(todo))
      /\ todo' \in {todo, Tail(todo), <<>>}
  BY ProbingScript DEF StrongIdentity, Strong
<1>t. PICK t \in Tables : t = plan[i]
  BY ProbingScript DEF StrongIdentity, Strong
<1>2. \A u \in Tables : (InHand(u)' <=> u = t) /\ (InHand(u) <=> u = t)
  BY <1>1, <1>t DEF InHand
<1>3. todo \in Seq(Step)
  BY DEF StrongIdentity, Strong, TypeInv, GuardTypeOK
<1>4. /\ \A s \in ToSet(todo') : s \in ToSet(todo)
      /\ todo' # <<>> => todo'[Len(todo')] = todo[Len(todo)]
  <2>1. CASE todo' = todo
    BY <2>1
  <2>2. CASE todo' = Tail(todo)
    BY <1>1, <1>3, <2>2, HeadAndTail
  <2>3. CASE todo' = <<>>
    <3>1. ToSet(<<>>) = {}
      BY DEF ToSet
    <3>2. QED
      BY <2>3, <3>1
  <2>4. QED
    BY <1>1, <2>1, <2>2, <2>3
<1>5. /\ SoleTenant(t)' = SoleTenant(t) /\ tenants' = tenants /\ cfg' = cfg
      /\ \A s : Fair(t, s)' = Fair(t, s)
  BY RightsFrame, TruthFrame DEF Known
<1>6. /\ SoleTenant(t) \/ Len(tenants[t]) >= 2
      /\ \A s \in ToSet(todo) : Fair(t, s)
      /\ Len(tenants[t]) >= 2 /\ cfg.probeWrites /\ todo # <<>> => todo[Len(todo)].op = "omit"
  BY <1>2 DEF ScriptInv
<1>7. /\ SoleTenant(t)' \/ Len(tenants'[t]) >= 2
      /\ \A s \in ToSet(todo') : Fair(t, s)'
      /\ Len(tenants'[t]) >= 2 /\ cfg'.probeWrites /\ todo' # <<>> => todo'[Len(todo')].op = "omit"
  BY <1>1, <1>4, <1>5, <1>6
<1>8. QED
  BY <1>2, <1>7 DEF ScriptInv

LEMMA NoneUnderWay ==
  ASSUME probe'.phase = "idle"
  PROVE  ProbeInv' /\ EvidenceInv'
  BY DEF ProbeInv, EvidenceInv, Doing

\* What is recorded about the statement under way holds at every step of a probe.
LEMMA ProbeEvidenceStep ==
  ASSUME StrongIdentity, PhaseInv, ScriptInv, ProbeInv, Probing, ProbeOther, UNCHANGED Known
  PROVE  ProbeInv' /\ EvidenceInv'
<1>t. PICK t \in Tables : t = plan[i]
  BY ProbingScript DEF StrongIdentity, Strong
<1>s. PICK s \in Step : s = Head(todo)
  BY ProbingScript DEF StrongIdentity, Strong
<1>1. Facing(t, s)
  BY <1>t, <1>s, ProbingScript DEF StrongIdentity, Strong, Facing, InHand
<1>2. CASE Become \/ CountRows
  <2>1. probe'.phase = "idle"
    BY <1>2 DEF Become, CountRows, Now, Abandon
  <2>2. QED
    BY <2>1, NoneUnderWay
<1>3. CASE UndoProbe
  <2>1. probe'.phase = "idle"
    BY <1>3 DEF UndoProbe, NoProbe
  <2>2. QED
    BY <2>1, NoneUnderWay
<1>4. CASE OpenProbe
  BY <1>1, <1>4, OpenSettled
<1>5. CASE CountBefore
  BY <1>1, <1>5, CountSettled
<1>6. CASE RunWrite
  BY <1>1, <1>6, WriteSettled
<1>7. CASE RunInsert
  BY <1>1, <1>7, InsertSettled
<1>8. CASE CountAfter
  BY <1>1, <1>8, AfterSettled
<1>9. QED
  BY <1>2, <1>3, <1>4, <1>5, <1>6, <1>7, <1>8 DEF Probing

\* A lost connection, or another session's pause, between two queries.
LEMMA BetweenStatements ==
  ASSUME StrongIdentity, TableInv, UNCHANGED guardVars,
         Drop \/ UNCHANGED pgVars
  PROVE  TableInv'
<1>1. UNCHANGED Known
  BY DEF Drop, pgVars, guardVars, Known
<1>2. UNCHANGED <<cfg, pc, plan, i, tenants, todo, probe, m>>
  BY DEF guardVars
<1>3. /\ status' = "lost" \/ (status' = status /\ work' = work)
      /\ status' # status => status' = "lost"
      /\ drops > 0 => drops' > 0
      /\ shape' = shape
  <2>1. drops \in Nat
    BY BoundAssumption DEF StrongIdentity, Strong, TypeInv, PgInv, PgTypeOK
  <2>2. QED
    BY <2>1 DEF Drop, pgVars, session
<1>4. \A t : InHand(t)' = InHand(t)
  BY <1>2 DEF InHand
<1>5. \A t, s, P : Doing(t, s, P)' = Doing(t, s, P)
  BY <1>2 DEF Doing, InHand
<1>6. ScriptInv'
  BY <1>1, <1>2, <1>4, RightsFrame, TruthFrame DEF ScriptInv, TableInv
<1>7. ProbeInv'
  <2>1. ASSUME NEW t \in Tables, NEW s \in ToSet(todo), Doing(t, s, {"before", "run", "after"})
        PROVE  /\ probe'.phase \in {"before", "run"} /\ status' = "open" => work'[t] = Baseline(t)'
               /\ s.op \in InsertOps /\ probe'.phase # "before" =>
                    /\ "select" \in shape'[t].grants
                    /\ (probe.count = Cardinality(SeenRows(Assumed(s.me), t, Watches(s))))'
               /\ probe'.phase = "after" =>
                    /\ CanInsert(Assumed(s.me), t, Lands(t, s))'
                    /\ status' = "open" => (work[t] = Baseline(t) \cup {Fresh(Lands(t, s))})'
    <3>1. /\ Baseline(t)' = Baseline(t) /\ Assumed(s.me)' = Assumed(s.me) /\ Watches(s)' = Watches(s)
          /\ \A x, y : SeenRows(x, t, y)' = SeenRows(x, t, y)
          /\ \A x, v : CanInsert(x, t, v)' = CanInsert(x, t, v)
          /\ Lands(t, s)' = Lands(t, s)
      BY <1>1, RightsFrame, TruthFrame DEF Watches
    <3>2. status' = "open" => status = "open" /\ work' = work
      BY <1>3
    <3>3. /\ probe.phase \in {"before", "run"} /\ status = "open" => work[t] = Baseline(t)
          /\ s.op \in InsertOps /\ probe.phase # "before" =>
               /\ "select" \in shape[t].grants
               /\ probe.count = Cardinality(SeenRows(Assumed(s.me), t, Watches(s)))
          /\ probe.phase = "after" =>
               /\ CanInsert(Assumed(s.me), t, Lands(t, s))
               /\ status = "open" => work[t] = Baseline(t) \cup {Fresh(Lands(t, s))}
      BY <2>1 DEF TableInv, ProbeInv
    <3>4. QED
      BY <1>2, <1>3, <3>1, <3>2, <3>3 DEF Fresh
  <2>2. todo' = todo
    BY <1>2
  <2>3. QED
    BY <1>5, <2>1, <2>2 DEF ProbeInv
<1>8. EvidenceInv'
  <2>1. ASSUME NEW t \in Tables, NEW s \in ToSet(todo), Doing(t, s, {"undo", "caught"})
        PROVE  (/\ s.op \in Changes =>
                     /\ probe.count > Floor(s) => WriteLeak(t) \/ Undersampled(t)
                     /\ cfg.identity = "ok" =>
                          probe.count > Floor(s) \/ Settled(s.op, s.me, s.other, t) \/ status = "lost"
                /\ s.op = "insert" /\ probe.answer = "leak" => InsertLeak(t) \/ Mislaid(t)
                /\ s.op = "omit" /\ probe.answer = "leak" => OrphanLeak(t)
                /\ s.op \in {"insert", "omit"} /\ cfg.identity = "ok" =>
                     probe.answer \in Unclean \/ Settled(s.op, s.me, s.other, t))'
    <3>1. /\ WriteLeak(t)' = WriteLeak(t) /\ Undersampled(t)' = Undersampled(t)
          /\ InsertLeak(t)' = InsertLeak(t) /\ Mislaid(t)' = Mislaid(t) /\ OrphanLeak(t)' = OrphanLeak(t)
          /\ \A op \in Asked : Settled(op, s.me, s.other, t)' = Settled(op, s.me, s.other, t)
      BY <1>1, RightsFrame, TruthFrame
    <3>2. Floor(s)' = Floor(s)
      BY DEF Floor
    <3>3. status = "lost" => status' = "lost"
      BY <1>3
    <3>4. /\ s.op \in Changes =>
               /\ probe.count > Floor(s) => WriteLeak(t) \/ Undersampled(t)
               /\ cfg.identity = "ok" =>
                    probe.count > Floor(s) \/ Settled(s.op, s.me, s.other, t) \/ status = "lost"
          /\ s.op = "insert" /\ probe.answer = "leak" => InsertLeak(t) \/ Mislaid(t)
          /\ s.op = "omit" /\ probe.answer = "leak" => OrphanLeak(t)
          /\ s.op \in {"insert", "omit"} /\ cfg.identity = "ok" =>
               probe.answer \in Unclean \/ Settled(s.op, s.me, s.other, t)
      BY <2>1 DEF TableInv, EvidenceInv
    <3>5. s.op \in Changes \cup {"insert", "omit"} => s.op \in Asked
      BY DEF Asked
    <3>6. QED
      BY <1>2, <3>1, <3>2, <3>3, <3>4, <3>5 DEF Changes
  <2>2. todo' = todo
    BY <1>2
  <2>3. QED
    BY <1>5, <2>1, <2>2 DEF EvidenceInv
<1>9. MeasuredInv'
  BY <1>1, <1>2, <1>3, <1>4, RightsFrame, TruthFrame DEF MeasuredInv, TableInv
<1>10. AskedInv'
  <2>1. ASSUME NEW t \in Tables, InHand(t), cfg.identity = "ok"
        PROVE  \E sides \in Sides(t)' : \A p \in sides, op \in Questions(t)' :
                 (Pending(op, p[1], p[2]) \/ Settled(op, p[1], p[2], t) \/ Excused(op, t))'
    <3>1. PICK sides \in Sides(t) : \A p \in sides, op \in Questions(t) :
            Pending(op, p[1], p[2]) \/ Settled(op, p[1], p[2], t) \/ Excused(op, t)
      BY <2>1 DEF TableInv, AskedInv
    <3>2. /\ Sides(t)' = Sides(t) /\ Questions(t)' = Questions(t) /\ SoleTenant(t)' = SoleTenant(t)
          /\ \A op \in Asked : \A x, y : Settled(op, x, y, t)' = Settled(op, x, y, t)
      BY <1>1, RightsFrame, TruthFrame
    <3>3. Questions(t) \subseteq Asked
      BY DEF Questions, Asked, Changes
    <3>4. ASSUME NEW op, NEW x, NEW y PROVE Pending(op, x, y)' = Pending(op, x, y)
      BY <1>2 DEF Pending
    <3>5. ASSUME NEW op, Excused(op, t) PROVE Excused(op, t)'
      BY <1>2, <1>3, <3>2, <3>5 DEF Excused, Lost
    <3>6. QED
      BY <3>1, <3>2, <3>3, <3>4, <3>5
  <2>2. QED
    BY <1>2, <1>4, <2>1 DEF AskedInv
<1>11. QED
  BY <1>6, <1>7, <1>8, <1>9, <1>10 DEF TableInv

-----------------------------------------------------------------------------
(* The statements: what is measured.                                       *)

\* An abandoned script leaves the table unreadable, or its verdict open.
LEMMA Abandoned ==
  ASSUME StrongIdentity, NEW t, NEW s, Facing(t, s), NEW e, Abandon(e), e # "",
         e \in {SessionError, "other", SelectError(t)}
  PROVE  /\ m'.failed \/ m'.denied
         /\ m' = [m EXCEPT !.denied = TRUE] \/ m' = [m EXCEPT !.failed = TRUE]
         /\ e = "lost" => m' = [m EXCEPT !.failed = TRUE]
         /\ m' = [m EXCEPT !.denied = TRUE] => m.denied \/ "select" \notin shape[t].grants
         /\ todo' = <<>> /\ probe' = probe
<1>1. m \in Measures
  BY DEF StrongIdentity, Strong, TypeInv, GuardTypeOK
<1>2. CASE IsPermissionDenied(e)
  <2>1. e = SelectError(t) /\ e = "denied"
    BY <1>2, SelectFails DEF IsPermissionDenied, SessionError, SelectError
  <2>2. "select" \notin shape[t].grants
    BY <2>1, SelectFails DEF Facing, InHand, SessionError
  <2>3. QED
    BY <1>1, <1>2, <2>1, <2>2 DEF Abandon, Measures
<1>3. CASE ~IsPermissionDenied(e)
  <2>1. m' = [m EXCEPT !.failed = TRUE] /\ todo' = <<>> /\ probe' = probe
    BY <1>3 DEF Abandon
  <2>2. m'.failed /\ m'.denied = m.denied
    BY <1>1, <2>1 DEF Measures
  <2>3. m' = [m EXCEPT !.denied = TRUE] => m'.denied
    BY <1>1 DEF Measures
  <2>4. QED
    BY <2>1, <2>2, <2>3
<1>4. QED
  BY <1>2, <1>3

\* What a count of the other tenant's rows means.
LEMMA CrossSeen ==
  ASSUME StrongIdentity, NEW t, NEW s, Facing(t, s), Fair(t, s), CountRows, s.op = "cross",
         SelectError(t) = ""
  PROVE  /\ VisibleCount(t, s.other) \in Nat
         /\ VisibleCount(t, s.other) > 0 => ReadLeak(t)
         /\ cfg.identity = "ok" => VisibleCount(t, s.other) > 0 \/ Settled("cross", s.me, s.other, t)
<1>1. /\ status = "open" /\ "select" \in shape[t].grants
      /\ VisibleCount(t, s.other) = Cardinality(SeenNow(acting, t, s.other))
  BY CountsSeen DEF Facing
<1>2. work[t] = Baseline(t)
  BY <1>1 DEF CountRows, Now, StrongIdentity, Strong, TraceInv, NoTrace, Facing
<1>3. acting \in Anyone /\ (cfg.identity = "ok" => acting = s.me) /\ s.other # acting
  <2>1. s.other \in Owners /\ s.other # s.me
    BY DEF Facing, Step, Owners, Fair
  <2>2. QED
    BY <1>1, <2>1, Asking DEF Facing, InHand
<1>4. IsFiniteSet(SeenNow(acting, t, s.other))
  <2>1. IsFiniteSet(work[t])
    BY DEF Facing, StrongIdentity, Strong, TypeInv, PgInv, FiniteRows
  <2>2. QED
    BY <2>1, FS_Subset DEF SeenNow
<1>5. /\ VisibleCount(t, s.other) \in Nat
      /\ VisibleCount(t, s.other) > 0 <=> SeenNow(acting, t, s.other) # {}
  BY <1>1, <1>4, NoneOrSome
<1>6. ASSUME VisibleCount(t, s.other) > 0 PROVE ReadLeak(t)
  <2>1. PICK r \in Baseline(t) : r.tenant = s.other /\ CanRead(acting, t, r)
    BY <1>2, <1>5, <1>6 DEF SeenNow
  <2>2. r.tenant \in Owners \ {acting}
    BY <1>3, <2>1 DEF Facing, Step, Owners
  <2>3. Reads(acting, t, Owners)
    BY <2>1, <2>2 DEF Reads
  <2>4. QED
    BY <1>3, <2>3 DEF ReadLeak
<1>7. ASSUME cfg.identity = "ok", ~(VisibleCount(t, s.other) > 0)
      PROVE  Settled("cross", s.me, s.other, t)
  <2>1. \A r \in Baseline(t) : r.tenant = s.other => ~CanRead(s.me, t, r)
    BY <1>2, <1>3, <1>5, <1>7 DEF SeenNow
  <2>2. QED
    BY <1>1, <2>1 DEF Settled
<1>8. QED
  BY <1>5, <1>6, <1>7

\* The statements that leave the measures alone.
LEMMA Unmeasured ==
  ASSUME StrongIdentity, OpenProbe \/ CountBefore \/ RunWrite \/ RunInsert \/ CountAfter \/ Become,
         NEW t, NEW s, Facing(t, s)
  PROVE  \/ m' = m /\ (todo' = todo \/ (s.op = "become" /\ todo' = Tail(todo)))
         \/ \E e \in {SessionError, "other"} : e # "" /\ Abandon(e)
<1>1. CASE OpenProbe
  BY <1>1 DEF OpenProbe
<1>2. CASE Become
  BY <1>2 DEF Become, BecomeError, Facing, Now
<1>3. CASE CountBefore \/ RunWrite \/ RunInsert \/ CountAfter
  BY <1>3 DEF CountBefore, RunWrite, RunInsert, CountAfter
<1>4. QED
  BY <1>1, <1>2, <1>3

\* What is recorded of a probe.
LEMMA Recorded ==
  ASSUME StrongIdentity, PhaseInv, EvidenceInv, NEW t, NEW s, Facing(t, s), UndoProbe
  PROVE  /\ todo' = Tail(todo) /\ probe'.phase = "idle" /\ Doing(t, s, {"undo", "caught"})
         /\ s.op \in ProbeOps /\ m \in Measures
         /\ m'.cross = m.cross /\ m'.denied = m.denied /\ m'.failed = m.failed /\ m'.own = m.own
         /\ m'.write \in Nat /\ m'.write >= m.write
         /\ m'.write > m.write => s.op \in Changes /\ probe.count > Floor(s)
         /\ s.op \in Changes /\ probe.count > Floor(s) /\ status # "lost" => m'.write > 0
         /\ m'.inserts = IF s.op = "insert" THEN m.inserts \cup {Answer} ELSE m.inserts
         /\ m'.orphans = IF s.op = "omit" THEN m.orphans \cup {Answer} ELSE m.orphans
<1>1. /\ todo' = Tail(todo) /\ probe'.phase = "idle" /\ probe.phase \in {"undo", "caught"}
      /\ pc = "probe" /\ Record(s)
  BY DEF UndoProbe, Undoing, In, NoProbe, Facing
<1>2. /\ s.op \in ProbeOps /\ Doing(t, s, {"undo", "caught"}) /\ m \in Measures
      /\ probe \in [phase: Phases, count: Nat, answer: Answers] /\ s.base \in Nat
  BY <1>1 DEF Facing, Doing, StrongIdentity, Strong, TypeInv, ProbeInHand, GuardTypeOK, Step
<1>3. /\ Affected \in Nat /\ Affected <= probe.count
      /\ status # "lost" => Affected = probe.count
  <2>1. probe.phase = "undo" /\ status # "lost" => SessionError = ""
    BY <1>1, OpenOrLost
  <2>2. Disowned => status = "lost"
    BY <1>1, <2>1 DEF Disowned
  <2>3. PICK n \in Nat : n = probe.count
    BY <1>2
  <2>4. Affected = 0 \/ Affected = n
    BY <2>3 DEF Affected
  <2>5. status # "lost" => Affected = n
    BY <2>2, <2>3 DEF Affected
  <2>6. QED
    BY <2>3, <2>4, <2>5
<1>4. m.write \in Nat /\ m.cross \in Nat
  BY <1>2 DEF Measures
<1>5. CASE s.op \in Changes
  <2>1. PICK n \in Int : n = Affected - (IF s.op = "move" THEN 0 ELSE s.base)
    BY <1>2, <1>3
  <2>2. Measure(n)
    BY <1>1, <1>3, <1>5, <2>1 DEF Record, Changes
  <2>3. m' = [m EXCEPT !.write = Larger(@, n)]
    BY <2>2 DEF Measure
  <2>4. m'.write = IF m.write > n THEN m.write ELSE n
    BY <1>2, <2>3 DEF Larger, Measures
  <2>5. /\ m'.cross = m.cross /\ m'.denied = m.denied /\ m'.failed = m.failed /\ m'.own = m.own
        /\ m'.inserts = m.inserts /\ m'.orphans = m.orphans
    BY <1>2, <2>3 DEF Measures
  <2>6. PICK f \in Nat : f = Floor(s) /\ f = IF s.op = "move" THEN 0 ELSE s.base
    BY <1>2 DEF Floor
  <2>7. n = Affected - f
    BY <2>1, <2>6
  <2>8. /\ m'.write \in Nat /\ m'.write >= m.write
        /\ m'.write > m.write => probe.count > f
        /\ probe.count > f /\ status # "lost" => m'.write > 0
    BY <1>2, <1>3, <1>4, <2>4, <2>6, <2>7
  <2>9. s.op \notin {"insert", "omit"}
    BY <1>5 DEF Changes
  <2>10. QED
    BY <1>1, <1>2, <1>5, <2>5, <2>6, <2>8, <2>9
<1>6. CASE s.op \in InsertOps
  <2>1. /\ s.op = "insert" => m' = [m EXCEPT !.inserts = @ \cup {Answer}]
        /\ s.op = "omit" => m' = [m EXCEPT !.orphans = @ \cup {Answer}]
        /\ s.op = "self" => m' = [m EXCEPT !.selfIns = Answer]
    BY <1>1, <1>6 DEF Record
  <2>2. /\ m'.cross = m.cross /\ m'.denied = m.denied /\ m'.failed = m.failed /\ m'.own = m.own
        /\ m'.write = m.write
        /\ m'.inserts = IF s.op = "insert" THEN m.inserts \cup {Answer} ELSE m.inserts
        /\ m'.orphans = IF s.op = "omit" THEN m.orphans \cup {Answer} ELSE m.orphans
    BY <1>2, <1>6, <2>1 DEF InsertOps, Measures
  <2>3. s.op \notin Changes
    BY <1>6 DEF Changes, InsertOps
  <2>4. QED
    BY <1>1, <1>2, <1>4, <2>2, <2>3
<1>7. QED
  BY <1>2, <1>5, <1>6 DEF ProbeOps, Changes

LEMMA MeasuredStep ==
  ASSUME StrongIdentity, PhaseInv, ScriptInv, EvidenceInv, MeasuredInv, Probing, ProbeOther, UNCHANGED Known
  PROVE  MeasuredInv'
<1>t. PICK t \in Tables : t = plan[i]
  BY ProbingScript DEF StrongIdentity, Strong
<1>s. PICK s \in Step : s = Head(todo)
  BY ProbingScript DEF StrongIdentity, Strong
<1>1. Facing(t, s) /\ todo # <<>> /\ s \in ToSet(todo) /\ pc' = "probe" /\ pc = "probe" /\ t = plan'[i']
  BY <1>t, <1>s, ProbingScript DEF StrongIdentity, Strong, Facing, InHand
<1>2. \A u \in Tables : (InHand(u)' <=> u = t) /\ (InHand(u) <=> u = t)
  BY <1>1, <1>t DEF InHand
<1>3. /\ ReadLeak(t)' = ReadLeak(t) /\ WriteLeak(t)' = WriteLeak(t) /\ InsertLeak(t)' = InsertLeak(t)
      /\ OrphanLeak(t)' = OrphanLeak(t) /\ Mislaid(t)' = Mislaid(t)
      /\ Undersampled(t)' = Undersampled(t) /\ shape' = shape
  BY RightsFrame, TruthFrame DEF Known
<1>4. /\ m.cross > 0 => ReadLeak(t)
      /\ m.write > 0 => WriteLeak(t) \/ Undersampled(t)
      /\ "leak" \in m.inserts => InsertLeak(t) \/ Mislaid(t)
      /\ "leak" \in m.orphans => OrphanLeak(t)
      /\ m.denied => "select" \notin shape[t].grants
  BY <1>2 DEF MeasuredInv
<1>5. m \in Measures
  BY DEF StrongIdentity, Strong, TypeInv, GuardTypeOK
<1>6. SUFFICES /\ m'.cross > 0 => ReadLeak(t)
               /\ m'.write > 0 => WriteLeak(t) \/ Undersampled(t)
               /\ "leak" \in m'.inserts => InsertLeak(t) \/ Mislaid(t)
               /\ "leak" \in m'.orphans => OrphanLeak(t)
               /\ m'.denied => "select" \notin shape[t].grants
  BY <1>2, <1>3 DEF MeasuredInv
<1>7. ASSUME NEW e \in {SessionError, "other", SelectError(t)}, e # "", Abandon(e)
      PROVE  /\ m'.cross > 0 => ReadLeak(t)
             /\ m'.write > 0 => WriteLeak(t) \/ Undersampled(t)
             /\ "leak" \in m'.inserts => InsertLeak(t) \/ Mislaid(t)
             /\ "leak" \in m'.orphans => OrphanLeak(t)
             /\ m'.denied => "select" \notin shape[t].grants
  <2>1. CASE m' = [m EXCEPT !.denied = TRUE]
    <3>1. m.denied \/ "select" \notin shape[t].grants
      BY <1>1, <1>7, <2>1, Abandoned
    <3>2. /\ m'.cross = m.cross /\ m'.write = m.write /\ m'.inserts = m.inserts
          /\ m'.orphans = m.orphans
      BY <1>5, <2>1 DEF Measures
    <3>3. QED
      BY <1>4, <3>1, <3>2
  <2>2. CASE m' = [m EXCEPT !.failed = TRUE]
    <3>1. /\ m'.cross = m.cross /\ m'.write = m.write /\ m'.inserts = m.inserts
          /\ m'.orphans = m.orphans /\ m'.denied = m.denied
      BY <1>5, <2>2 DEF Measures
    <3>2. QED
      BY <1>4, <3>1
  <2>3. QED
    BY <1>1, <1>7, <2>1, <2>2, Abandoned
<1>8. CASE OpenProbe \/ CountBefore \/ RunWrite \/ RunInsert \/ CountAfter \/ Become
  BY <1>1, <1>4, <1>7, <1>8, Unmeasured
<1>9. CASE CountRows
  <2>1. CASE SelectError(t) # ""
    <3>1. Abandon(SelectError(t))
      BY <1>t, <1>9, <2>1 DEF CountRows
    <3>2. QED
      BY <1>7, <2>1, <3>1
  <2>2. CASE SelectError(t) = "" /\ s.op = "own"
    <3>1. m' = [m EXCEPT !.own = VisibleCount(t, s.me)]
      BY <1>t, <1>s, <1>9, <2>2 DEF CountRows
    <3>2. /\ m'.cross = m.cross /\ m'.write = m.write /\ m'.inserts = m.inserts
          /\ m'.orphans = m.orphans /\ m'.denied = m.denied
      BY <1>5, <3>1 DEF Measures
    <3>3. QED
      BY <1>4, <3>2
  <2>3. CASE SelectError(t) = "" /\ s.op = "cross"
    <3>1. m' = [m EXCEPT !.cross = Larger(@, VisibleCount(t, s.other))]
      BY <1>t, <1>s, <1>9, <2>3 DEF CountRows
    <3>2. /\ m'.write = m.write /\ m'.inserts = m.inserts
          /\ m'.orphans = m.orphans /\ m'.denied = m.denied
          /\ m'.cross = Larger(m.cross, VisibleCount(t, s.other))
      BY <1>5, <3>1 DEF Measures
    <3>3. Fair(t, s)
      BY <1>1, <1>2 DEF ScriptInv
    <3>4. m'.cross > 0 => m.cross > 0 \/ VisibleCount(t, s.other) > 0
      BY <3>2 DEF Larger
    <3>5. QED
      BY <1>1, <1>4, <1>9, <2>3, <3>2, <3>3, <3>4, CrossSeen
  <2>4. QED
    BY <1>s, <1>9, <2>1, <2>2, <2>3 DEF CountRows, Now
<1>10. CASE UndoProbe
  <2>1. /\ Doing(t, s, {"undo", "caught"}) /\ s.op \in ProbeOps
        /\ m'.cross = m.cross /\ m'.denied = m.denied /\ m'.write \in Nat
        /\ m'.write > m.write => s.op \in Changes /\ probe.count > Floor(s)
        /\ m'.write >= m.write /\ m.write \in Nat
        /\ m'.inserts = IF s.op = "insert" THEN m.inserts \cup {Answer} ELSE m.inserts
        /\ m'.orphans = IF s.op = "omit" THEN m.orphans \cup {Answer} ELSE m.orphans
    BY <1>1, <1>5, <1>10, Recorded DEF Measures
  <2>2. /\ s.op \in Changes => (probe.count > Floor(s) => WriteLeak(t) \/ Undersampled(t))
        /\ s.op = "insert" /\ probe.answer = "leak" => InsertLeak(t) \/ Mislaid(t)
        /\ s.op = "omit" /\ probe.answer = "leak" => OrphanLeak(t)
    BY <1>1, <2>1 DEF EvidenceInv
  <2>3. Answer = "leak" => probe.answer = "leak"
    BY DEF Answer
  <2>4. m'.write > 0 => m.write > 0 \/ m'.write > m.write
    BY <2>1
  <2>5. QED
    BY <1>4, <2>1, <2>2, <2>3, <2>4
<1>11. QED
  BY <1>8, <1>9, <1>10 DEF Probing

-----------------------------------------------------------------------------
(* The statements: what has been asked.                                    *)

\* An excuse stays one.
LEMMA ExcusedStays ==
  ASSUME StrongIdentity, PhaseInv, EvidenceInv, Probing, ProbeOther, UNCHANGED Known, drops' = drops,
         NEW t, NEW s, Facing(t, s), NEW op, Excused(op, t)
  PROVE  Excused(op, t)'
<1>1. m \in Measures /\ t \in Tables /\ s = Head(todo) /\ todo # <<>> /\ t = plan[i]
  BY DEF StrongIdentity, Strong, TypeInv, GuardTypeOK, Facing, InHand
<1>2. SoleTenant(t)' = SoleTenant(t)
  BY <1>1, RightsFrame
<1>3. ASSUME NEW e \in {SessionError, "other", SelectError(t)}, e # "", Abandon(e)
      PROVE  Excused(op, t)'
  BY <1>3, Abandoned DEF Excused
<1>4. CASE Lost
  <2>1. SessionError = "lost" /\ probe.phase = "idle"
    BY <1>4 DEF Lost, SessionError
  <2>2. Abandon(SessionError)
    <3>1. Become \/ CountRows \/ OpenProbe
      BY <2>1 DEF Probing, CountBefore, RunWrite, RunInsert, CountAfter, UndoProbe, Undoing, In
    <3>2. SelectError(t) = SessionError /\ BecomeError = SessionError
      BY <2>1 DEF SelectError, BecomeError
    <3>3. QED
      BY <1>1, <2>1, <3>1, <3>2 DEF Become, CountRows, OpenProbe
  <2>3. QED
    BY <1>3, <2>1, <2>2
<1>5. ASSUME /\ m.failed => m'.failed
             /\ m.denied => m'.denied
             /\ m.cross > 0 => m'.cross > 0
             /\ m.write > 0 => m'.write > 0
             /\ m.inserts \subseteq m'.inserts /\ m.orphans \subseteq m'.orphans,
             ~Lost
      PROVE  Excused(op, t)'
  <2>1. \/ m.failed \/ m.denied
        \/ op = "cross" /\ m.cross > 0
        \/ op \in Changes /\ (m.write > 0 \/ (SoleTenant(t) /\ drops > 0))
        \/ op \in {"insert", "omit"} /\ Unclean \cap (m.inserts \cup m.orphans) # {}
    BY <1>5 DEF Excused
  <2>2. QED
    BY <1>2, <1>5, <2>1 DEF Excused
<1>6. CASE OpenProbe \/ CountBefore \/ RunWrite \/ RunInsert \/ CountAfter \/ Become
  BY <1>3, <1>4, <1>5, <1>6, Unmeasured
<1>7. CASE CountRows
  <2>1. CASE SelectError(t) # ""
    BY <1>1, <1>3, <1>7, <2>1 DEF CountRows
  <2>2. CASE SelectError(t) = "" /\ s.op = "own"
    <3>1. m' = [m EXCEPT !.own = VisibleCount(t, s.me)]
      BY <1>1, <1>7, <2>2 DEF CountRows
    <3>2. /\ m'.cross = m.cross /\ m'.write = m.write /\ m'.inserts = m.inserts
          /\ m'.orphans = m.orphans /\ m'.denied = m.denied /\ m'.failed = m.failed
      BY <1>1, <3>1 DEF Measures
    <3>3. QED
      BY <1>4, <1>5, <3>2
  <2>3. CASE SelectError(t) = "" /\ s.op = "cross"
    <3>1. PICK n \in Nat : n = VisibleCount(t, s.other)
      BY <1>1, VisibleCountType DEF StrongIdentity, Strong, TypeInv
    <3>2. m' = [m EXCEPT !.cross = Larger(@, n)]
      BY <1>1, <1>7, <2>3, <3>1 DEF CountRows
    <3>3. /\ m'.write = m.write /\ m'.inserts = m.inserts
          /\ m'.orphans = m.orphans /\ m'.denied = m.denied /\ m'.failed = m.failed
          /\ m'.cross = Larger(m.cross, n)
      BY <1>1, <3>2 DEF Measures
    <3>4. m.cross \in Nat
      BY <1>1 DEF Measures
    <3>5. m.cross > 0 => m'.cross > 0
      BY <3>1, <3>3, <3>4 DEF Larger
    <3>6. QED
      BY <1>4, <1>5, <3>3, <3>5
  <2>4. QED
    BY <1>1, <1>7, <2>1, <2>2, <2>3 DEF CountRows, Now
<1>8. CASE UndoProbe
  <2>1. /\ m'.cross = m.cross /\ m'.denied = m.denied /\ m'.failed = m.failed
        /\ m'.write \in Nat /\ m'.write >= m.write /\ m.write \in Nat
        /\ m.inserts \subseteq m'.inserts /\ m.orphans \subseteq m'.orphans
    BY <1>8, Recorded DEF Measures
  <2>2. m.write > 0 => m'.write > 0
    BY <2>1
  <2>3. QED
    BY <1>4, <1>5, <2>1, <2>2
<1>9. QED
  BY <1>6, <1>7, <1>8 DEF Probing

\* A statement leaves the script when it is settled, or gives an excuse.
LEMMA AnswersOrExcuses ==
  ASSUME StrongIdentity, PhaseInv, ScriptInv, EvidenceInv, Probing, ProbeOther, UNCHANGED Known, drops' = drops,
         NEW t, NEW s, Facing(t, s), cfg.identity = "ok", s.op \in Questions(t),
         todo' # todo
  PROVE  Settled(s.op, s.me, s.other, t) \/ Excused(s.op, t)'
<1>1. /\ m \in Measures /\ t \in Tables /\ s \in Step /\ s = Head(todo) /\ todo # <<>> /\ t = plan[i]
      /\ pc = "probe" /\ s \in ToSet(todo) /\ todo \in Seq(Step) /\ InHand(t)
  BY DEF StrongIdentity, Strong, TypeInv, GuardTypeOK, Facing, InHand
<1>2. s.op \in Asked /\ s.op \notin {"become", "own", "self"}
  BY DEF Questions, Asked, Changes
<1>3. ASSUME NEW e \in {SessionError, "other", SelectError(t)}, e # "", Abandon(e)
      PROVE  Excused(s.op, t)'
  BY <1>3, Abandoned DEF Excused
<1>4. CASE OpenProbe \/ CountBefore \/ RunWrite \/ RunInsert \/ CountAfter \/ Become
  BY <1>2, <1>3, <1>4, Unmeasured
<1>5. CASE CountRows
  <2>1. CASE SelectError(t) # ""
    BY <1>1, <1>3, <1>5, <2>1 DEF CountRows
  <2>2. CASE SelectError(t) = ""
    <3>1. s.op = "cross" /\ Fair(t, s)
      BY <1>1, <1>2, <1>5 DEF CountRows, Now, ScriptInv
    <3>2. PICK n \in Nat : n = VisibleCount(t, s.other)
      BY <1>1, VisibleCountType DEF StrongIdentity, Strong, TypeInv
    <3>3. m' = [m EXCEPT !.cross = Larger(@, n)]
      BY <1>1, <1>5, <2>2, <3>1, <3>2 DEF CountRows
    <3>4. m'.cross = Larger(m.cross, n) /\ m.cross \in Nat
      BY <1>1, <3>3 DEF Measures
    <3>5. n > 0 => m'.cross > 0
      BY <3>2, <3>4 DEF Larger
    <3>6. n > 0 \/ Settled("cross", s.me, s.other, t)
      BY <1>5, <2>2, <3>1, <3>2, CrossSeen
    <3>7. QED
      BY <3>1, <3>5, <3>6 DEF Excused
  <2>3. QED
    BY <2>1, <2>2
<1>6. CASE UndoProbe
  <2>1. /\ todo' = Tail(todo) /\ probe'.phase = "idle" /\ Doing(t, s, {"undo", "caught"})
        /\ s.op \in Changes /\ probe.count > Floor(s) /\ status # "lost" => m'.write > 0
        /\ m'.inserts = IF s.op = "insert" THEN m.inserts \cup {Answer} ELSE m.inserts
        /\ m'.orphans = IF s.op = "omit" THEN m.orphans \cup {Answer} ELSE m.orphans
        /\ s.op \in ProbeOps
    BY <1>6, Recorded
  <2>2. /\ s.op \in Changes =>
             (probe.count > Floor(s) \/ Settled(s.op, s.me, s.other, t) \/ status = "lost")
        /\ s.op \in {"insert", "omit"} =>
             probe.answer \in Unclean \/ Settled(s.op, s.me, s.other, t)
    BY <1>1, <2>1 DEF EvidenceInv
  <2>3. CASE s.op \in Changes /\ status = "lost"
    <3>1. status' = "lost"
      BY <1>6, <2>3 DEF UndoProbe, UndoSavepoint, session
    <3>2. CASE Tail(todo) # <<>>
      BY <2>1, <3>1, <3>2 DEF Excused, Lost
    <3>3. CASE Tail(todo) = <<>>
      <4>1. todo[Len(todo)].op = s.op /\ s.op # "omit" /\ s.op # "cross"
        BY <1>1, <2>3, <3>3, HeadAndTail DEF Changes
      <4>2. cfg.probeWrites
        BY <4>1 DEF Questions
      <4>3. SoleTenant(t)
        BY <1>1, <4>1, <4>2 DEF ScriptInv
      <4>4. SoleTenant(t)' /\ drops' > 0
        BY <1>1, <2>3, <4>3, RightsFrame DEF PhaseInv
      <4>5. QED
        BY <2>3, <4>4 DEF Excused
    <3>4. QED
      BY <3>2, <3>3
  <2>4. CASE s.op \in Changes /\ status # "lost"
    BY <2>1, <2>2, <2>4 DEF Excused
  <2>5. CASE s.op \in {"insert", "omit"}
    <3>1. probe.answer \in Unclean => Answer \in Unclean
      BY DEF Answer, Unclean
    <3>2. Answer \in m'.inserts \cup m'.orphans
      BY <2>1, <2>5
    <3>3. Answer \in Unclean => Unclean \cap (m'.inserts \cup m'.orphans) # {}
      BY <3>2
    <3>4. QED
      BY <2>2, <2>5, <3>1, <3>3 DEF Excused, Unclean
  <2>6. QED
    BY <1>2, <2>1, <2>3, <2>4, <2>5 DEF ProbeOps, InsertOps, Changes
<1>7. QED
  BY <1>4, <1>5, <1>6 DEF Probing

\* A script that is cut short was abandoned.
LEMMA CutShort ==
  ASSUME StrongIdentity, Probing, NEW t, NEW s, Facing(t, s), todo' # todo, todo' # Tail(todo)
  PROVE  m'.failed \/ m'.denied
<1>1. s = Head(todo) /\ t = plan[i]
  BY DEF Facing, InHand
<1>2. \E e \in {SessionError, "other", SelectError(t)} : e # "" /\ Abandon(e)
  <2>1. CASE OpenProbe \/ CountBefore \/ RunWrite \/ RunInsert \/ CountAfter \/ Become
    BY <2>1, Unmeasured
  <2>2. CASE CountRows
    BY <1>1, <2>2 DEF CountRows
  <2>3. CASE UndoProbe
    BY <2>3 DEF UndoProbe
  <2>4. QED
    BY <2>1, <2>2, <2>3 DEF Probing
<1>3. QED
  BY <1>2, Abandoned

LEMMA AskedStep ==
  ASSUME StrongIdentity, PhaseInv, ScriptInv, EvidenceInv, AskedInv, Probing, ProbeOther, UNCHANGED Known,
         drops' = drops
  PROVE  AskedInv'
<1>t. PICK t \in Tables : t = plan[i]
  BY ProbingScript DEF StrongIdentity, Strong
<1>s. PICK s \in Step : s = Head(todo)
  BY ProbingScript DEF StrongIdentity, Strong
<1>1. /\ Facing(t, s) /\ pc' = "probe" /\ t = plan'[i']
      /\ ToSet(todo) = {s} \cup ToSet(Tail(todo)) /\ todo' \in {todo, Tail(todo), <<>>}
  BY <1>t, <1>s, ProbingScript DEF StrongIdentity, Strong, Facing, InHand
<1>2. \A u \in Tables : (InHand(u)' <=> u = t) /\ (InHand(u) <=> u = t)
  BY <1>1, <1>t DEF InHand, Facing
<1>3. /\ Sides(t)' = Sides(t) /\ Questions(t)' = Questions(t) /\ cfg' = cfg
      /\ \A op \in Asked : \A x, y : Settled(op, x, y, t)' = Settled(op, x, y, t)
  BY TruthFrame DEF Known
<1>4. SUFFICES ASSUME cfg.identity = "ok"
               PROVE  \E sides \in Sides(t) : \A p \in sides, op \in Questions(t) :
                        (Pending(op, p[1], p[2]) \/ Settled(op, p[1], p[2], t) \/ Excused(op, t))'
  BY <1>2, <1>3 DEF AskedInv
<1>5. PICK sides \in Sides(t) : \A p \in sides, op \in Questions(t) :
        Pending(op, p[1], p[2]) \/ Settled(op, p[1], p[2], t) \/ Excused(op, t)
  BY <1>2, <1>4 DEF AskedInv
<1>6. ASSUME NEW op \in Questions(t), NEW x, NEW y,
             Pending(op, x, y) \/ Settled(op, x, y, t) \/ Excused(op, t)
      PROVE  (Pending(op, x, y) \/ Settled(op, x, y, t) \/ Excused(op, t))'
  <2>1. op \in Asked
    BY DEF Questions, Asked, Changes
  <2>2. CASE Settled(op, x, y, t)
    BY <1>3, <2>1, <2>2
  <2>3. CASE Excused(op, t)
    BY <1>1, <2>3, ExcusedStays
  <2>4. CASE Pending(op, x, y)
    <3>1. PICK z \in ToSet(todo) : z.op = op /\ z.me = x /\ z.other = y
      BY <2>4 DEF Pending
    <3>2. CASE z \in ToSet(todo')
      BY <3>1, <3>2 DEF Pending
    <3>3. CASE z \notin ToSet(todo') /\ todo' = Tail(todo)
      <4>1. z = s /\ todo' # todo
        BY <1>1, <3>1, <3>3
      <4>2. Settled(op, x, y, t) \/ Excused(op, t)'
        BY <1>1, <1>4, <1>6, <3>1, <4>1, AnswersOrExcuses
      <4>3. QED
        BY <1>3, <2>1, <4>2
    <3>4. CASE z \notin ToSet(todo') /\ todo' # todo /\ todo' # Tail(todo)
      <4>1. m'.failed \/ m'.denied
        BY <1>1, <3>4, CutShort
      <4>2. QED
        BY <4>1 DEF Excused
    <3>5. QED
      BY <1>1, <3>1, <3>2, <3>3, <3>4
  <2>5. QED
    BY <1>6, <2>2, <2>3, <2>4
<1>7. QED
  BY <1>3, <1>5, <1>6

-----------------------------------------------------------------------------
(* The verdicts: what is reported of a table is what was measured.         *)

\* A table enters the report with its verdict only.
LEMMA ResultFrame ==
  ASSUME TypeInv, [Next]_vars
  PROVE  \/ JudgeTable
         \/ /\ result'.violations = result.violations /\ result'.proven = result.proven
            /\ result'.readOnly = result.readOnly /\ result.noted \subseteq result'.noted
<1>1. result \in Results
  BY DEF TypeInv, GuardTypeOK
<1> USE <1>1 DEF Results
<1>2. CASE SkipRun \/ Connect \/ ConnectFails \/ Close \/ MakePlan \/ BeginProof \/ SeedOne
           \/ SeedFails \/ StartSampling
  BY <1>2 DEF SkipRun, Connect, ConnectFails, Close, MakePlan, BeginProof, SeedOne,
     SeedFails, StartSampling, StartOther, Skip, Throws, Report
<1>3. CASE SampleTenants \/ SampleCounts \/ SetUpCanary \/ SetRole \/ ReadCanary \/ RefuseVacuousPass
  BY <1>3 DEF SampleTenants, SampleCounts, SamplingOther, SetUpCanary, SetRole, ReadCanary,
     RefuseVacuousPass, StartOther, Throws, Report
<1>4. CASE PassOver
  BY <1>4, PassOverFields
<1>5. CASE StartTable
  BY <1>5, StartTableFields
<1>6. CASE FinishTables \/ Unwind
  BY <1>6 DEF FinishTables, Unwind, Report
<1>7. CASE Become \/ CountRows \/ OpenProbe \/ CountBefore \/ RunWrite \/ RunInsert \/ CountAfter
           \/ UndoProbe
  BY <1>7 DEF Become, CountRows, OpenProbe, CountBefore, RunWrite, RunInsert, CountAfter, UndoProbe,
     ProbeOther
<1>8. CASE Environment \/ Finished \/ UNCHANGED vars
  BY <1>8 DEF Environment, Finished, vars, guardVars
<1>9. QED
  BY <1>2, <1>3, <1>4, <1>5, <1>6, <1>7, <1>8 DEF Next, Guard

LEMMA JudgedLeaks ==
  ASSUME TypeInv, NEW t \in Tables, NEW r \in {JudgeSole(result, t), JudgePair(result, t)},
         NEW v \in r.violations
  PROVE  v \in result.violations \/ \E k \in Leaks(m) : v = <<t, k>>
<1>1. result \in Results
  BY DEF TypeInv, GuardTypeOK
<1>2. ASSUME NEW q \in Results, q.violations = result.violations, NEW kinds \in SUBSET Leaks(m),
             r = Blame(q, t, kinds)
      PROVE  v \in result.violations \/ \E k \in Leaks(m) : v = <<t, k>>
  <2>1. r.violations = q.violations \cup {<<t, k>> : k \in kinds}
    BY <1>2 DEF Blame, Results
  <2>2. QED
    BY <1>2, <2>1
<1>3. Note(result, t) \in Results /\ Note(result, t).violations = result.violations
  BY <1>1, OutcomeTypes DEF Note, Results
<1>4. ASSUME NEW q \in {result, Note(result, t)},
             \/ r = q \/ r = Note(q, t) \/ r = Prove(q, t)
             \/ r = [Note(q, t) EXCEPT !.readOnly = @ \cup {t}]
      PROVE  r.violations = result.violations
  BY <1>1, <1>3, <1>4 DEF Note, Prove, Results
<1>5. CASE r = JudgeSole(result, t)
  <2>1. CASE m.failed \/ ~(m.cross > 0 \/ m.write > 0)
    BY <1>4, <1>5, <2>1 DEF JudgeSole
  <2>2. CASE ~m.failed /\ m.cross > 0
    <3>1. r = Blame(result, t, {"read"}) /\ {"read"} \in SUBSET Leaks(m)
      BY <1>5, <2>2 DEF JudgeSole, Leaks
    <3>2. QED
      BY <1>1, <1>2, <3>1
  <2>3. CASE ~m.failed /\ ~(m.cross > 0) /\ m.write > 0
    <3>1. r = Blame(result, t, {"write"}) /\ {"write"} \in SUBSET Leaks(m)
      BY <1>5, <2>3 DEF JudgeSole, Leaks
    <3>2. QED
      BY <1>1, <1>2, <3>1
  <2>4. QED
    BY <2>1, <2>2, <2>3
<1>6. CASE r = JudgePair(result, t)
  <2> DEFINE verdict == ClassifyTableResult(m, KnownNoPolicy(t), Len(tenants[t]))
             noting == IF verdict # "leak" /\ Inconclusive(m) THEN Note(result, t) ELSE result
  <2>1. noting \in {result, Note(result, t)}
    OBVIOUS
  <2>2. \/ r = Note(result, t) \/ r = Prove(noting, t) \/ r = Note(noting, t)
        \/ r = Blame(noting, t, Leaks(m))
    BY <1>6 DEF JudgePair
  <2> HIDE DEF noting, verdict
  <2>3. noting \in Results /\ noting.violations = result.violations
    BY <1>1, <1>3, <2>1
  <2>4. CASE r = Blame(noting, t, Leaks(m))
    BY <1>2, <2>3, <2>4
  <2>5. CASE r = Note(result, t) \/ r = Prove(noting, t) \/ r = Note(noting, t)
    BY <1>4, <2>1, <2>5
  <2>6. QED
    BY <2>2, <2>4, <2>5
<1>7. QED
  BY <1>5, <1>6

\* What the measures of a table that is called isolated cannot be.
LEMMA JudgedClean ==
  ASSUME TypeInv, NEW t \in Tables,
         NEW r, r = IF Len(tenants[t]) < 2 THEN JudgeSole(result, t) ELSE JudgePair(result, t),
         t \in r.proven \cup r.readOnly, t \notin result.proven \cup result.readOnly
  PROVE  /\ ~m.failed /\ ~(m.cross > 0) /\ ~(m.write > 0)
         /\ Len(tenants[t]) >= 2 =>
              /\ ~m.denied
              /\ t \notin r.noted => Unclean \cap (m.inserts \cup m.orphans) = {}
<1>1. result \in Results /\ Note(result, t) \in Results /\ tenants[t] \in Seq(Tenants)
  BY OutcomeTypes DEF TypeInv, GuardTypeOK
<1>2. \A kinds : /\ Blame(result, t, kinds).proven = result.proven
                 /\ Blame(result, t, kinds).readOnly = result.readOnly
  BY <1>1 DEF Blame, Results
<1>3. Note(result, t).proven = result.proven /\ Note(result, t).readOnly = result.readOnly
  BY <1>1 DEF Note, Results
<1>4. CASE Len(tenants[t]) < 2
  <2>1. r = JudgeSole(result, t) /\ ~(Len(tenants[t]) >= 2)
    BY <1>1, <1>4
  <2>2. ~m.failed /\ ~(m.cross > 0) /\ ~(m.write > 0)
    BY <1>2, <1>3, <2>1 DEF JudgeSole
  <2>3. QED
    BY <2>1, <2>2
<1>5. CASE ~(Len(tenants[t]) < 2)
  <2> DEFINE verdict == ClassifyTableResult(m, KnownNoPolicy(t), Len(tenants[t]))
             noting == IF verdict # "leak" /\ Inconclusive(m) THEN Note(result, t) ELSE result
  <2>1. r = JudgePair(result, t)
    BY <1>5
  <2>2. noting \in {result, Note(result, t)}
    OBVIOUS
  <2>3. /\ \A kinds : /\ Blame(noting, t, kinds).proven = result.proven
                      /\ Blame(noting, t, kinds).readOnly = result.readOnly
        /\ Note(noting, t).proven = result.proven /\ Note(noting, t).readOnly = result.readOnly
    BY <1>1, <1>3, <2>2 DEF Blame, Note, Results
  <2>4. ~m.failed /\ verdict = "isolated"
    BY <1>3, <2>1, <2>3 DEF JudgePair
  <2>5. r = Prove(noting, t)
    BY <2>1, <2>4 DEF JudgePair
  <2>6. ~m.denied /\ Leaks(m) = {}
    BY <2>4 DEF ClassifyTableResult
  <2>7. /\ ~(m.cross > 0) /\ ~(m.write > 0)
        /\ "leak" \notin m.inserts \cup m.orphans
    BY <2>6 DEF Leaks
  <2>8. ASSUME t \notin r.noted PROVE "inconclusive" \notin m.inserts \cup m.orphans
    <3>1. r.noted = noting.noted
      BY <1>1, <2>2, <2>5 DEF Prove, Results
    <3>2. t \in Note(result, t).noted
      BY <1>1 DEF Note, Results
    <3>3. ~Inconclusive(m)
      BY <2>4, <2>8, <3>1, <3>2
    <3>4. QED
      BY <2>7, <3>3 DEF Inconclusive
  <2>9. QED
    BY <2>4, <2>6, <2>7, <2>8 DEF Unclean
<1>6. QED
  BY <1>4, <1>5

\* To a policy, and to a grant, one stranger is like another.
LEMMA SameStranger ==
  ASSUME NEW t, NEW mine \in Tenants, NEW x \in Tenants \ {mine}, NEW f \in Tenants \ {mine},
         NEW r \in Row, r.tenant = mine
  PROVE  /\ CanRead(x, t, r) => CanRead(f, t, r)
         /\ CanDelete(x, t, r) => CanDelete(f, t, r)
         /\ CanUpdate(x, t, r, x) => CanUpdate(f, t, r, f)
<1>1. mine # NullTenant /\ r.tenant # x /\ r.tenant # f
  BY SentinelAssumption
<1>2. \A p : Passes(p, x, r) => Passes(p, f, r)
  BY <1>1 DEF Passes
<1>3. \A p : Passes(p, x, [r EXCEPT !.tenant = x]) => Passes(p, f, [r EXCEPT !.tenant = f])
  BY DEF Passes, Row
<1>4. QED
  BY <1>2, <1>3 DEF CanRead, CanDelete, CanUpdate, May

\* What was settled for the two, or for one stranger, holds for all of them.
LEMMA SettledBoth ==
  ASSUME NEW t \in Tables, NEW a, NEW b, a # b, NEW x \in {a, b}, NEW y \in {a, b} \ {x},
         Settled("cross", x, y, t)
  PROVE  /\ ~Reads(x, t, {a, b})
         /\ Plain(t) /\ Settled("claim", x, y, t) /\ Settled("wipe", x, y, t) => ~Takes(x, t, {a, b})
         /\ Plain(t) /\ Settled("move", x, y, t) => ~Hops(x, t, {a, b})
         /\ Settled("insert", x, y, t) => ~Plants(x, t, {a, b})
         /\ Settled("omit", x, y, t) => ~Orphans(x, t)
<1>1. {a, b} \ {x} = {y}
  OBVIOUS
<1>2. "select" \in shape[t].grants
  BY DEF Settled
<1>3. QED
  BY <1>1, <1>2 DEF Settled, Reads, Takes, Hops, Plants

LEMMA SettledSole ==
  ASSUME StrongIdentity, SampledInv, NEW t \in Tables, SoleTenant(t), SampleLimit > 1,
         NEW f \in Tenants \ {tenants[t][1]}, NEW x \in Tenants
  PROVE  /\ Settled("cross", f, tenants[t][1], t) \/ "select" \notin shape[t].grants =>
              ~Reads(x, t, Tenants)
         /\ Plain(t) /\ Settled("claim", f, tenants[t][1], t) /\ Settled("wipe", f, tenants[t][1], t) =>
              ~Takes(x, t, Tenants)
<1>1. PICK mine \in Tenants : mine = tenants[t][1]
  <2>1. tenants[t] \in Seq(Tenants) /\ Len(tenants[t]) = 1
    BY DEF StrongIdentity, Strong, TypeInv, GuardTypeOK, SoleTenant
  <2>2. QED
    BY <2>1
<1>2. \A r \in Baseline(t) : r \in Row /\ r.tenant \in {mine, NullTenant}
  BY <1>1 DEF SampledInv, StrongIdentity, Strong, TypeInv, PgInv, PgTypeOK, GuardTypeOK, Baseline
<1>3. ASSUME NEW r \in Baseline(t), r.tenant \in Tenants \ {x}
      PROVE  r \in Row /\ r.tenant = mine /\ x \in Tenants \ {mine}
  BY <1>2, <1>3, SentinelAssumption
<1>4. ASSUME NEW r \in Baseline(t), r.tenant \in Tenants \ {x}
      PROVE  /\ CanRead(x, t, r) => CanRead(f, t, r)
             /\ CanDelete(x, t, r) => CanDelete(f, t, r)
             /\ CanUpdate(x, t, r, x) => CanUpdate(f, t, r, f)
  BY <1>1, <1>3, <1>4, SameStranger
<1>5. ASSUME Settled("cross", f, mine, t) \/ "select" \notin shape[t].grants PROVE ~Reads(x, t, Tenants)
  BY <1>3, <1>4, <1>5 DEF Reads, Settled, CanRead, May
<1>6. ASSUME Plain(t), Settled("claim", f, mine, t), Settled("wipe", f, mine, t) PROVE ~Takes(x, t, Tenants)
  BY <1>3, <1>4, <1>6 DEF Takes, Settled
<1>7. QED
  BY <1>1, <1>5, <1>6

-----------------------------------------------------------------------------
(* The invariant, and what is reported.                                    *)

LEMMA EntersProbe ==
  ASSUME [Next]_vars, pc # "probe", pc' = "probe"
  PROVE  StartTable
BY DEF Next, Guard, SkipRun, Connect, ConnectFails, Close, MakePlan, BeginProof, SeedOne,
   SeedFails, StartSampling, SampleTenants, SampleCounts, SamplingFails, NextSampled, SetUpCanary, SetRole,
   ReadCanary, RefuseVacuousPass, PassOver, FinishTables, Unwind, Goto, Become, CountRows, OpenProbe,
   CountBefore, RunWrite, RunInsert, CountAfter, UndoProbe, Undoing, Now, In, ProbeOther, JudgeTable,
   Environment, Finished, vars, guardVars

LEMMA ProbingKeepsDrops ==
  ASSUME Probing
  PROVE  drops' = drops
BY DEF Probing, Become, CountRows, OpenProbe, CountBefore, RunWrite, RunInsert, CountAfter, UndoProbe,
   Abandon, Fail, Apply, SetSavepoint, UndoSavepoint, pgVars

LEMMA TableStepKnown ==
  ASSUME StrongIdentity, SampledInv, PhaseInv, TableInv, [Next]_vars, writes' = 0
  PROVE  TableInv'
<1>0. TypeInv
  BY DEF StrongIdentity, Strong
<1>1. CASE pc = "probe"
  <2>1. UNCHANGED Known
    BY <1>0, <1>1, QuietStep DEF Known
  <2>2. CASE Probing /\ ProbeOther
    BY <2>1, <2>2, ScriptStep, ProbeEvidenceStep, MeasuredStep, AskedStep, ProbingKeepsDrops DEF TableInv
  <2>3. CASE JudgeTable
    <3>1. pc' # "probe"
      BY <2>3 DEF JudgeTable, Goto
    <3>2. QED
      BY <3>1, NoneInHand
  <2>4. CASE (Drop /\ UNCHANGED guardVars) \/ UNCHANGED vars
    BY <2>4, BetweenStatements DEF vars
  <2>5. QED
    BY <1>0, <1>1, <2>2, <2>3, <2>4, ProbeActions
<1>2. CASE pc # "probe" /\ pc' = "probe"
  BY <1>2, EntersProbe, StartTableStep
<1>3. CASE pc' # "probe"
  BY <1>3, NoneInHand
<1>4. QED
  BY <1>1, <1>2, <1>3

LEMMA KnownInit == Init => KnownInv
  BY SampledInit, PhaseInit, TableInit DEF KnownInv, TableInv

LEMMA KnownStep ==
  ASSUME StrongIdentity, QuietInv, [Next]_vars
  PROVE  QuietInv'
<1>1. SUFFICES ASSUME writes' = 0 PROVE KnownInv'
  BY DEF QuietInv
<1>2. KnownInv
  BY <1>1, QuietStep DEF QuietInv, StrongIdentity, Strong
<1>3. SampledInv' /\ PhaseInv'
  BY <1>1, <1>2, SampledStep, PhaseStep DEF KnownInv
<1>4. TableInv'
  BY <1>1, <1>2, TableStepKnown DEF KnownInv, TableInv
<1>5. QED
  BY <1>3, <1>4 DEF KnownInv, TableInv

\* Once the tables are reached, what a session may do stands still.
LEMMA AtTheTables ==
  ASSUME TypeInv, Undecided, [Next]_vars, writes' = 0
  PROVE  /\ writes = 0 /\ UNCHANGED cfg
         /\ drops' = 0 => drops = 0
         /\ \/ /\ result.violations = {} /\ result.proven = {} /\ result.readOnly = {}
               /\ result'.violations = {} /\ result'.proven = {} /\ result'.readOnly = {}
            \/ UNCHANGED Known
<1>1. /\ writes = 0 /\ UNCHANGED cfg /\ (drops' = 0 => drops = 0)
      /\ pc \notin Early => UNCHANGED Known
  BY QuietStep DEF Known, Early
<1>2. CASE pc \in Early
  <2>1. result.violations = {} /\ result.proven = {} /\ result.readOnly = {}
    BY <1>2 DEF Undecided, NoResult
  <2>2. ~JudgeTable
    BY <1>2 DEF JudgeTable, Early
  <2>3. QED
    BY <1>1, <2>1, <2>2, ResultFrame
<1>3. QED
  BY <1>1, <1>2

LEMMA RealStep ==
  ASSUME StrongIdentity, Undecided, MeasuredInv, LeaksAreReal, [Next]_vars, writes' = 0
  PROVE  LeaksAreReal'
<1>0. TypeInv
  BY DEF StrongIdentity, Strong
<1>1. CASE result'.violations = {}
  BY <1>1 DEF LeaksAreReal
<1>2. CASE UNCHANGED Known
  <2> SUFFICES ASSUME NEW v \in result'.violations
               PROVE  \/ Leak(v[1], v[2])'
                      \/ v[2] = "write" /\ Undersampled(v[1])'
                      \/ v[2] = "insert" /\ Mislaid(v[1])'
    BY DEF LeaksAreReal
  <2>1. ASSUME v[1] \in Tables,
               \/ Leak(v[1], v[2])
               \/ v[2] = "write" /\ Undersampled(v[1])
               \/ v[2] = "insert" /\ Mislaid(v[1])
        PROVE  \/ Leak(v[1], v[2])'
               \/ v[2] = "write" /\ Undersampled(v[1])'
               \/ v[2] = "insert" /\ Mislaid(v[1])'
    BY <1>2, <2>1, TruthFrame, RightsFrame
  <2>2. CASE v \in result.violations
    <3>1. v[1] \in Tables
      BY <1>0, <2>2 DEF TypeInv, GuardTypeOK, Results
    <3>2. writes = 0
      BY <1>0, AtTheTables
    <3>3. QED
      BY <2>1, <2>2, <3>1, <3>2 DEF LeaksAreReal
  <2>3. CASE v \notin result.violations
    <3>1. JudgeTable
      BY <1>0, <2>3, ResultFrame
    <3>2. PICK t \in Tables : t = plan[i]
      BY <1>0, <3>1, PlannedTable DEF JudgeTable, TypeInv, InPlan
    <3>3. /\ InHand(t)
          /\ result' \in {JudgeSole(result, t), JudgePair(result, t)}
      BY <3>1, <3>2 DEF JudgeTable, InHand
    <3>4. PICK k \in Leaks(m) : v = <<t, k>>
      BY <1>0, <2>3, <3>3, JudgedLeaks
    <3>5. v[1] = t /\ v[2] = k
      BY <3>4
    <3>6. \/ Leak(t, k)
          \/ k = "write" /\ Undersampled(t)
          \/ k = "insert" /\ Mislaid(t)
      BY <3>3, <3>4 DEF MeasuredInv, Leaks, Leak
    <3>7. QED
      BY <2>1, <3>5, <3>6
  <2>4. QED
    BY <2>2, <2>3
<1>3. QED
  BY <1>0, <1>1, <1>2, AtTheTables

\* What ProvenIsolated says of one table.
Separate(t, noted) ==
  SeenWhole(t) => \A x \in Pair(t) :
    /\ ~Reads(x, t, Pair(t))
    /\ cfg.probeWrites /\ Plain(t) /\ AskedWhole(t) =>
         /\ ~Takes(x, t, Pair(t))
         /\ Len(tenants[t]) >= 2 => ~Hops(x, t, Pair(t))
    /\ cfg.probeWrites /\ Len(tenants[t]) >= 2 /\ t \notin noted =>
         ~Plants(x, t, Pair(t)) /\ ~Orphans(x, t)

LEMMA SeparateStays ==
  ASSUME UNCHANGED Known, drops' = 0 => drops = 0, NEW t \in Tables, NEW noted,
         t \in noted => t \in result'.noted, Separate(t, noted)
  PROVE  Separate(t, result.noted)'
<1>1. /\ Pair(t)' = Pair(t) /\ Plain(t)' = Plain(t) /\ cfg' = cfg /\ tenants' = tenants /\ shape' = shape
      /\ SoleTenant(t)' = SoleTenant(t)
      /\ \A x, ys : Reads(x, t, ys)' = Reads(x, t, ys)
      /\ \A x, ys : Takes(x, t, ys)' = Takes(x, t, ys)
      /\ \A x, ys : Hops(x, t, ys)' = Hops(x, t, ys)
      /\ \A x, ys : Plants(x, t, ys)' = Plants(x, t, ys)
      /\ \A x : Orphans(x, t)' = Orphans(x, t)
  BY RightsFrame, TruthFrame DEF Known
<1>2. SeenWhole(t)' = SeenWhole(t) /\ (AskedWhole(t)' => AskedWhole(t))
  BY <1>1 DEF SeenWhole, AskedWhole
<1>3. QED
  BY <1>1, <1>2 DEF Separate

LEMMA JudgedSeparate ==
  ASSUME StrongIdentity, SampledInv, ScriptInv, MeasuredInv, AskedInv, cfg.identity = "ok",
         NEW t \in Tables, InHand(t), todo = <<>>, NEW noted,
         ~m.failed, ~(m.cross > 0), ~(m.write > 0),
         Len(tenants[t]) >= 2 =>
           /\ ~m.denied
           /\ t \notin noted => Unclean \cap (m.inserts \cup m.orphans) = {}
  PROVE  Separate(t, noted)
<1>1. PICK sides \in Sides(t) : \A p \in sides, op \in Questions(t) :
        Settled(op, p[1], p[2], t) \/ Excused(op, t)
  <2>1. ToSet(todo) = {}
    BY DEF ToSet
  <2>2. QED
    BY <2>1 DEF AskedInv, Pending
<1>2. /\ \A op \in {"cross", "claim", "wipe", "move"} : Excused(op, t) =>
           m.denied \/ (op # "cross" /\ SoleTenant(t) /\ drops > 0)
      /\ \A op \in {"insert", "omit"} : Excused(op, t) =>
           m.denied \/ Unclean \cap (m.inserts \cup m.orphans) # {}
  BY DEF Excused, Lost, Changes
<1>3. tenants[t] \in Seq(Tenants) /\ Len(tenants[t]) \in Nat
  BY DEF StrongIdentity, Strong, TypeInv, GuardTypeOK
<1>4. CASE Len(tenants[t]) >= 2
  <2>1. PICK a, b : a = tenants[t][1] /\ b = tenants[t][2]
    OBVIOUS
  <2>2. a # b /\ Pair(t) = {a, b} /\ sides = {<<a, b>>, <<b, a>>} /\ ~SoleTenant(t)
    BY <1>3, <1>4, <2>1 DEF SampledInv, Pair, Sides, SoleTenant
  <2>3. ASSUME NEW x \in {a, b}
        PROVE  /\ ~Reads(x, t, {a, b})
               /\ cfg.probeWrites /\ Plain(t) => ~Takes(x, t, {a, b}) /\ ~Hops(x, t, {a, b})
               /\ cfg.probeWrites /\ t \notin noted => ~Plants(x, t, {a, b}) /\ ~Orphans(x, t)
    <3>1. PICK y \in {a, b} \ {x} : <<x, y>> \in sides
      BY <2>2
    <3>2. \A op \in Questions(t) : Settled(op, x, y, t) \/ Excused(op, t)
      <4>1. PICK p \in sides : p[1] = x /\ p[2] = y
        BY <3>1
      <4>2. QED
        BY <1>1, <4>1
    <3>3. Settled("cross", x, y, t)
      BY <1>2, <1>4, <3>2 DEF Questions
    <3>4. cfg.probeWrites => \A op \in {"claim", "wipe", "move"} : Settled(op, x, y, t)
      BY <1>2, <1>4, <2>2, <3>2 DEF Questions, Changes
    <3>5. cfg.probeWrites /\ t \notin noted => \A op \in {"insert", "omit"} : Settled(op, x, y, t)
      BY <1>2, <1>4, <3>2 DEF Questions
    <3>6. QED
      BY <2>2, <3>3, <3>4, <3>5, SettledBoth
  <2>4. QED
    BY <2>2, <2>3 DEF Separate
<1>5. CASE SoleTenant(t)
  <2>1. PICK f \in Tenants \ {tenants[t][1]} : sides = {<<f, tenants[t][1]>>}
    BY <1>3, <1>5 DEF Sides, SoleTenant
  <2>2. Pair(t) = Tenants /\ ~(Len(tenants[t]) >= 2)
    BY <1>3, <1>5 DEF Pair, SoleTenant
  <2>3. \A op \in Questions(t) : Settled(op, f, tenants[t][1], t) \/ Excused(op, t)
    <3>1. PICK p \in sides : p[1] = f /\ p[2] = tenants[t][1]
      BY <2>1
    <3>2. QED
      BY <1>1, <3>1
  <2>4. m.denied => "select" \notin shape[t].grants
    BY DEF MeasuredInv
  <2>5. Settled("cross", f, tenants[t][1], t) \/ "select" \notin shape[t].grants
    BY <1>2, <2>3, <2>4 DEF Questions
  <2>6. ASSUME cfg.probeWrites, AskedWhole(t)
        PROVE  Settled("claim", f, tenants[t][1], t) /\ Settled("wipe", f, tenants[t][1], t)
    <3>1. ~m.denied /\ drops = 0 /\ ~(drops > 0)
      BY <1>5, <2>4, <2>6 DEF AskedWhole
    <3>2. {"claim", "wipe"} \subseteq Questions(t)
      BY <2>2, <2>6 DEF Questions
    <3>3. QED
      BY <1>2, <2>3, <3>1, <3>2
  <2>7. ASSUME SeenWhole(t), NEW x \in Tenants
        PROVE  /\ ~Reads(x, t, Tenants)
               /\ cfg.probeWrites /\ Plain(t) /\ AskedWhole(t) => ~Takes(x, t, Tenants)
    <3>1. SampleLimit > 1
      BY <1>5, <2>7 DEF SeenWhole
    <3>2. QED
      BY <1>5, <2>5, <2>6, <3>1, SettledSole
  <2>8. QED
    BY <2>2, <2>7 DEF Separate
<1>6. QED
  BY <1>4, <1>5 DEF ScriptInv

LEMMA IsolatedStep ==
  ASSUME StrongIdentity, Undecided, SampledInv, ScriptInv, MeasuredInv, AskedInv, ProvenIsolated,
         [Next]_vars, writes' = 0
  PROVE  ProvenIsolated'
<1>0. TypeInv
  BY DEF StrongIdentity, Strong
<1>1. CASE result'.proven = {} /\ result'.readOnly = {}
  BY <1>1 DEF ProvenIsolated
<1>2. CASE UNCHANGED Known
  <2>0. writes = 0 /\ cfg' = cfg /\ (drops' = 0 => drops = 0)
    BY <1>0, AtTheTables
  <2>1. SUFFICES ASSUME cfg.identity = "ok", NEW t \in result'.proven \cup result'.readOnly
                 PROVE  Separate(t, result.noted)'
    BY <2>0 DEF ProvenIsolated, Separate
  <2>2. PICK noted : noted = result.noted
    OBVIOUS
  <2>3. PICK more : more = result'.noted
    OBVIOUS
  <2>4. CASE t \in result.proven \cup result.readOnly
    <3>1. t \in Tables
      BY <1>0, <2>4 DEF TypeInv, GuardTypeOK, Results
    <3>2. Separate(t, noted)
      BY <2>0, <2>1, <2>2, <2>4 DEF ProvenIsolated, Separate
    <3>3. noted \subseteq more
      <4>1. CASE JudgeTable
        <5>1. PICK u \in Tables : u = plan[i]
          BY <1>0, <4>1, PlannedTable DEF JudgeTable, TypeInv, InPlan
        <5>2. result' \in {JudgeSole(result, u), JudgePair(result, u)}
          BY <4>1, <5>1 DEF JudgeTable
        <5>3. QED
          BY <1>0, <2>2, <2>3, <5>2, JudgedAnswer
      <4>2. CASE ~JudgeTable
        BY <1>0, <2>2, <2>3, <4>2, ResultFrame
      <4>3. QED
        BY <4>1, <4>2
    <3>4. QED
      BY <1>2, <2>0, <2>2, <2>3, <3>1, <3>2, <3>3, SeparateStays
  <2>5. CASE t \notin result.proven \cup result.readOnly
    <3>1. JudgeTable
      BY <1>0, <2>5, ResultFrame
    <3>2. PICK u \in Tables : u = plan[i]
      BY <1>0, <3>1, PlannedTable DEF JudgeTable, TypeInv, InPlan
    <3>3. /\ InHand(u) /\ todo = <<>>
          /\ result' = IF Len(tenants[u]) < 2 THEN JudgeSole(result, u) ELSE JudgePair(result, u)
      BY <3>1, <3>2 DEF JudgeTable, InHand
    <3>4. t = u
      <4>1. result' \in {JudgeSole(result, u), JudgePair(result, u)}
        BY <3>3
      <4>2. QED
        BY <1>0, <2>1, <2>5, <4>1, JudgedProven
    <3>5. /\ ~m.failed /\ ~(m.cross > 0) /\ ~(m.write > 0)
          /\ Len(tenants[t]) >= 2 =>
               /\ ~m.denied
               /\ t \notin more => Unclean \cap (m.inserts \cup m.orphans) = {}
      BY <1>0, <2>1, <2>3, <2>5, <3>2, <3>3, <3>4, JudgedClean
    <3>6. Separate(t, more)
      BY <2>1, <3>2, <3>3, <3>4, <3>5, JudgedSeparate
    <3>7. QED
      BY <1>2, <2>0, <2>3, <3>2, <3>4, <3>6, SeparateStays
  <2>6. QED
    BY <2>4, <2>5
<1>3. QED
  BY <1>0, <1>1, <1>2, AtTheTables

\* "Conservative, never invents a leak": while no other session commits, every
\* leak that is reported can be committed by some session of the application's
\* role, but for the two kinds of table the property names.
THEOREM NoLeakInvented == Spec => []LeaksAreReal
<1> DEFINE Inv == StrongIdentity /\ Undecided /\ QuietInv /\ LeaksAreReal
<1>1. Init => Inv
  <2>1. Init => LeaksAreReal
    BY DEF Init, NoResult, LeaksAreReal
  <2>2. QED
    BY <2>1, StrongIdentityInit, UndecidedInit, KnownInit DEF QuietInv
<1>2. Inv /\ [Next]_vars => Inv'
  <2> SUFFICES ASSUME Inv, [Next]_vars PROVE Inv'
    OBVIOUS
  <2>1. StrongIdentity' /\ Undecided' /\ QuietInv'
    BY StrongIdentityStep, UndecidedStep, KnownStep DEF StrongIdentity, Strong
  <2>2. LeaksAreReal'
    <3>1. CASE writes' = 0
      <4>1. KnownInv
        BY <3>1, QuietStep DEF QuietInv, StrongIdentity, Strong
      <4>2. QED
        BY <3>1, <4>1, RealStep DEF KnownInv
    <3>2. CASE writes' # 0
      BY <3>2 DEF LeaksAreReal
    <3>3. QED
      BY <3>1, <3>2
  <2>3. QED
    BY <2>1, <2>2
<1>3. Inv => LeaksAreReal
  OBVIOUS
<1>4. QED
  BY <1>1, <1>2, <1>3, PTL DEF Spec

\* "A's session can neither READ nor WRITE tenant B's rows": while no other session
\* commits and the identity is the one policies read, a proven table keeps the
\* tenants it was proven against apart, as far as the property says.
THEOREM ProvenTablesIsolate == Spec => []ProvenIsolated
<1> DEFINE Inv == StrongIdentity /\ Undecided /\ QuietInv /\ ProvenIsolated
<1>1. Init => Inv
  <2>1. Init => ProvenIsolated
    BY DEF Init, NoResult, ProvenIsolated
  <2>2. QED
    BY <2>1, StrongIdentityInit, UndecidedInit, KnownInit DEF QuietInv
<1>2. Inv /\ [Next]_vars => Inv'
  <2> SUFFICES ASSUME Inv, [Next]_vars PROVE Inv'
    OBVIOUS
  <2>1. StrongIdentity' /\ Undecided' /\ QuietInv'
    BY StrongIdentityStep, UndecidedStep, KnownStep DEF StrongIdentity, Strong
  <2>2. ProvenIsolated'
    <3>1. CASE writes' = 0
      <4>1. KnownInv
        BY <3>1, QuietStep DEF QuietInv, StrongIdentity, Strong
      <4>2. QED
        BY <3>1, <4>1, IsolatedStep DEF KnownInv
    <3>2. CASE writes' # 0
      BY <3>2 DEF ProvenIsolated
    <3>3. QED
      BY <3>1, <3>2
  <2>3. QED
    BY <2>1, <2>2
<1>3. Inv => ProvenIsolated
  OBVIOUS
<1>4. QED
  BY <1>1, <1>2, <1>3, PTL DEF Spec
=============================================================================
