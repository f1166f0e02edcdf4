------------------------------ MODULE CiProof ------------------------------
(***************************************************************************)
(* The types of CiJob and what a process and a job promise, for any guards,*)
(* files, jobs and faults; then the types of MigrationHistory and what     *)
(* rls-drift, migration-collisions and definer-grants promise, for any     *)
(* files, deployments and edits by hand.                                   *)
(***************************************************************************)
EXTENDS CiJobProperties, MigrationHistoryProperties, SequenceTheorems, FiniteSetTheorems, TLAPS

-----------------------------------------------------------------------------
(* The types.                                                              *)

Codes == {0, 1, 2, 137}
Call == [args : Args, results : Seq(GuardResult), left : Seq(Guards), code : Codes]

ProcessType ==
  /\ args \in Args
  /\ pc \in {"idle", "parse", "guards", "emit", "exited"}
  /\ left \in Seq(Guards) /\ results \in Seq(GuardResult)
  /\ pending \in Seq(Formats) /\ stdout \in Seq(Formats \cup {"text"})
  /\ code \in Codes

DiskType ==
  /\ files \in [Paths -> Content] /\ summary \in Seq(Content)
  /\ config \in {"absent", "ok", "broken"}

CliType ==
  /\ ProcessType
  /\ DiskType
  /\ calls \in Seq(Call)
  /\ faults \in 0..MaxFaults

JobType ==
  /\ job \in Seq(Steps) /\ at \in 1..(Len(job) + 1)
  /\ stage \in {"next", "install", "launch", "running", "upload", "verdict", "end"}
  /\ outputs \in [1..Len(job) -> [result : {"none", "pass", "fail"}, code : Codes,
                                  sarifExists : BOOLEAN]]
  /\ uploads \in Seq([step : 1..Len(job), content : Content])
  /\ launched \in Seq(1..Len(job))
  /\ stepFailed \in BOOLEAN /\ jobFailed \in BOOLEAN

\* A step of the job is only worked on while there is one.
AtStep == job \in Jobs /\ (stage # "next" => at \in 1..Len(job))

TypeInv == CliType /\ JobType /\ AtStep

LEMMA TypesMeet == TypeInv => TypeOK
  BY DEF TypeInv, CliType, ProcessType, DiskType, JobType, Codes, Call, TypeOK

-----------------------------------------------------------------------------
(* What a command line and a result are made of.                           *)

LEMMA GuardsOfType ==
  ASSUME NEW cmd
  PROVE  GuardsOf(cmd) \in Seq(Guards)
<1>0. StaticGuards \in Seq(STRING) /\ RuntimeGuards \in Seq(STRING)
  BY GuardAssumption
<1>1. /\ StaticGuards \in Seq(STRING) /\ RuntimeGuards \in Seq(STRING) /\ AllGuards \in Seq(STRING)
      /\ Len(AllGuards) = Len(StaticGuards) + Len(RuntimeGuards)
      /\ \A k \in 1..Len(StaticGuards) + Len(RuntimeGuards) :
           AllGuards[k] = IF k <= Len(StaticGuards) THEN StaticGuards[k]
                                                    ELSE RuntimeGuards[k - Len(StaticGuards)]
      /\ Len(StaticGuards) \in Nat /\ Len(RuntimeGuards) \in Nat
  <2> DEFINE S == STRING
  <2>1. StaticGuards \in Seq(S) /\ RuntimeGuards \in Seq(S) BY <1>0
  <2> HIDE DEF S
  <2>2. /\ StaticGuards \o RuntimeGuards \in Seq(S)
        /\ Len(StaticGuards \o RuntimeGuards) = Len(StaticGuards) + Len(RuntimeGuards)
        /\ \A k \in 1..Len(StaticGuards) + Len(RuntimeGuards) :
             (StaticGuards \o RuntimeGuards)[k] = IF k <= Len(StaticGuards) THEN StaticGuards[k]
                                                   ELSE RuntimeGuards[k - Len(StaticGuards)]
    BY <2>1, ConcatProperties
  <2>3. Len(StaticGuards) \in Nat /\ Len(RuntimeGuards) \in Nat BY <2>1, LenProperties
  <2> QED BY <2>1, <2>2, <2>3 DEF AllGuards, S
<1>2. \A k \in 1..Len(StaticGuards) : StaticGuards[k] \in Guards
  BY <1>1, LenProperties DEF Guards, ToSet
<1>3. \A k \in 1..Len(RuntimeGuards) : RuntimeGuards[k] \in Guards
  <2> SUFFICES ASSUME NEW k \in 1..Len(RuntimeGuards) PROVE RuntimeGuards[k] \in Guards
    OBVIOUS
  <2> DEFINE n == k + Len(StaticGuards)
  <2>1. n \in 1..Len(StaticGuards) + Len(RuntimeGuards) /\ ~(n <= Len(StaticGuards))
        /\ n - Len(StaticGuards) = k
    BY <1>1
  <2>2. AllGuards[n] = RuntimeGuards[k] /\ n \in DOMAIN AllGuards
    BY <1>1, <2>1, LenProperties
  <2>3. QED
    BY <2>2 DEF Guards, ToSet
<1>4. \A k \in 1..Len(AllGuards) : AllGuards[k] \in Guards
  BY <1>1, LenProperties DEF Guards, ToSet
<1>5. ASSUME NEW s \in Seq(STRING), \A k \in 1..Len(s) : s[k] \in Guards
      PROVE  s \in Seq(Guards)
  BY <1>5
<1>6. cmd \in ToSet(RuntimeGuards) => cmd \in Guards
  BY <1>1, <1>3, LenProperties DEF ToSet
<1>7. StaticGuards \in Seq(Guards) /\ AllGuards \in Seq(Guards)
  BY <1>1, <1>2, <1>4, <1>5
<1>8. QED
  BY <1>6, <1>7 DEF GuardsOf

LEMMA ResultType ==
  ASSUME NEW g \in Guards, NEW outcome
  PROVE  Result(g, outcome) \in GuardResult
  BY DEF Result, GuardResult

LEMMA WantedType == Wanted \in Seq(Formats)
<1>1. \A f \in Formats : Asked(f) \in Seq(Formats)
  BY DEF Asked
<1>2. "json" \in Formats /\ "sarif" \in Formats /\ "markdown" \in Formats
  BY DEF Formats
<1>3. QED
  BY <1>1, <1>2, ConcatProperties DEF Wanted

LEMMA DocType ==
  ASSUME CliType
  PROVE  /\ \A f \in Formats : Doc(f, ThisCall, results) \in Content
         /\ Torn(ThisCall) \in Content /\ Catalogue(ThisCall) \in Content /\ Absent \in Content
<1>1. ThisCall \in Nat
  BY LenProperties DEF ThisCall, CliType
<1>2. QED
  BY <1>1, EmptySeq DEF Doc, Torn, Catalogue, Absent, Content, CliType, ProcessType

LEMMA ActionArgsType ==
  ASSUME NEW j \in Jobs, job = j, NEW k \in 1..Len(j)
  PROVE  /\ ActionArgs(k) \in Args /\ j[k].args \in Args
         /\ JsonPath[k] \in Paths /\ SarifPath[k] \in Paths /\ Slot(k) = k
<1>1. j \in Seq(Steps) /\ Len(j) \in Nat /\ Len(j) <= Len(JsonPath) /\ Len(j) <= Len(SarifPath)
      /\ Len(JsonPath) \in Nat /\ Len(SarifPath) \in Nat
  BY JobAssumption, LenProperties
<1>2. k \in 1..Len(JsonPath) /\ k \in 1..Len(SarifPath) /\ j[k] \in Steps
  BY <1>1, ElementOfSeq
<1>3. JsonPath[k] \in Paths /\ SarifPath[k] \in Paths
  BY <1>2, JobAssumption, ElementOfSeq
<1>4. Slot(k) = k
  BY DEF Slot
<1>5. QED
  BY <1>2, <1>3, <1>4 DEF ActionArgs, Args, Targets, Steps

-----------------------------------------------------------------------------
(* The steps of a process.                                                 *)

LEMMA ExitType ==
  ASSUME CliType, NEW n \in Codes, ExitWith(n)
  PROVE  /\ pc' = "exited" /\ code' \in Codes /\ calls' \in Seq(Call)
         /\ UNCHANGED <<args, left, results, pending>>
<1>1. [args |-> args, results |-> results, left |-> left, code |-> n] \in Call
  BY DEF CliType, ProcessType, Call
<1>2. QED
  BY <1>1, AppendProperties DEF ExitWith, CliType

LEMMA WrittenType ==
  ASSUME CliType, NEW f, NEW content \in Content, Written(f, content)
  PROVE  files' \in [Paths -> Content] /\ summary' \in Seq(Content)
<1>1. CASE f = "markdown"
  <2>1. summary' = Append(summary, content) /\ files' = files
    BY <1>1 DEF Written
  <2>2. QED
    BY <2>1, AppendProperties DEF CliType, DiskType
<1>2. CASE f # "markdown"
  <2>1. files' = [files EXCEPT ![args[f]] = content] /\ summary' = summary
    BY <1>2 DEF Written
  <2>2. QED
    BY <2>1 DEF CliType, DiskType
<1>3. QED
  BY <1>1, <1>2

LEMMA FaultType ==
  ASSUME CliType, faults < MaxFaults, faults' = faults + 1
  PROVE  faults' \in 0..MaxFaults
  BY FaultAssumption DEF CliType

LEMMA ProcessStepType ==
  ASSUME CliType, Process
  PROVE  CliType'
<1> USE DEF CliType, ProcessType, DiskType
<1>0. 0 \in Codes /\ 1 \in Codes /\ 2 \in Codes /\ 137 \in Codes
  BY DEF Codes
<1>1. CASE RejectUsage
  BY <1>0, <1>1, ExitType DEF RejectUsage, disk
<1>2. CASE PrintHelp
  <2>1. stdout' \in Seq(Formats \cup {"text"})
    BY <1>2 DEF PrintHelp
  <2>2. QED
    BY <1>0, <1>2, <2>1, ExitType DEF PrintHelp, disk
<1>3. CASE Dispatch
  BY <1>3, GuardsOfType DEF Dispatch, disk
<1>4. CASE RunGuard
  <2>1. Head(left) \in Guards /\ left' \in Seq(Guards)
    BY <1>4, HeadTailProperties DEF RunGuard
  <2>2. results' \in Seq(GuardResult)
    BY <1>4, <2>1, ResultType, AppendProperties DEF RunGuard
  <2>3. QED
    BY <1>4, <2>1, <2>2 DEF RunGuard, disk
<1>5. CASE GuardThrows
  BY <1>0, <1>5, ExitType DEF GuardThrows, disk
<1>6. CASE Report
  <2>1. stdout' \in Seq(Formats \cup {"text"})
    <3>1. stdout' = <<>> \/ stdout' = <<"text">>
      BY <1>6 DEF Report
    <3>2. <<>> \in Seq(Formats \cup {"text"}) /\ <<"text">> \in Seq(Formats \cup {"text"})
      OBVIOUS
    <3>3. QED
      BY <3>1, <3>2
  <2>2. QED
    BY <1>6, <2>1, WantedType DEF Report, disk
<1>7. CASE WriteDocument
  <2> DEFINE f == Head(pending)
  <2>1. f \in Formats /\ pending' \in Seq(Formats)
    BY <1>7, HeadTailProperties DEF WriteDocument
  <2>2. CASE args[f] = "stdout"
    <3>1. stdout' \in Seq(Formats \cup {"text"}) /\ UNCHANGED <<files, summary>>
      <4>1. stdout' = Append(stdout, f) /\ UNCHANGED <<files, summary>>
        BY <1>7, <2>2 DEF WriteDocument
      <4>2. stdout \in Seq(Formats \cup {"text"}) /\ f \in Formats \cup {"text"}
        BY <2>1
      <4>3. QED
        BY <4>1, <4>2, AppendProperties
    <3>2. QED
      BY <1>7, <2>1, <3>1 DEF WriteDocument
  <2>3. CASE args[f] # "stdout"
    <3>1. files' \in [Paths -> Content] /\ summary' \in Seq(Content) /\ UNCHANGED stdout
      <4>1. Doc(f, ThisCall, results) \in Content /\ Written(f, Doc(f, ThisCall, results))
        BY <1>7, <2>1, <2>3, DocType DEF WriteDocument
      <4>2. QED
        BY <1>7, <2>3, <4>1, WrittenType DEF WriteDocument
    <3>2. QED
      BY <1>7, <2>1, <3>1 DEF WriteDocument
  <2>4. QED
    BY <2>2, <2>3
<1>8. CASE WriteFails
  <2>1. files' \in [Paths -> Content] /\ summary' \in Seq(Content)
    BY <1>8, DocType, WrittenType DEF WriteFails
  <2>2. faults' \in 0..MaxFaults
    BY <1>8, FaultType DEF WriteFails
  <2>3. QED
    BY <1>0, <1>8, <2>1, <2>2, ExitType DEF WriteFails
<1>9. CASE Finish
  <2>1. SummaryCode(results) \in Codes
    BY DEF SummaryCode, Codes
  <2>2. QED
    BY <1>9, <2>1, ExitType DEF Finish, disk
<1>10. CASE List
  <2>1. files' \in [Paths -> Content] /\ stdout' \in Seq(Formats \cup {"text"})
    <3>1. CASE files' = files /\ (stdout' = <<"text">> \/ stdout' = <<"json">>)
      <4>1. <<"text">> \in Seq(Formats \cup {"text"}) /\ <<"json">> \in Seq(Formats \cup {"text"})
        BY DEF Formats
      <4>2. QED
        BY <3>1, <4>1
    <3>2. CASE files' = [files EXCEPT ![args.json] = Catalogue(ThisCall)] /\ stdout' = stdout
      BY <3>2, DocType
    <3>3. QED
      BY <1>10, <3>1, <3>2 DEF List
  <2>2. QED
    BY <1>0, <1>10, <2>1, ExitType DEF List
<1>11. CASE InitConfig
  <2>1. stdout' \in Seq(Formats \cup {"text"}) /\ config' \in {"absent", "ok", "broken"}
    BY <1>11 DEF InitConfig
  <2>2. QED
    BY <1>0, <1>11, <2>1, ExitType DEF InitConfig
<1>12. CASE PlainWriteFails
  <2>1. faults' \in 0..MaxFaults
    BY <1>12, FaultType DEF PlainWriteFails
  <2>2. QED
    BY <1>0, <1>12, <2>1, ExitType DEF PlainWriteFails, disk
<1>13. CASE Killed
  <2>1. faults' \in 0..MaxFaults
    BY <1>13, FaultType DEF Killed
  <2>2. QED
    BY <1>0, <1>13, <2>1, ExitType DEF Killed, disk
<1>14. QED
  BY <1>1, <1>2, <1>3, <1>4, <1>5, <1>6, <1>7, <1>8, <1>9, <1>10, <1>11, <1>12, <1>13 DEF Process

-----------------------------------------------------------------------------
(* The steps of the job.                                                   *)

LEMMA StartType ==
  ASSUME CliType, NEW command \in Args, Start(command)
  PROVE  CliType'
  BY EmptySeq DEF CliType, ProcessType, DiskType, Start, disk, Codes

LEMMA ReapType ==
  ASSUME CliType, Reap
  PROVE  CliType'
  BY DEF CliType, ProcessType, DiskType, Reap, disk

LEMMA CliUnchanged ==
  ASSUME CliType, UNCHANGED cliVars
  PROVE  CliType'
  BY DEF CliType, ProcessType, DiskType, cliVars, process, disk

LEMMA JobUnchanged ==
  ASSUME TypeInv, UNCHANGED jobVars
  PROVE  JobType' /\ AtStep'
  BY DEF TypeInv, JobType, AtStep, jobVars

LEMMA PublishType ==
  ASSUME TypeInv, Publish
  PROVE  TypeInv'
<1> USE DEF TypeInv, JobType, AtStep
<1>1. CliType'
  BY ReapType DEF Publish
<1>2. at \in 1..Len(job) /\ Slot(at) = at /\ SarifPath[at] \in Paths
  BY ActionArgsType DEF Publish, Reap
<1>3. outputs' \in [1..Len(job) -> [result : {"none", "pass", "fail"}, code : Codes, sarifExists : BOOLEAN]]
  <2>1. PICK exists \in NonEmpty(files[SarifPath[Slot(at)]]) : outputs' = [outputs EXCEPT ![at] = Outputs(exists)]
    BY DEF Publish
  <2>2. exists \in BOOLEAN
    BY <2>1 DEF NonEmpty
  <2>3. Outputs(exists) \in [result : {"none", "pass", "fail"}, code : Codes, sarifExists : BOOLEAN]
    BY <2>2 DEF Outputs, CliType, ProcessType
  <2>4. QED
    BY <2>1, <2>3
<1>4. QED
  BY <1>1, <1>2, <1>3 DEF Publish

LEMMA UploadType ==
  ASSUME TypeInv, Upload
  PROVE  TypeInv'
<1> USE DEF TypeInv, JobType, AtStep
<1>1. CliType'
  BY CliUnchanged DEF Upload
<1>2. at \in 1..Len(job) /\ Slot(at) = at /\ SarifPath[at] \in Paths
  BY ActionArgsType DEF Upload
<1>3. files[SarifPath[Slot(at)]] \in Content
  BY <1>2 DEF CliType, DiskType
<1>4. uploads' \in Seq([step : 1..Len(job), content : Content])
  <2>1. [step |-> at, content |-> files[SarifPath[Slot(at)]]] \in [step : 1..Len(job), content : Content]
    BY <1>2, <1>3
  <2>2. uploads' = uploads \/ uploads' = Append(uploads, [step |-> at, content |-> files[SarifPath[Slot(at)]]])
    BY DEF Upload
  <2> DEFINE S == [step : 1..Len(job), content : Content]
             u == [step |-> at, content |-> files[SarifPath[Slot(at)]]]
  <2>3. uploads \in Seq(S) /\ u \in S /\ (uploads' = uploads \/ uploads' = Append(uploads, u))
    BY <2>1, <2>2
  <2> HIDE DEF S, u
  <2>4. uploads' \in Seq(S)
    <3>1. Append(uploads, u) \in Seq(S)
      BY <2>3, AppendProperties
    <3>2. QED
      BY <2>3, <3>1
  <2>5. QED
    BY <2>4 DEF S
<1>5. stage' \in {"verdict", "end"} /\ stepFailed' \in BOOLEAN
  BY DEF Upload
<1>6. QED
  BY <1>1, <1>2, <1>4, <1>5 DEF Upload

LEMMA JobStepType ==
  ASSUME TypeInv,
         StepBegins \/ StepSkipped \/ StepEnds \/ Install \/ Launch \/ ShellEnds \/ Verdict \/ ServiceFails
  PROVE  TypeInv'
<1> USE DEF TypeInv, JobType, AtStep
<1>0. Len(job) \in Nat
  BY LenProperties
<1>1. CASE StepBegins
  <2>0. stage' \in {"install", "launch"} /\ stepFailed' \in BOOLEAN
    BY <1>1 DEF StepBegins
  <2>3. CliType'
    BY <1>1, CliUnchanged DEF StepBegins
  <2>1. at \in 1..Len(job)
    BY <1>0, <1>1 DEF StepBegins
  <2>2. QED
    BY <1>1, <2>0, <2>1, <2>3 DEF StepBegins
<1>2. CASE StepSkipped
  BY <1>0, <1>2, CliUnchanged DEF StepSkipped
<1>3. CASE StepEnds
  BY <1>0, <1>3, CliUnchanged DEF StepEnds
<1>4. CASE Install
  BY <1>4, CliUnchanged DEF Install
<1>5. CASE Launch
  <2>1. at \in 1..Len(job) /\ ActionArgs(at) \in Args /\ job[at].args \in Args
    BY <1>5, ActionArgsType DEF Launch
  <2>2. CliType'
    <3>1. CASE job[at].kind = "action"
      BY <1>5, <2>1, <3>1, StartType DEF Launch
    <3>2. CASE job[at].kind # "action"
      BY <1>5, <2>1, <3>2, StartType DEF Launch
    <3>3. QED
      BY <3>1, <3>2
  <2>3. launched' \in Seq(1..Len(job))
    BY <1>5, <2>1, AppendProperties DEF Launch
  <2>4. QED
    BY <1>5, <2>1, <2>2, <2>3 DEF Launch
<1>6. CASE ShellEnds
  <2>1. CliType' /\ at \in 1..Len(job)
    BY <1>6, ReapType DEF ShellEnds, Reap
  <2>2. QED
    BY <1>6, <2>1 DEF ShellEnds
<1>7. CASE Verdict
  BY <1>7, CliUnchanged DEF Verdict
<1>8. CASE ServiceFails
  <2>1. faults' \in 0..MaxFaults
    BY <1>8, FaultType DEF ServiceFails
  <2>2. CliType'
    BY <1>8, <2>1 DEF ServiceFails, CliType, ProcessType, DiskType, process, disk
  <2>3. QED
    BY <1>8, <2>2 DEF ServiceFails
<1>9. QED
  BY <1>1, <1>2, <1>3, <1>4, <1>5, <1>6, <1>7, <1>8

LEMMA TypeInit == CiInit => TypeInv
<1> SUFFICES ASSUME CiInit PROVE TypeInv
  OBVIOUS
<1>1. job \in Seq(Steps) /\ Len(job) \in Nat
  BY JobAssumption, LenProperties DEF CiInit
<1>2. args \in Args
  <2>1. "run" \in STRING
    BY WordAssumption
  <2>2. "off" \in Targets(Paths) /\ "off" \in Targets({"summary"})
    BY DEF Targets
  <2>3. QED
    BY <2>1, <2>2 DEF CiInit, CliInit, Args
<1>3. files \in [Paths -> Content]
  BY EmptySeq DEF CiInit, CliInit, Absent, Content
<1>4. NoOutput \in [result : {"none", "pass", "fail"}, code : Codes, sarifExists : BOOLEAN]
  BY DEF NoOutput, Codes
<1>5. CliType
  BY <1>2, <1>3, FaultAssumption DEF CiInit, CliInit, CliType, ProcessType, DiskType, Codes
<1>6. JobType /\ AtStep
  <2>1. outputs \in [1..Len(job) -> [result : {"none", "pass", "fail"}, code : Codes, sarifExists : BOOLEAN]]
    BY <1>4 DEF CiInit
  <2>2. at \in 1..(Len(job) + 1) /\ job \in Jobs /\ stage = "next"
    BY <1>1 DEF CiInit
  <2>3. uploads \in Seq([step : 1..Len(job), content : Content]) /\ launched \in Seq(1..Len(job))
    BY DEF CiInit
  <2>4. QED
    BY <1>1, <2>1, <2>2, <2>3 DEF CiInit, JobType, AtStep
<1>7. QED
  BY <1>5, <1>6 DEF TypeInv

LEMMA TypeStep == TypeInv /\ [Next]_vars => TypeInv'
<1> SUFFICES ASSUME TypeInv, [Next]_vars PROVE TypeInv'
  OBVIOUS
<1>1. CASE Process /\ UNCHANGED jobVars
  BY <1>1, ProcessStepType, JobUnchanged DEF TypeInv
<1>2. CASE StepBegins \/ StepSkipped \/ StepEnds \/ Install \/ Launch \/ ShellEnds \/ Verdict \/ ServiceFails
  BY <1>2, JobStepType
<1>3. CASE Publish
  BY <1>3, PublishType
<1>4. CASE Upload
  BY <1>4, UploadType
<1>5. CASE UNCHANGED vars
  BY <1>5, CliUnchanged, JobUnchanged DEF TypeInv, vars
<1>6. QED
  BY <1>1, <1>2, <1>3, <1>4, <1>5 DEF Next

\* Every process of every job of every configuration keeps its types: it exits
\* with a documented code (or the one of the signal that killed it), a job never
\* works on a step it does not have, and no fault goes uncounted.
THEOREM JobTypesKept == Spec => []TypeOK
<1>1. Spec => []TypeInv
  BY TypeInit, TypeStep, PTL DEF Spec
<1>2. QED
  BY <1>1, TypesMeet, PTL

-----------------------------------------------------------------------------
(* The promises.                                                          *)

\* The two data documents are not given the same file.
Apart == args.json # args.sarif \/ args.json \notin Paths

\* Document f has reached its target, as the n-th call.
Reached(f, n) ==
  \/ args[f] = "off"
  \/ args[f] = "stdout" /\ stdout = <<f>>
  \/ f = "markdown" /\ args[f] = "summary" /\ summary # <<>> /\ Last(summary) = Doc(f, n, results)
  \/ f # "markdown" /\ args[f] \in Paths /\ files[args[f]] = Doc(f, n, results)

\* One process, from its arguments to its exit.
Parsing == pc = "parse" => left = <<>> /\ results = <<>> /\ stdout = <<>>

Running ==
  pc \in {"guards", "emit"} =>
    /\ ~BadUsage /\ ~Inform /\ GuardsOf(args.cmd) # <<>>
    /\ Len(results) + Len(left) = Len(GuardsOf(args.cmd))

Silent == pc = "guards" => stdout = <<>>

\* What is on stdout while documents are still to be written.
Voice ==
  \/ stdout = <<>>
  \/ ToStdout = {} /\ stdout = <<"text">>
  \/ \E f \in ToStdout : stdout = <<f>> /\ f \notin ToSet(pending)

Emitting ==
  pc = "emit" =>
    /\ left = <<>>
    /\ IsInjective(pending)
    /\ Voice
    /\ Apart => \A f \in Formats : f \in ToSet(pending) \/ Reached(f, ThisCall)

Recorded ==
  pc = "exited" =>
    calls # <<>> /\ Last(calls) = [args |-> args, results |-> results, left |-> left, code |-> code]

\* How a process ended that heard a guard: with code 0, or undisturbed after the
\* last one, it has delivered everything.
Ended ==
  pc = "exited" /\ results # <<>> =>
    /\ code # 2
    /\ code = 0 => left = <<>> /\ Failed(results) = {} /\ Len(results) = Len(GuardsOf(args.cmd))
    /\ left = <<>> /\ (code = 0 \/ faults = 0) /\ Apart =>
         \A f \in Formats : Reached(f, Len(calls))

\* One that heard none only ends well if it was not asked to.
Unheard ==
  pc = "exited" /\ results = <<>> /\ code = 0 => left = <<>> /\ (Inform \/ GuardsOf(args.cmd) = <<>>)

OnlyClean == \A k \in 1..Len(calls) : calls[k].code = 0 => Clean(calls[k])

ProcessInv ==
  Parsing /\ Running /\ Silent /\ Emitting /\ Recorded /\ Ended /\ Unheard /\ OnlyClean /\ OneVoice

-----------------------------------------------------------------------------
(* The job around it.                                                      *)

\* There is a process while a step runs one, and its command line is the step's.
Staffed ==
  /\ stage = "running" <=> pc # "idle"
  /\ stage = "running" => args = IF job[at].kind = "action" THEN ActionArgs(at) ELSE job[at].args
  /\ stage \in {"install", "upload", "verdict"} => job[at].kind = "action"

Alive == pc \in {"parse", "guards", "emit"}

\* Each process is of one step, and each step has at most one process.
Launches ==
  /\ Len(launched) = Len(calls) + (IF Alive THEN 1 ELSE 0)
  /\ \A k \in 1..Len(launched) :
       \/ launched[k] < at
       \/ launched[k] = at /\ k = Len(launched) /\ stage \in {"running", "upload", "verdict", "end"}
  /\ stage \in {"running", "upload", "verdict"} => launched # <<>> /\ launched[Len(launched)] = at

Sound(k) ==
  LET s == job[launched[k]]
  IN  /\ s.kind = "shell" \/ s.failOnError => calls[k].code = 0
      /\ calls[k].code # 2

\* A process that ended badly fails its step, and with it the job.
Answered ==
  /\ \A k \in 1..Len(calls) :
       \/ Sound(k) \/ jobFailed
       \/ launched[k] = at /\ (stage \in {"running", "upload", "verdict"} \/ (stage = "end" /\ stepFailed))
  /\ stage \in {"upload", "verdict"} => outputs[at].code = calls[Len(calls)].code /\ outputs[at].code # 2

\* The file a step uploads is written by its own process only.
Mine(content) ==
  \/ content.kind \in {"absent", "torn"}
  \/ content = Doc("sarif", Len(launched), results) /\ left = <<>> /\ pc \notin {"parse", "guards"}

Slots ==
  /\ \A k \in 1..Len(job) :
       job[k].kind = "action" /\ (at < k \/ (at = k /\ stage \in {"next", "install", "launch"})) =>
         files[SarifPath[k]].kind = "absent"
  /\ stage \in {"running", "upload"} /\ job[at].kind = "action" => Mine(files[SarifPath[at]])
  /\ stage = "upload" =>
       /\ calls # <<>> /\ calls[Len(calls)].results = results /\ calls[Len(calls)].left = left
       /\ outputs[at].sarifExists => files[SarifPath[at]].kind # "absent"

UploadsAreCalls == \A u \in ToSet(uploads) : u.content.call \in 1..Len(calls)

\* Without a fault, a step whose process heard all its guards has its report to
\* upload, and has uploaded it once it is past that.
Reported ==
  faults = 0 =>
    /\ \A k \in 1..Len(calls) :
         Uploads(k) /\ calls[k].left = <<>> /\ calls[k].results # <<>> =>
           Uploaded(k) \/ (launched[k] = at /\ stage \in {"running", "upload"})
    /\ stage = "upload" /\ left = <<>> /\ results # <<>> =>
         files[SarifPath[at]] = Doc("sarif", Len(calls), results) /\ outputs[at].sarifExists

JobInv == Staffed /\ Launches /\ Answered /\ Slots /\ UploadsAreCalls /\ UploadIsOwn /\ Reported

-----------------------------------------------------------------------------
(* Sequences.                                                              *)

LEMMA AppendFields ==
  ASSUME NEW S, NEW s \in Seq(S), NEW x \in S
  PROVE  LET t == Append(s, x)
         IN  /\ t \in Seq(S) /\ t # <<>> /\ Len(t) = Len(s) + 1 /\ Len(s) \in Nat
             /\ \A k \in 1..Len(s) : t[k] = s[k]
             /\ t[Len(t)] = x /\ Last(t) = x
             /\ ToSet(t) = ToSet(s) \cup {x}
<1> DEFINE t == Append(s, x)
<1>1. /\ t \in Seq(S) /\ t # <<>> /\ Len(t) = Len(s) + 1 /\ Len(s) \in Nat
      /\ \A k \in 1..Len(s) : t[k] = s[k]
      /\ t[Len(s) + 1] = x
  BY AppendProperties, LenProperties
<1> HIDE DEF t
<1>2. DOMAIN t = 1..(Len(s) + 1) /\ DOMAIN s = 1..Len(s)
  BY <1>1, LenProperties
<1>3. ToSet(t) = ToSet(s) \cup {x}
  <2>1. \A k \in DOMAIN t : t[k] = x \/ (k \in DOMAIN s /\ t[k] = s[k])
    BY <1>1, <1>2
  <2>2. \A k \in DOMAIN s : k \in DOMAIN t /\ t[k] = s[k]
    BY <1>1, <1>2
  <2>3. Len(s) + 1 \in DOMAIN t
    BY <1>1, <1>2
  <2>4. QED
    BY <1>1, <2>1, <2>2, <2>3 DEF ToSet
<1>4. QED
  BY <1>1, <1>3 DEF Last, t

LEMMA TailFields ==
  ASSUME NEW S, NEW s \in Seq(S), s # <<>>, IsInjective(s)
  PROVE  /\ Head(s) \in S /\ Tail(s) \in Seq(S) /\ IsInjective(Tail(s))
         /\ Head(s) \notin ToSet(Tail(s)) /\ ToSet(s) = {Head(s)} \cup ToSet(Tail(s))
<1> DEFINE t == Tail(s)
<1>1. /\ Head(s) \in S /\ t \in Seq(S) /\ Len(t) = Len(s) - 1 /\ Len(s) \in Nat \ {0}
      /\ \A k \in 1..Len(t) : t[k] = s[k+1]
      /\ Head(s) = s[1]
  BY HeadTailProperties, EmptySeq
<1> HIDE DEF t
<1>2. DOMAIN s = 1..Len(s) /\ DOMAIN t = 1..(Len(s) - 1)
  BY <1>1, LenProperties
<1>3. \A k \in DOMAIN t : k + 1 \in DOMAIN s /\ t[k] = s[k+1] /\ k + 1 # 1
  BY <1>1, <1>2
<1>4. IsInjective(t)
  <2> SUFFICES ASSUME NEW k \in DOMAIN t, NEW m \in DOMAIN t, t[k] = t[m] PROVE k = m
    BY DEF IsInjective
  <2>1. k + 1 = m + 1 /\ k \in Int /\ m \in Int
    BY <1>2, <1>3 DEF IsInjective
  <2>2. QED
    BY <2>1
<1>5. 1 \in DOMAIN s
  BY <1>1, <1>2
<1>6. Head(s) \notin ToSet(t)
  BY <1>1, <1>3, <1>5 DEF IsInjective, ToSet
<1>7. \A k \in DOMAIN s : k = 1 \/ (k - 1 \in DOMAIN t /\ t[k - 1] = s[k])
  <2> SUFFICES ASSUME NEW k \in DOMAIN s, k # 1 PROVE k - 1 \in DOMAIN t /\ t[k - 1] = s[k]
    OBVIOUS
  <2>1. k - 1 \in DOMAIN t /\ (k - 1) + 1 = k
    BY <1>1, <1>2
  <2>2. QED
    BY <1>3, <2>1
<1>8. ToSet(s) = {Head(s)} \cup ToSet(t)
  <2>1. ToSet(s) \subseteq {Head(s)} \cup ToSet(t)
    BY <1>1, <1>7 DEF ToSet
  <2>2. {Head(s)} \cup ToSet(t) \subseteq ToSet(s)
    BY <1>1, <1>3, <1>5 DEF ToSet
  <2>3. QED
    BY <2>1, <2>2
<1>9. QED
  BY <1>1, <1>4, <1>6, <1>8 DEF t

-----------------------------------------------------------------------------
(* The command line.                                                       *)

LEMMA SameArgs ==
  ASSUME args' = args
  PROVE  /\ BadUsage' = BadUsage /\ Inform' = Inform /\ ToStdout' = ToStdout /\ Apart' = Apart
         /\ GuardsOf(args.cmd)' = GuardsOf(args.cmd)
  BY DEF BadUsage, BlankTarget, Inform, ToStdout, Apart, GuardsOf

\* list and init are not guards.
LEMMA PlainCommand == GuardsOf("list") = <<>> /\ GuardsOf("init") = <<>>
<1>1. /\ StaticGuards \in Seq(STRING) /\ RuntimeGuards \in Seq(STRING)
      /\ Len(StaticGuards) \in Nat /\ Len(RuntimeGuards) \in Nat
      /\ AllGuards \in Seq(STRING) /\ Len(AllGuards) = Len(StaticGuards) + Len(RuntimeGuards)
      /\ \A k \in 1..Len(StaticGuards) + Len(RuntimeGuards) :
           AllGuards[k] = IF k <= Len(StaticGuards) THEN StaticGuards[k]
                                                    ELSE RuntimeGuards[k - Len(StaticGuards)]
  BY GuardAssumption, ConcatProperties, LenProperties DEF AllGuards
<1>2. ASSUME NEW k \in DOMAIN RuntimeGuards PROVE RuntimeGuards[k] \in ToSet(AllGuards)
  <2> DEFINE n == k + Len(StaticGuards)
  <2>1. k \in 1..Len(RuntimeGuards)
    BY <1>1, <1>2, LenProperties
  <2>2. n \in 1..Len(StaticGuards) + Len(RuntimeGuards) /\ ~(n <= Len(StaticGuards))
        /\ n - Len(StaticGuards) = k
    BY <1>1, <2>1
  <2>3. AllGuards[n] = RuntimeGuards[k] /\ n \in DOMAIN AllGuards
    BY <1>1, <2>2, LenProperties
  <2>4. QED
    BY <2>3 DEF ToSet
<1>3. "list" \notin ToSet(RuntimeGuards) /\ "init" \notin ToSet(RuntimeGuards)
  BY <1>2, GuardAssumption DEF ToSet
<1>4. QED
  BY <1>3 DEF GuardsOf

LEMMA OneTarget ==
  ASSUME ~BadUsage, ~Inform, NEW f \in ToStdout, NEW g \in ToStdout
  PROVE  f = g
<1> SUFFICES ASSUME f # g PROVE FALSE
  OBVIOUS
<1>1. IsFiniteSet({}) /\ Cardinality({}) = 0
  BY FS_EmptySet
<1>2. IsFiniteSet({f}) /\ Cardinality({f}) = 1
  BY FS_Singleton
<1>3. IsFiniteSet({f} \cup {g}) /\ Cardinality({f} \cup {g}) = 2
  BY <1>2, FS_AddElement
<1>4. IsFiniteSet(Formats)
  <2>1. IsFiniteSet({"json"} \cup {"sarif"})
    BY FS_Singleton, FS_AddElement
  <2>2. IsFiniteSet(({"json"} \cup {"sarif"}) \cup {"markdown"})
    BY <2>1, FS_AddElement
  <2>3. Formats = ({"json"} \cup {"sarif"}) \cup {"markdown"}
    BY DEF Formats
  <2>4. QED
    BY <2>2, <2>3
<1>5. IsFiniteSet(ToStdout) /\ Cardinality(ToStdout) \in Nat
  <2>1. ToStdout \in SUBSET Formats
    BY DEF ToStdout
  <2>2. IsFiniteSet(ToStdout)
    BY <1>4, <2>1, FS_Subset
  <2>3. QED
    BY <2>2, FS_CardinalityType
<1>6. Cardinality({f} \cup {g}) <= Cardinality(ToStdout)
  <2>1. {f} \cup {g} \in SUBSET ToStdout
    OBVIOUS
  <2>2. QED
    BY <1>5, <2>1, FS_Subset
<1>7. ~(Cardinality(ToStdout) > 1)
  BY DEF BadUsage, Inform
<1>8. QED
  BY <1>3, <1>5, <1>6, <1>7

LEMMA WantedContent ==
  ASSUME ~BadUsage
  PROVE  /\ IsInjective(Wanted)
         /\ \A f \in Formats : args[f] # "blank" /\ (args[f] = "off" \/ f \in ToSet(Wanted))
<1>1. \A f \in Formats : args[f] # "blank"
  BY DEF BadUsage, BlankTarget
<1> DEFINE j == args["json"] = "off"
           r == args["sarif"] = "off"
           m == args["markdown"] = "off"
<1>2. Wanted = (IF j THEN <<>> ELSE <<"json">>) \o (IF r THEN <<>> ELSE <<"sarif">>)
                 \o (IF m THEN <<>> ELSE <<"markdown">>)
  BY <1>1 DEF Wanted, Asked, Formats
<1>3. Wanted = IF j THEN IF r THEN IF m THEN <<>> ELSE <<"markdown">>
                                ELSE IF m THEN <<"sarif">> ELSE <<"sarif", "markdown">>
                    ELSE IF r THEN IF m THEN <<"json">> ELSE <<"json", "markdown">>
                                ELSE IF m THEN <<"json", "sarif">> ELSE <<"json", "sarif", "markdown">>
  BY <1>2
<1> HIDE DEF j, r, m
<1>4. IsInjective(Wanted)
  BY <1>3 DEF IsInjective
<1>5. /\ ~j => "json" \in ToSet(Wanted)
      /\ ~r => "sarif" \in ToSet(Wanted)
      /\ ~m => "markdown" \in ToSet(Wanted)
  BY <1>3 DEF ToSet
<1>6. QED
  BY <1>1, <1>4, <1>5 DEF Formats, j, r, m

-----------------------------------------------------------------------------
(* The steps of a process keep ProcessInv.                                 *)

LEMMA ExitFields ==
  ASSUME CliType, NEW n \in Codes, ExitWith(n)
  PROVE  /\ pc' = "exited" /\ code' = n /\ args' = args /\ left' = left /\ results' = results
         /\ calls' # <<>> /\ Len(calls') = Len(calls) + 1 /\ Len(calls) \in Nat
         /\ \A k \in 1..Len(calls) : calls'[k] = calls[k]
         /\ calls'[Len(calls')] = [args |-> args, results |-> results, left |-> left, code |-> n]
         /\ Last(calls') = calls'[Len(calls')]
<1>1. [args |-> args, results |-> results, left |-> left, code |-> n] \in Call
  BY DEF CliType, ProcessType, Call
<1>2. QED
  BY <1>1, AppendFields DEF ExitWith, CliType

\* What an exit has to establish: the rest of the invariant is about other places.
LEMMA ExitInv ==
  ASSUME CliType, ProcessInv, NEW n \in Codes, ExitWith(n), OneVoice', Ended', Unheard',
         n = 0 => left = <<>> /\ Failed(results) = {}
  PROVE  ProcessInv'
<1>1. /\ pc' = "exited" /\ code' = n /\ args' = args /\ left' = left /\ results' = results
      /\ calls' # <<>> /\ Len(calls') = Len(calls) + 1 /\ Len(calls) \in Nat
      /\ \A k \in 1..Len(calls) : calls'[k] = calls[k]
      /\ calls'[Len(calls')] = [args |-> args, results |-> results, left |-> left, code |-> n]
      /\ Last(calls') = calls'[Len(calls')]
  BY ExitFields
<1>2. Parsing' /\ Running' /\ Silent' /\ Emitting'
  BY <1>1 DEF Parsing, Running, Silent, Emitting
<1>3. Recorded'
  BY <1>1 DEF Recorded
<1>4. OnlyClean'
  <2> SUFFICES ASSUME NEW k \in 1..Len(calls'), calls'[k].code = 0 PROVE Clean(calls'[k])
    BY DEF OnlyClean, Clean, Failed
  <2>1. CASE k \in 1..Len(calls)
    BY <1>1, <2>1 DEF ProcessInv, OnlyClean
  <2>2. CASE k = Len(calls')
    BY <1>1, <2>2 DEF Clean
  <2>3. QED
    BY <1>1, <2>1, <2>2
<1>5. QED
  BY <1>2, <1>3, <1>4 DEF ProcessInv

LEMMA NothingFailed == Failed(<<>>) = {}
  BY DEF Failed, ToSet

\* A process that heard no guard and was not asked to, or ends badly.
LEMMA QuietExit ==
  ASSUME CliType, ProcessInv, NEW n \in Codes, ExitWith(n), OneVoice', results = <<>>, left = <<>>,
         n = 0 => Inform \/ GuardsOf(args.cmd) = <<>>
  PROVE  ProcessInv'
<1>1. pc' = "exited" /\ code' = n /\ args' = args /\ left' = left /\ results' = results
  BY ExitFields
<1>2. Ended' /\ Unheard'
  BY <1>1, SameArgs DEF Ended, Unheard
<1>3. QED
  BY <1>2, ExitInv, NothingFailed

\* One that dies: code 1 or 137, by a fault or before all its guards answered.
LEMMA BadExit ==
  ASSUME CliType, ProcessInv, NEW n \in Codes, n \notin {0, 2}, ExitWith(n), OneVoice',
         left # <<>> \/ faults' # 0
  PROVE  ProcessInv'
<1>1. pc' = "exited" /\ code' = n /\ args' = args /\ left' = left /\ results' = results
  BY ExitFields
<1>2. Ended' /\ Unheard'
  BY <1>1 DEF Ended, Unheard
<1>3. QED
  BY <1>2, ExitInv

LEMMA FaultCounts ==
  ASSUME CliType, faults' = faults + 1
  PROVE  faults' # 0
  BY FaultAssumption DEF CliType

LEMMA ReportInv ==
  ASSUME CliType, ProcessInv, Report
  PROVE  ProcessInv'
<1>1. /\ pc = "guards" /\ left = <<>> /\ pc' = "emit" /\ pending' = Wanted
      /\ UNCHANGED <<args, left, results, calls>>
      /\ stdout' = (IF Quiet THEN <<>> ELSE <<"text">>)
  BY DEF Report
<1>2. ~BadUsage /\ ~Inform /\ GuardsOf(args.cmd) # <<>>
      /\ Len(results) + Len(left) = Len(GuardsOf(args.cmd))
  BY <1>1 DEF ProcessInv, Running
<1>3. /\ BadUsage' = BadUsage /\ Inform' = Inform /\ ToStdout' = ToStdout
      /\ GuardsOf(args.cmd)' = GuardsOf(args.cmd)
  BY <1>1, SameArgs
<1>4. Running'
  BY <1>1, <1>2, <1>3 DEF Running
<1>5. Voice' /\ OneVoice'
  <2>1. CASE Quiet
    BY <1>1, <2>1 DEF Voice, OneVoice
  <2>2. CASE ~Quiet
    <3>1. ToStdout = {} /\ stdout' = <<"text">>
      BY <1>1, <2>2 DEF Quiet
    <3>2. QED
      BY <1>3, <3>1 DEF Voice, OneVoice
  <2>3. QED
    BY <2>1, <2>2
<1>6. Emitting'
  <2>1. IsInjective(pending')
    BY <1>1, <1>2, WantedContent
  <2>2. \A f \in Formats : f \in ToSet(pending') \/ Reached(f, ThisCall)'
    BY <1>1, <1>2, WantedContent DEF Reached
  <2>3. QED
    BY <1>1, <1>5, <2>1, <2>2 DEF Emitting
<1>7. Parsing' /\ Silent' /\ Recorded' /\ Ended' /\ Unheard'
  BY <1>1 DEF Parsing, Silent, Recorded, Ended, Unheard
<1>8. OnlyClean'
  BY <1>1 DEF ProcessInv, OnlyClean, Clean, Failed
<1>9. QED
  BY <1>4, <1>5, <1>6, <1>7, <1>8 DEF ProcessInv

\* A document is written; the others that are out stay where they are.
LEMMA WriteInv ==
  ASSUME CliType, ProcessInv, WriteDocument
  PROVE  ProcessInv'
<1> DEFINE f == Head(pending)
<1>1. /\ pc = "emit" /\ pending # <<>> /\ pending' = Tail(pending) /\ pc' = "emit"
      /\ UNCHANGED <<args, left, results, calls>>
  BY DEF WriteDocument
<1>2. /\ ~BadUsage /\ ~Inform /\ GuardsOf(args.cmd) # <<>> /\ left = <<>>
      /\ Len(results) + Len(left) = Len(GuardsOf(args.cmd))
      /\ IsInjective(pending) /\ Voice
      /\ Apart => \A g \in Formats : g \in ToSet(pending) \/ Reached(g, ThisCall)
  BY <1>1 DEF ProcessInv, Running, Emitting
<1>3. /\ BadUsage' = BadUsage /\ Inform' = Inform /\ ToStdout' = ToStdout /\ Apart' = Apart
      /\ GuardsOf(args.cmd)' = GuardsOf(args.cmd)
  BY <1>1, SameArgs
<1>4. Running'
  BY <1>1, <1>2, <1>3 DEF Running
<1>5. /\ f \in Formats /\ pending' \in Seq(Formats) /\ IsInjective(pending')
      /\ f \notin ToSet(pending') /\ ToSet(pending) = {f} \cup ToSet(pending')
  BY <1>1, <1>2, TailFields DEF CliType, ProcessType
<1>6. Voice' /\ OneVoice' /\ (args[f] = "stdout" => stdout' = <<f>>)
  <2>1. CASE args[f] = "stdout"
    <3>1. f \in ToStdout
      BY <1>5, <2>1 DEF ToStdout
    <3>2. stdout = <<>>
      <4>1. ~(\E g \in ToStdout : stdout = <<g>> /\ g \notin ToSet(pending))
        <5> SUFFICES ASSUME NEW g \in ToStdout, g \notin ToSet(pending) PROVE FALSE
          OBVIOUS
        <5>1. g = f
          BY <1>2, <3>1, OneTarget
        <5>2. QED
          BY <1>5, <5>1
      <4>2. QED
        BY <1>2, <3>1, <4>1 DEF Voice
    <3>3. stdout' = Append(stdout, f)
      BY <2>1 DEF WriteDocument
    <3>4. stdout' = <<f>>
      BY <3>2, <3>3
    <3>5. QED
      BY <1>3, <1>5, <3>1, <3>4 DEF Voice, OneVoice
  <2>2. CASE args[f] # "stdout"
    <3>1. stdout' = stdout
      BY <2>2 DEF WriteDocument
    <3>2. QED
      BY <1>2, <1>3, <1>5, <2>2, <3>1 DEF Voice, OneVoice, ProcessInv
  <2>3. QED
    BY <2>1, <2>2
<1>7. ThisCall' = ThisCall
  BY <1>1 DEF ThisCall
<1>8. ASSUME Apart, NEW g \in Formats
      PROVE  g \in ToSet(pending') \/ Reached(g, ThisCall)'
  <2>1. CASE g \in ToSet(pending')
    BY <2>1
  <2>2. CASE g \notin ToSet(pending') /\ g # f
    <3>1. Reached(g, ThisCall)
      BY <1>2, <1>5, <1>8, <2>2
    <3>2. CASE args[g] = "off"
      BY <1>1, <3>2 DEF Reached
    <3>3. CASE args[g] = "stdout" /\ stdout = <<g>>
      <4>1. g \in ToStdout
        BY <3>3 DEF ToStdout
      <4>2. args[f] # "stdout"
        <5>1. f \notin ToStdout
          BY <1>2, <2>2, <4>1, OneTarget
        <5>2. QED
          BY <1>5, <5>1 DEF ToStdout
      <4>3. stdout' = stdout
        BY <4>2 DEF WriteDocument
      <4>4. QED
        BY <1>1, <3>3, <4>3 DEF Reached
    <3>4. CASE g = "markdown" /\ args[g] = "summary" /\ summary # <<>>
               /\ Last(summary) = Doc(g, ThisCall, results)
      <4>1. summary' = summary
        BY <2>2, <3>4 DEF WriteDocument, Written
      <4>2. QED
        BY <1>1, <1>7, <3>4, <4>1 DEF Reached, Doc
    <3>5. CASE g # "markdown" /\ args[g] \in Paths /\ files[args[g]] = Doc(g, ThisCall, results)
      <4>1. files'[args[g]] = files[args[g]]
        <5>1. CASE args[f] = "stdout" \/ f = "markdown"
          BY <5>1 DEF WriteDocument, Written
        <5>2. CASE args[f] # "stdout" /\ f # "markdown"
          <6>1. {f, g} = {"json", "sarif"}
            BY <1>5, <2>2, <3>5, <5>2 DEF Formats
          <6>2. args[g] # args[f]
            BY <1>8, <3>5, <6>1 DEF Apart
          <6>3. files' = [files EXCEPT ![args[f]] = Doc(f, ThisCall, results)]
            BY <5>2 DEF WriteDocument, Written
          <6>4. QED
            BY <3>5, <6>2, <6>3 DEF CliType, DiskType
        <5>3. QED
          BY <5>1, <5>2
      <4>2. QED
        BY <1>1, <1>7, <3>5, <4>1 DEF Reached, Doc
    <3>6. QED
      BY <3>1, <3>2, <3>3, <3>4, <3>5 DEF Reached
  <2>3. CASE g = f
    <3>1. CASE args[f] = "stdout"
      <4>1. stdout' = <<g>> /\ args'[g] = "stdout"
        BY <1>1, <1>6, <2>3, <3>1
      <4>2. QED
        BY <4>1 DEF Reached
    <3>2. CASE args[f] = "off"
      BY <1>1, <2>3, <3>2 DEF Reached
    <3>3. args[f] # "blank"
      BY <1>2, <1>5 DEF BadUsage, BlankTarget
    <3>4. CASE args[f] # "stdout" /\ args[f] # "off" /\ f = "markdown"
      <4>1. summary' = Append(summary, Doc(f, ThisCall, results))
        BY <3>4 DEF WriteDocument, Written
      <4>2. summary' # <<>> /\ Last(summary') = Doc(f, ThisCall, results)
        BY <1>5, <4>1, DocType, AppendFields DEF CliType, DiskType
      <4>3. args[f] = "summary"
        BY <3>3, <3>4 DEF CliType, ProcessType, Args, Targets
      <4>4. QED
        BY <1>1, <1>7, <2>3, <3>4, <4>2, <4>3 DEF Reached, Doc
    <3>5. CASE args[f] # "stdout" /\ args[f] # "off" /\ f # "markdown"
      <4>1. files' = [files EXCEPT ![args[f]] = Doc(f, ThisCall, results)]
        BY <3>5 DEF WriteDocument, Written
      <4>2. args[f] \in Paths
        BY <1>5, <3>3, <3>5 DEF CliType, ProcessType, Args, Targets, Formats
      <4>3. files'[args[f]] = Doc(f, ThisCall, results)
        BY <4>1, <4>2 DEF CliType, DiskType
      <4>4. QED
        BY <1>1, <1>7, <2>3, <3>5, <4>2, <4>3 DEF Reached, Doc
    <3>6. QED
      BY <3>1, <3>2, <3>4, <3>5
  <2>4. QED
    BY <2>1, <2>2, <2>3
<1>9. Emitting'
  BY <1>1, <1>2, <1>3, <1>5, <1>6, <1>8 DEF Emitting
<1>10. Parsing' /\ Silent' /\ Recorded' /\ Ended' /\ Unheard'
  BY <1>1 DEF Parsing, Silent, Recorded, Ended, Unheard
<1>11. OnlyClean'
  BY <1>1 DEF ProcessInv, OnlyClean, Clean, Failed
<1>12. QED
  BY <1>4, <1>6, <1>9, <1>10, <1>11 DEF ProcessInv

\* The last document is out: everything asked for has reached its target.
LEMMA FinishInv ==
  ASSUME CliType, ProcessInv, Finish
  PROVE  ProcessInv'
<1> DEFINE n == SummaryCode(results)
<1>1. n \in {0, 1} /\ (n = 0 => Failed(results) = {}) /\ n \in Codes
  BY DEF SummaryCode, Codes
<1>2. /\ pc = "emit" /\ pending = <<>> /\ ExitWith(n) /\ UNCHANGED <<stdout, files, summary, faults>>
  BY DEF Finish, disk
<1> HIDE DEF n
<1>3. /\ pc' = "exited" /\ code' = n /\ args' = args /\ left' = left /\ results' = results
      /\ Len(calls') = Len(calls) + 1
  BY <1>1, <1>2, ExitFields
<1>4. /\ ~BadUsage /\ ~Inform /\ GuardsOf(args.cmd) # <<>> /\ left = <<>>
      /\ Len(results) + Len(left) = Len(GuardsOf(args.cmd))
      /\ Apart => \A f \in Formats : f \in ToSet(pending) \/ Reached(f, ThisCall)
      /\ OneVoice
  BY <1>2 DEF ProcessInv, Running, Emitting
<1>5. Len(results) = Len(GuardsOf(args.cmd)) /\ results # <<>>
  <2>1. GuardsOf(args.cmd) \in Seq(Guards) /\ results \in Seq(GuardResult) /\ Len(left) = 0
    BY <1>4, GuardsOfType DEF CliType, ProcessType
  <2>2. Len(results) \in Nat /\ Len(GuardsOf(args.cmd)) \in Nat \ {0}
    BY <1>4, <2>1, EmptySeq, LenProperties
  <2>3. QED
    BY <1>4, <2>1, <2>2
<1>6. Apart => \A f \in Formats : Reached(f, Len(calls))'
  <2>1. ToSet(pending) = {}
    BY <1>2 DEF ToSet
  <2>2. Apart => \A f \in Formats : Reached(f, ThisCall)
    BY <1>4, <2>1
  <2>3. ThisCall = Len(calls')
    BY <1>3 DEF ThisCall
  <2>4. QED
    BY <1>2, <1>3, <2>2, <2>3 DEF Reached, Doc
<1>7. Ended'
  <2>1. GuardsOf(args.cmd)' = GuardsOf(args.cmd) /\ Apart' = Apart /\ Failed(results)' = Failed(results)
    BY <1>3, SameArgs DEF Failed
  <2>2. Apart' => \A f \in Formats : Reached(f, Len(calls))'
    BY <1>3, <1>6, <2>1 DEF Reached, Doc
  <2>3. QED
    BY <1>1, <1>3, <1>4, <1>5, <2>1, <2>2 DEF Ended
<1>8. Unheard' /\ OneVoice'
  BY <1>2, <1>3, <1>4, <1>5 DEF Unheard, OneVoice
<1>9. QED
  BY <1>1, <1>2, <1>4, <1>7, <1>8, ExitInv

LEMMA ProcessStep ==
  ASSUME CliType, ProcessInv, Process
  PROVE  ProcessInv'
<1>0. 0 \in Codes /\ 1 \in Codes /\ 2 \in Codes /\ 137 \in Codes
  BY DEF Codes
<1>1. pc = "parse" => results = <<>> /\ left = <<>> /\ stdout = <<>>
  BY DEF ProcessInv, Parsing
<1>2. CASE RejectUsage
  <2>1. OneVoice'
    BY <1>2 DEF RejectUsage, ProcessInv, OneVoice
  <2>2. QED
    BY <1>0, <1>1, <1>2, <2>1, QuietExit DEF RejectUsage
<1>3. CASE PrintHelp
  <2>1. OneVoice'
    BY <1>3 DEF PrintHelp, OneVoice
  <2>2. QED
    BY <1>0, <1>1, <1>3, <2>1, QuietExit DEF PrintHelp
<1>4. CASE Dispatch
  <2>1. /\ pc' = "guards" /\ left' = GuardsOf(args.cmd) /\ UNCHANGED <<args, results, stdout, calls>>
        /\ pc = "parse" /\ ~BadUsage /\ ~Inform /\ GuardsOf(args.cmd) # <<>>
    BY <1>4 DEF Dispatch
  <2>2. /\ BadUsage' = BadUsage /\ Inform' = Inform /\ GuardsOf(args.cmd)' = GuardsOf(args.cmd)
    BY <2>1, SameArgs
  <2>3. Len(results') = 0 /\ Len(GuardsOf(args.cmd)) \in Nat
    BY <1>1, <2>1, GuardsOfType, LenProperties
  <2>4. Running'
    BY <2>1, <2>2, <2>3 DEF Running
  <2>5. Parsing' /\ Silent' /\ Emitting' /\ Recorded' /\ Ended' /\ Unheard' /\ OneVoice'
    BY <1>1, <2>1 DEF Parsing, Silent, Emitting, Recorded, Ended, Unheard, ProcessInv, OneVoice
  <2>6. OnlyClean'
    BY <2>1 DEF ProcessInv, OnlyClean, Clean, Failed
  <2>7. QED
    BY <2>4, <2>5, <2>6 DEF ProcessInv
<1>5. CASE RunGuard
  <2>1. /\ pc = "guards" /\ pc' = "guards" /\ left # <<>> /\ left' = Tail(left)
        /\ UNCHANGED <<args, stdout, calls>>
    BY <1>5 DEF RunGuard
  <2>2. /\ BadUsage' = BadUsage /\ Inform' = Inform /\ GuardsOf(args.cmd)' = GuardsOf(args.cmd)
    BY <2>1, SameArgs
  <2>3. Len(left') = Len(left) - 1 /\ Len(left) \in Nat /\ Head(left) \in Guards
    BY <2>1, HeadTailProperties, LenProperties DEF CliType, ProcessType
  <2>4. Len(results') = Len(results) + 1 /\ Len(results) \in Nat
    <3>1. PICK outcome \in {"pass", "fail", "skip"} : results' = Append(results, Result(Head(left), outcome))
      BY <1>5 DEF RunGuard
    <3>2. Result(Head(left), outcome) \in GuardResult
      BY <2>3, ResultType
    <3>3. QED
      BY <3>1, <3>2, AppendProperties, LenProperties DEF CliType, ProcessType
  <2>5. Running'
    BY <2>1, <2>2, <2>3, <2>4 DEF Running, ProcessInv
  <2>6. Parsing' /\ Silent' /\ Emitting' /\ Recorded' /\ Ended' /\ Unheard' /\ OneVoice'
    BY <2>1 DEF Parsing, Silent, Emitting, Recorded, Ended, Unheard, ProcessInv, OneVoice
  <2>7. OnlyClean'
    BY <2>1 DEF ProcessInv, OnlyClean, Clean, Failed
  <2>8. QED
    BY <2>5, <2>6, <2>7 DEF ProcessInv
<1>6. CASE GuardThrows
  <2>1. OneVoice'
    BY <1>6 DEF GuardThrows, ProcessInv, OneVoice
  <2>2. QED
    BY <1>0, <1>6, <2>1, BadExit DEF GuardThrows
<1>7. CASE WriteFails
  <2>1. OneVoice'
    BY <1>7 DEF WriteFails, ProcessInv, OneVoice
  <2>2. QED
    BY <1>0, <1>7, <2>1, BadExit, FaultCounts DEF WriteFails
<1>8. CASE List
  <2>1. OneVoice'
    <3>1. stdout' = <<>> \/ stdout' = <<"text">> \/ stdout' = <<"json">>
      BY <1>1, <1>8 DEF List
    <3>2. Len(<<>>) = 0 /\ Len(<<"text">>) = 1 /\ Len(<<"json">>) = 1
      OBVIOUS
    <3>3. Len(stdout') <= 1
      <4>1. CASE stdout' = <<>>
        BY <3>2, <4>1
      <4>2. CASE stdout' = <<"text">> \/ stdout' = <<"json">>
        BY <3>2, <4>2
      <4>3. QED
        BY <3>1, <4>1, <4>2
    <3>4. QED
      BY <3>3 DEF OneVoice
  <2>2. QED
    BY <1>0, <1>1, <1>8, <2>1, QuietExit, PlainCommand DEF List
<1>9. CASE InitConfig
  <2>1. OneVoice'
    BY <1>9 DEF InitConfig, OneVoice
  <2>2. QED
    BY <1>0, <1>1, <1>9, <2>1, QuietExit, PlainCommand DEF InitConfig
<1>10. CASE PlainWriteFails
  <2>1. OneVoice'
    BY <1>10 DEF PlainWriteFails, ProcessInv, OneVoice
  <2>2. QED
    BY <1>0, <1>10, <2>1, BadExit, FaultCounts DEF PlainWriteFails
<1>11. CASE Killed
  <2>1. OneVoice'
    BY <1>11 DEF Killed, ProcessInv, OneVoice
  <2>2. QED
    BY <1>0, <1>11, <2>1, BadExit, FaultCounts DEF Killed
<1>12. QED
  BY <1>2, <1>3, <1>4, <1>5, <1>6, <1>7, <1>8, <1>9, <1>10, <1>11, ReportInv, WriteInv, FinishInv DEF Process

\* The job's own steps start and reap processes, and leave them alone otherwise.
LEMMA AroundProcess ==
  ASSUME CliType, ProcessInv, (\E c \in Args : Start(c)) \/ Reap \/ UNCHANGED cliVars
  PROVE  ProcessInv'
<1>1. CASE \E c \in Args : Start(c)
  <2>1. pc' = "parse" /\ left' = <<>> /\ results' = <<>> /\ stdout' = <<>> /\ calls' = calls
    BY <1>1 DEF Start
  <2>2. Parsing' /\ Running' /\ Silent' /\ Emitting' /\ Recorded' /\ Ended' /\ Unheard' /\ OneVoice'
    BY <2>1 DEF Parsing, Running, Silent, Emitting, Recorded, Ended, Unheard, OneVoice
  <2>3. OnlyClean'
    BY <2>1 DEF ProcessInv, OnlyClean, Clean, Failed
  <2>4. QED
    BY <2>2, <2>3 DEF ProcessInv
<1>2. CASE Reap
  <2>1. pc' = "idle" /\ UNCHANGED <<stdout, calls>>
    BY <1>2 DEF Reap
  <2>2. Parsing' /\ Running' /\ Silent' /\ Emitting' /\ Recorded' /\ Ended' /\ Unheard' /\ OneVoice'
    BY <2>1 DEF Parsing, Running, Silent, Emitting, Recorded, Ended, Unheard, ProcessInv, OneVoice
  <2>3. OnlyClean'
    BY <2>1 DEF ProcessInv, OnlyClean, Clean, Failed
  <2>4. QED
    BY <2>2, <2>3 DEF ProcessInv
<1>3. CASE UNCHANGED cliVars
  <2>1. /\ UNCHANGED <<args, pc, left, results, pending, stdout, code, files, summary, calls, faults>>
        /\ BadUsage' = BadUsage /\ Inform' = Inform /\ ToStdout' = ToStdout /\ Apart' = Apart
        /\ GuardsOf(args.cmd)' = GuardsOf(args.cmd) /\ ThisCall' = ThisCall
    BY <1>3, SameArgs DEF cliVars, process, disk, ThisCall
  <2>2. Parsing' /\ Running' /\ Silent' /\ Recorded' /\ Unheard' /\ OneVoice'
    BY <2>1 DEF Parsing, Running, Silent, Recorded, Unheard, ProcessInv, OneVoice
  <2>3. OnlyClean'
    BY <2>1 DEF ProcessInv, OnlyClean, Clean, Failed
  <2>4. Emitting'
    BY <2>1 DEF ProcessInv, Emitting, Voice, Reached, Doc
  <2>5. Ended'
    BY <2>1 DEF ProcessInv, Ended, Reached, Doc, Failed
  <2>6. QED
    BY <2>2, <2>3, <2>4, <2>5 DEF ProcessInv
<1>4. QED
  BY <1>1, <1>2, <1>3

-----------------------------------------------------------------------------
(* What the process lets its job rely on: it keeps its command line, and   *)
(* touches no file but those its command line names.                       *)

\* A step of a process that has a step of the job.
LEMMA ProcessFrame ==
  ASSUME CliType, ProcessInv, Process
  PROVE  /\ Alive /\ args' = args /\ pc' \in {"guards", "emit", "exited"}
         /\ pc' # "exited" => calls' = calls
         /\ pc' = "exited" => /\ Len(calls') = Len(calls) + 1 /\ \A k \in 1..Len(calls) : calls'[k] = calls[k]
                             /\ calls'[Len(calls')] = [args |-> args, results |-> results, left |-> left, code |-> code']
                             /\ results' = results /\ left' = left /\ calls' # <<>>
         /\ Len(calls) \in Nat
<1>0. 0 \in Codes /\ 1 \in Codes /\ 2 \in Codes /\ 137 \in Codes /\ SummaryCode(results) \in Codes
  BY DEF Codes, SummaryCode
<1>1. CASE Dispatch \/ RunGuard \/ Report \/ WriteDocument
  BY <1>1, LenProperties DEF Dispatch, RunGuard, Report, WriteDocument, Alive, CliType
<1>2. ASSUME NEW n \in Codes, ExitWith(n), Alive
      PROVE  /\ args' = args /\ pc' = "exited" /\ code' = n
             /\ Len(calls') = Len(calls) + 1 /\ \A k \in 1..Len(calls) : calls'[k] = calls[k]
             /\ calls'[Len(calls')] = [args |-> args, results |-> results, left |-> left, code |-> code']
             /\ results' = results /\ left' = left /\ calls' # <<>> /\ Len(calls) \in Nat
  BY <1>2, ExitFields
<1>3. CASE RejectUsage \/ PrintHelp \/ GuardThrows \/ WriteFails \/ Finish \/ List \/ InitConfig
             \/ PlainWriteFails \/ Killed
  <2>1. Alive /\ \E n \in Codes : ExitWith(n)
    BY <1>0, <1>3 DEF RejectUsage, PrintHelp, GuardThrows, WriteFails, Finish, List, InitConfig,
                      PlainWriteFails, Killed, Alive
  <2>2. QED
    BY <1>2, <2>1
<1>4. QED
  BY <1>1, <1>3 DEF Process

TornNow(p) == files'[p].kind = "torn" /\ faults' # 0

WrittenNow(p) ==
  /\ files'[p] = Doc("sarif", ThisCall, results)
  /\ left' = <<>> /\ results' = results /\ pc' = "emit"

\* A file that the command line does not name is not touched; one that it names for
\* SARIF only is left alone, torn, or given this call's own complete report.
LEMMA ProcessFiles ==
  ASSUME CliType, ProcessInv, Process, NEW p \in Paths
  PROVE  /\ p \notin {args.json, args.sarif} => files'[p] = files[p]
         /\ p # args.json => files'[p] = files[p] \/ TornNow(p) \/ WrittenNow(p)
<1>1. CASE RejectUsage \/ PrintHelp \/ Dispatch \/ RunGuard \/ GuardThrows \/ Report \/ Finish
             \/ InitConfig \/ PlainWriteFails \/ Killed
  BY <1>1 DEF RejectUsage, PrintHelp, Dispatch, RunGuard, GuardThrows, Report, Finish, InitConfig,
              PlainWriteFails, Killed, disk
<1>2. CASE List
  <2>1. files' = files \/ files' = [files EXCEPT ![args.json] = Catalogue(ThisCall)]
    BY <1>2 DEF List
  <2>2. p # args.json => files'[p] = files[p]
    BY <2>1 DEF CliType, DiskType
  <2>3. QED
    BY <2>2
<1>3. ASSUME NEW f \in Formats, NEW content, files' = files \/ Written(f, content)
      PROVE  /\ files'[p] = files[p] \/ (f \in {"json", "sarif"} /\ p = args[f] /\ files'[p] = content)
  BY <1>3 DEF Written, CliType, DiskType, Formats
<1>4. CASE WriteDocument
  <2> DEFINE f == Head(pending)
  <2>1. f \in Formats /\ UNCHANGED <<left, results, pc>> /\ left = <<>> /\ pc = "emit"
    BY <1>4, HeadTailProperties DEF WriteDocument, CliType, ProcessType, ProcessInv, Emitting
  <2>2. files' = files \/ Written(f, Doc(f, ThisCall, results))
    BY <1>4 DEF WriteDocument
  <2>3. files'[p] = files[p] \/ (f \in {"json", "sarif"} /\ p = args[f] /\ files'[p] = Doc(f, ThisCall, results))
    BY <1>3, <2>1, <2>2
  <2>4. QED
    BY <2>1, <2>3 DEF WrittenNow
<1>5. CASE WriteFails
  <2> DEFINE f == Head(pending)
  <2>1. f \in Formats /\ faults' # 0
    BY <1>5, HeadTailProperties, FaultCounts DEF WriteFails, CliType, ProcessType
  <2>2. files' = files \/ Written(f, Torn(ThisCall))
    BY <1>5 DEF WriteFails
  <2>3. files'[p] = files[p] \/ (f \in {"json", "sarif"} /\ p = args[f] /\ files'[p] = Torn(ThisCall))
    BY <1>3, <2>1, <2>2
  <2>4. QED
    BY <2>1, <2>3 DEF Torn, TornNow
<1>6. QED
  BY <1>1, <1>2, <1>4, <1>5 DEF Process

-----------------------------------------------------------------------------
(* A step of the process keeps JobInv.                                     *)

\* The action's files are its own: two slots never meet.
LEMMA SlotsApart ==
  ASSUME NEW j \in Jobs, NEW k \in 1..Len(j), NEW m \in 1..Len(j)
  PROVE  /\ SarifPath[k] # JsonPath[m] /\ (k # m => SarifPath[k] # SarifPath[m])
         /\ SarifPath[k] \in Paths /\ JsonPath[k] \in Paths
<1> DEFINE s == JsonPath \o SarifPath
           n == Len(JsonPath)
<1>1. /\ JsonPath \in Seq(Paths) /\ SarifPath \in Seq(Paths) /\ n \in Nat /\ Len(SarifPath) \in Nat
      /\ Len(j) <= n /\ Len(j) <= Len(SarifPath) /\ Len(j) \in Nat
  BY JobAssumption, LenProperties
<1>2. /\ s \in Seq(Paths) /\ Len(s) = n + Len(SarifPath)
      /\ \A i \in 1..n + Len(SarifPath) : s[i] = IF i <= n THEN JsonPath[i] ELSE SarifPath[i - n]
  BY <1>1, ConcatProperties
<1>3. DOMAIN s = 1..(n + Len(SarifPath)) /\ IsInjective(s)
  BY <1>1, <1>2, LenProperties, JobAssumption
<1> HIDE DEF s, n
<1>4. /\ k + n \in DOMAIN s /\ m + n \in DOMAIN s /\ m \in DOMAIN s
      /\ ~(k + n <= n) /\ ~(m + n <= n) /\ (k + n) - n = k /\ (m + n) - n = m /\ m <= n
      /\ k + n # m /\ (k # m => k + n # m + n)
  BY <1>1, <1>3
<1>5. s[k + n] = SarifPath[k] /\ s[m + n] = SarifPath[m] /\ s[m] = JsonPath[m]
  BY <1>2, <1>3, <1>4
<1>6. SarifPath[k] # JsonPath[m] /\ (k # m => SarifPath[k] # SarifPath[m])
  BY <1>3, <1>4, <1>5 DEF IsInjective
<1>7. k \in 1..Len(SarifPath) /\ k \in 1..Len(JsonPath)
  BY <1>1 DEF n
<1>8. QED
  BY <1>1, <1>6, <1>7, ElementOfSeq

LEMMA FaultsStay ==
  ASSUME CliType, Process
  PROVE  faults' = 0 => faults = 0
<1>1. faults' = faults \/ faults' = faults + 1
  BY DEF Process, RejectUsage, PrintHelp, Dispatch, RunGuard, GuardThrows, Report, WriteDocument, WriteFails,
         Finish, List, InitConfig, PlainWriteFails, Killed
<1>2. QED
  BY <1>1, FaultCounts

LEMMA ProcessKeepsJob ==
  ASSUME TypeInv, ProcessInv, JobInv, Process, UNCHANGED jobVars
  PROVE  JobInv'
<1>1. /\ Alive /\ args' = args /\ pc' \in {"guards", "emit", "exited"}
      /\ pc' # "exited" => calls' = calls
      /\ pc' = "exited" => /\ Len(calls') = Len(calls) + 1 /\ \A k \in 1..Len(calls) : calls'[k] = calls[k]
                          /\ calls'[Len(calls')] = [args |-> args, results |-> results, left |-> left, code |-> code']
                          /\ results' = results /\ left' = left /\ calls' # <<>>
      /\ Len(calls) \in Nat
  BY ProcessFrame DEF TypeInv
<1>2. UNCHANGED <<job, at, stage, outputs, uploads, launched, stepFailed, jobFailed>>
  BY DEF jobVars
<1>3. stage = "running" /\ Staffed /\ at \in 1..Len(job) /\ job \in Jobs
  BY <1>1 DEF JobInv, Staffed, Alive, TypeInv, AtStep
<1>4. Staffed'
  BY <1>1, <1>2, <1>3 DEF Staffed, ActionArgs
<1>5. /\ Len(launched) = Len(calls) + 1 /\ launched[Len(launched)] = at /\ launched # <<>>
      /\ \A k \in 1..Len(launched) : launched[k] < at \/ (launched[k] = at /\ k = Len(launched))
  BY <1>1, <1>3 DEF JobInv, Launches
<1>6. Launches'
  <2>1. Len(launched') = Len(calls') + (IF Alive' THEN 1 ELSE 0)
    BY <1>1, <1>2, <1>5 DEF Alive
  <2>2. QED
    BY <1>2, <1>3, <1>5, <2>1 DEF Launches, Alive
<1>7. \A k \in 1..Len(calls') : (k \in 1..Len(calls) /\ calls'[k] = calls[k]) \/ (k = Len(launched) /\ launched[k] = at)
  <2>1. CASE pc' = "exited"
    BY <1>1, <1>5, <2>1
  <2>2. CASE pc' # "exited"
    BY <1>1, <2>2
  <2>3. QED
    BY <2>1, <2>2
<1>8. Answered'
  <2>1. ASSUME NEW k \in 1..Len(calls'), k \in 1..Len(calls), calls'[k] = calls[k], launched[k] # at
        PROVE  Sound(k)' \/ jobFailed'
    BY <1>2, <1>3, <2>1 DEF JobInv, Answered, Sound
  <2>2. QED
    BY <1>2, <1>3, <1>7, <2>1 DEF Answered
<1>9. Slots'
  <2>1. ASSUME NEW k \in 1..Len(job), job[k].kind = "action", at < k
        PROVE  files'[SarifPath[k]].kind = "absent"
    <3>1. SarifPath[k] \notin {args.json, args.sarif}
      <4>1. CASE job[at].kind = "action"
        <5>1. args.json = JsonPath[at] /\ args.sarif = SarifPath[at]
          BY <1>3, <4>1 DEF Staffed, ActionArgs, Slot
        <5>2. QED
          BY <1>3, <2>1, <5>1, SlotsApart
      <4>2. CASE job[at].kind # "action"
        <5>1. args = job[at].args /\ job[at].kind = "shell"
          <6>1. job[at] \in Steps
            BY <1>3, ElementOfSeq DEF TypeInv, JobType
          <6>2. QED
            BY <1>3, <4>2, <6>1 DEF Staffed, Steps
        <5>2. QED
          BY <1>3, <2>1, <5>1, SlotAssumption
      <4>3. QED
        BY <4>1, <4>2
    <3>2. SarifPath[k] \in Paths
      BY <1>3, <2>1, SlotsApart
    <3>3. files'[SarifPath[k]] = files[SarifPath[k]]
      BY <3>1, <3>2, ProcessFiles DEF TypeInv
    <3>4. QED
      BY <2>1, <3>3 DEF JobInv, Slots
  <2>2. ASSUME job[at].kind = "action" PROVE Mine(files[SarifPath[at]])'
    <3> DEFINE p == SarifPath[at]
    <3>1. p \in Paths /\ p # args.json
      BY <1>3, <2>2, SlotsApart DEF Staffed, ActionArgs, Slot
    <3>2. files'[p] = files[p] \/ TornNow(p) \/ WrittenNow(p)
      BY <3>1, ProcessFiles DEF TypeInv
    <3>3. CASE TornNow(p)
      BY <1>2, <3>3 DEF Mine, TornNow
    <3>4. CASE WrittenNow(p)
      <4>1. ThisCall = Len(launched') /\ pc' \notin {"parse", "guards"}
        BY <1>1, <1>2, <1>5, <3>4 DEF ThisCall, WrittenNow
      <4>2. QED
        BY <1>2, <3>4, <4>1 DEF Mine, WrittenNow, Doc
    <3>5. CASE files'[p] = files[p]
      <4>1. Mine(files[p])
        BY <1>3, <2>2 DEF JobInv, Slots
      <4>2. CASE files[p].kind \in {"absent", "torn"}
        BY <1>2, <3>5, <4>2 DEF Mine
      <4>3. CASE pc \notin {"parse", "guards"} /\ left = <<>> /\ files[p] = Doc("sarif", Len(launched), results)
        <5>1. UNCHANGED <<left, results>> /\ pc' \notin {"parse", "guards"}
          BY <4>3 DEF Process, RejectUsage, PrintHelp, Dispatch, RunGuard, GuardThrows, Report, WriteDocument,
                      WriteFails, Finish, List, InitConfig, PlainWriteFails, Killed, ExitWith
        <5>2. QED
          BY <1>2, <3>5, <4>3, <5>1 DEF Mine, Doc
      <4>4. QED
        BY <4>1, <4>2, <4>3 DEF Mine
    <3>6. QED
      BY <1>2, <3>2, <3>3, <3>4, <3>5
  <2>3. QED
    BY <1>2, <1>3, <2>1, <2>2 DEF Slots
<1>10. UploadsAreCalls' /\ UploadIsOwn'
  <2>1. ASSUME NEW k \in 1..Len(calls) PROVE k \in 1..Len(calls') /\ calls'[k] = calls[k]
    BY <1>1, <2>1
  <2>2. QED
    BY <1>2, <2>1 DEF JobInv, UploadsAreCalls, UploadIsOwn
<1>11. Reported'
  <2>1. ASSUME faults' = 0, NEW k \in 1..Len(calls'), Uploads(k)', calls'[k].left = <<>>, calls'[k].results # <<>>
        PROVE  Uploaded(k)' \/ (launched'[k] = at' /\ stage' \in {"running", "upload"})
    <3>1. faults = 0
      BY <2>1, FaultsStay DEF TypeInv
    <3>2. CASE k \in 1..Len(calls) /\ calls'[k] = calls[k]
      BY <1>2, <2>1, <3>1, <3>2 DEF JobInv, Reported, Uploads, Uploaded
    <3>3. CASE k = Len(launched) /\ launched[k] = at
      BY <1>2, <1>3, <3>3
    <3>4. QED
      BY <1>7, <3>2, <3>3
  <2>2. QED
    BY <1>2, <1>3, <2>1 DEF Reported
<1>12. QED
  BY <1>4, <1>6, <1>8, <1>9, <1>10, <1>11 DEF JobInv

-----------------------------------------------------------------------------
(* The job's own steps keep JobInv.                                        *)

\* Where no process is running, every launch has its call, and only the last one
\* may be of the current step.
LEMMA Idle ==
  ASSUME TypeInv, JobInv, stage # "running"
  PROVE  /\ pc = "idle" /\ Len(launched) = Len(calls) /\ Len(calls) \in Nat
         /\ \A k \in 1..Len(calls) : launched[k] < at \/ (launched[k] = at /\ k = Len(calls))
         /\ stage \in {"next", "install", "launch"} => \A k \in 1..Len(calls) : launched[k] < at
         /\ stage \in {"upload", "verdict"} =>
              Len(calls) \in 1..Len(calls) /\ launched[Len(calls)] = at /\ launched # <<>>
         /\ at \in Nat /\ Len(job) \in Nat /\ \A k \in 1..Len(calls) : launched[k] \in 1..Len(job)
<1>1. pc = "idle" /\ ~Alive
  BY DEF JobInv, Staffed, Alive, TypeInv, CliType, ProcessType
<1>2. Len(launched) = Len(calls) /\ Len(calls) \in Nat /\ at \in Nat /\ Len(job) \in Nat
  BY <1>1, LenProperties DEF JobInv, Launches, TypeInv, CliType, JobType
<1>3. \A k \in 1..Len(calls) : launched[k] \in 1..Len(job)
  BY <1>2, ElementOfSeq DEF TypeInv, JobType
<1>4. stage \in {"upload", "verdict"} => Len(launched) # 0
  BY EmptySeq DEF JobInv, Launches, TypeInv, JobType
<1>5. \A k \in 1..Len(calls) : launched[k] < at \/ (launched[k] = at /\ k = Len(calls))
  BY <1>2 DEF JobInv, Launches
<1>6. stage \in {"next", "install", "launch"} => \A k \in 1..Len(calls) : launched[k] < at
  BY <1>2 DEF JobInv, Launches
<1>7. stage \in {"upload", "verdict"} => Len(calls) \in 1..Len(calls) /\ launched[Len(calls)] = at /\ launched # <<>>
  BY <1>2, <1>4 DEF JobInv, Launches
<1>8. QED
  BY <1>1, <1>2, <1>3, <1>5, <1>6, <1>7

\* Before a process is launched: nothing of the current step has been recorded.
LEMMA BeforeLaunch ==
  ASSUME TypeInv, ProcessInv, JobInv, stage \in {"next", "install"},
         StepBegins \/ StepSkipped \/ Install
  PROVE  JobInv'
<1>1. /\ pc = "idle" /\ Len(launched) = Len(calls) /\ Len(calls) \in Nat /\ at \in Nat
      /\ \A k \in 1..Len(calls) : launched[k] < at /\ launched[k] \in 1..Len(job)
      /\ Len(job) \in Nat
  BY Idle
<1>2. /\ UNCHANGED <<pc, args, results, left, calls, files, faults, job, outputs, uploads, launched, jobFailed>>
      /\ at' \in {at, at + 1} /\ stage' \in {"next", "install", "launch"}
      /\ stage' = "install" => job[at'].kind = "action"
  <2>1. CASE StepBegins
    <3>1. stage' \in {"install", "launch"} /\ (stage' = "install" => job[at].kind = "action")
      BY <2>1 DEF StepBegins
    <3>2. QED
      BY <2>1, <3>1 DEF StepBegins, cliVars, process, disk
  <2>2. CASE StepSkipped
    BY <2>2 DEF StepSkipped, cliVars, process, disk
  <2>3. CASE Install
    BY <2>3 DEF Install, cliVars, process, disk
  <2>4. QED
    BY <2>1, <2>2, <2>3
<1>3. Staffed'
  BY <1>1, <1>2 DEF Staffed
<1>4. Launches'
  <2>1. \A k \in 1..Len(launched') : launched'[k] < at'
    BY <1>1, <1>2
  <2>2. Len(launched') = Len(calls') + (IF Alive' THEN 1 ELSE 0)
    BY <1>1, <1>2 DEF Alive
  <2>3. QED
    BY <1>2, <2>1, <2>2 DEF Launches
<1>5. Answered'
  BY <1>1, <1>2 DEF JobInv, Answered, Sound
<1>6. Slots'
  <2>1. \A k \in 1..Len(job) : at' < k \/ at' = k => at < k \/ at = k
    BY <1>1, <1>2
  <2>2. QED
    BY <1>2, <2>1 DEF JobInv, Slots
<1>7. UploadsAreCalls' /\ UploadIsOwn'
  BY <1>2 DEF JobInv, UploadsAreCalls, UploadIsOwn
<1>8. Reported'
  BY <1>1, <1>2 DEF JobInv, Reported, Uploads, Uploaded
<1>9. QED
  BY <1>3, <1>4, <1>5, <1>6, <1>7, <1>8 DEF JobInv

LEMMA LaunchInv ==
  ASSUME TypeInv, ProcessInv, JobInv, Launch
  PROVE  JobInv'
<1>1. /\ pc = "idle" /\ Len(launched) = Len(calls) /\ Len(calls) \in Nat /\ at \in 1..Len(job)
      /\ \A k \in 1..Len(calls) : launched[k] < at
  BY Idle DEF Launch, TypeInv, AtStep
<1>2. /\ pc' = "parse" /\ left' = <<>> /\ results' = <<>> /\ stage = "launch" /\ stage' = "running"
      /\ args' = (IF job[at].kind = "action" THEN ActionArgs(at) ELSE job[at].args)
      /\ UNCHANGED <<calls, files, faults, job, at, outputs, uploads, jobFailed>>
      /\ launched' = Append(launched, at)
  BY DEF Launch, Start, disk
<1>3. /\ launched' # <<>> /\ Len(launched') = Len(launched) + 1 /\ launched'[Len(launched')] = at
      /\ \A k \in 1..Len(launched) : launched'[k] = launched[k]
  <2>1. launched \in Seq(1..Len(job))
    BY DEF TypeInv, JobType
  <2>2. QED
    BY <1>1, <1>2, <2>1, AppendFields
<1>4. Staffed'
  BY <1>2 DEF Staffed, ActionArgs
<1>5. Launches'
  BY <1>1, <1>2, <1>3 DEF Launches, Alive
<1>6. \A k \in 1..Len(calls) : launched'[k] = launched[k] /\ launched[k] # at
  BY <1>1, <1>3
<1>7. Answered'
  BY <1>2, <1>6 DEF JobInv, Answered, Sound
<1>8. Slots'
  <2>1. job[at].kind = "action" => files[SarifPath[at]].kind = "absent"
    BY <1>1, <1>2 DEF JobInv, Slots
  <2>2. QED
    BY <1>2, <2>1 DEF JobInv, Slots, Mine
<1>9. UploadsAreCalls' /\ UploadIsOwn'
  BY <1>2, <1>6 DEF JobInv, UploadsAreCalls, UploadIsOwn
<1>10. Reported'
  BY <1>2, <1>6 DEF JobInv, Reported, Uploads, Uploaded
<1>11. QED
  BY <1>4, <1>5, <1>7, <1>8, <1>9, <1>10 DEF JobInv

\* The process is over: its call is the last one, as it was recorded.
LEMMA Reaped ==
  ASSUME TypeInv, ProcessInv, JobInv, Reap
  PROVE  /\ Len(launched) = Len(calls) /\ Len(calls) \in 1..Len(calls) /\ Len(calls) \in Nat
         /\ launched # <<>> /\ launched[Len(calls)] = at /\ at \in 1..Len(job) /\ calls # <<>>
         /\ \A k \in 1..Len(calls) : launched[k] < at \/ (launched[k] = at /\ k = Len(calls))
         /\ calls[Len(calls)] = [args |-> args, results |-> results, left |-> left, code |-> code]
         /\ pc' = "idle" /\ UNCHANGED <<args, left, results, code, files, calls, faults>>
<1>1. pc = "exited" /\ stage = "running" /\ ~Alive
  BY DEF Reap, Alive
<1>2. Len(launched) = Len(calls) /\ Len(calls) \in Nat /\ Len(launched) # 0
  BY <1>1, LenProperties, EmptySeq DEF JobInv, Launches, TypeInv, CliType, JobType
<1>3. Last(calls) = [args |-> args, results |-> results, left |-> left, code |-> code] /\ calls # <<>>
  BY <1>1 DEF ProcessInv, Recorded
<1>4. /\ launched # <<>> /\ launched[Len(launched)] = at
      /\ \A k \in 1..Len(launched) : launched[k] < at \/ (launched[k] = at /\ k = Len(launched))
  BY <1>1 DEF JobInv, Launches
<1>5. pc' = "idle" /\ UNCHANGED <<args, left, results, code, files, calls, faults>> /\ at \in 1..Len(job)
  BY <1>1 DEF Reap, disk, TypeInv, AtStep
<1>6. Len(calls) \in 1..Len(calls)
  BY <1>2
<1>7. QED
  BY <1>2, <1>3, <1>4, <1>5, <1>6 DEF Last

LEMMA ShellEndsInv ==
  ASSUME TypeInv, ProcessInv, JobInv, ShellEnds
  PROVE  JobInv'
<1>1. /\ Len(launched) = Len(calls) /\ Len(calls) \in 1..Len(calls) /\ Len(calls) \in Nat
      /\ launched # <<>> /\ launched[Len(calls)] = at /\ at \in 1..Len(job) /\ calls # <<>>
      /\ \A k \in 1..Len(calls) : launched[k] < at \/ (launched[k] = at /\ k = Len(calls))
      /\ calls[Len(calls)] = [args |-> args, results |-> results, left |-> left, code |-> code]
      /\ pc' = "idle" /\ UNCHANGED <<args, left, results, code, files, calls, faults>>
  BY Reaped DEF ShellEnds
<1>2. /\ job[at].kind = "shell" /\ stepFailed' = (code # 0) /\ stage = "running" /\ stage' = "end"
      /\ UNCHANGED <<job, at, outputs, uploads, jobFailed, launched>>
  BY DEF ShellEnds, Reap
<1>3. Staffed' /\ Launches'
  BY <1>1, <1>2 DEF Staffed, Launches, Alive
<1>4. Answered'
  <2>1. ASSUME NEW k \in 1..Len(calls) PROVE Sound(k)' \/ jobFailed' \/ (launched[k] = at /\ stepFailed')
    <3>1. CASE launched[k] # at
      BY <1>2, <1>1, <3>1 DEF JobInv, Answered, Sound
    <3>2. CASE launched[k] = at /\ code = 0
      <4>1. calls[k].code = 0
        BY <1>1, <3>2
      <4>2. QED
        BY <1>1, <1>2, <4>1 DEF Sound
    <3>3. CASE launched[k] = at /\ code # 0
      BY <1>2, <3>3
    <3>4. QED
      BY <3>1, <3>2, <3>3
  <2>2. QED
    BY <1>1, <1>2, <2>1 DEF Answered
<1>5. Slots' /\ UploadsAreCalls' /\ UploadIsOwn'
  BY <1>1, <1>2 DEF JobInv, Slots, UploadsAreCalls, UploadIsOwn
<1>6. Reported'
  <2>1. ASSUME NEW k \in 1..Len(calls), launched[k] = at PROVE ~Uploads(k)'
    BY <1>2, <2>1 DEF Uploads
  <2>2. QED
    BY <1>1, <1>2, <2>1 DEF JobInv, Reported, Uploads, Uploaded
<1>7. QED
  BY <1>3, <1>4, <1>5, <1>6 DEF JobInv

\* A process of an action step that heard all its guards, and no fault: its report
\* is in the step's own file.
LEMMA ReportThere ==
  ASSUME TypeInv, ProcessInv, JobInv, Reap, job[at].kind = "action", faults = 0, left = <<>>, results # <<>>
  PROVE  files[SarifPath[at]] = Doc("sarif", Len(calls), results) /\ code # 2
<1>1. pc = "exited" /\ stage = "running" /\ at \in 1..Len(job) /\ job \in Jobs
  BY DEF Reap, TypeInv, AtStep
<1>2. args.json = JsonPath[at] /\ args.sarif = SarifPath[at]
  BY <1>1 DEF JobInv, Staffed, ActionArgs, Slot
<1>3. SarifPath[at] # JsonPath[at] /\ SarifPath[at] \in Paths
  BY <1>1, SlotsApart
<1>4. Apart
  BY <1>2, <1>3 DEF Apart
<1>5. Reached("sarif", Len(calls)) /\ code # 2
  BY <1>1, <1>4 DEF ProcessInv, Ended, Formats
<1>6. args["sarif"] \notin {"off", "stdout", "blank"}
  BY <1>2, <1>3, PathAssumption
<1>7. QED
  BY <1>2, <1>5, <1>6 DEF Reached

LEMMA PublishInv ==
  ASSUME TypeInv, ProcessInv, JobInv, Publish
  PROVE  JobInv'
<1>1. /\ Len(launched) = Len(calls) /\ Len(calls) \in 1..Len(calls) /\ Len(calls) \in Nat
      /\ launched # <<>> /\ launched[Len(calls)] = at /\ at \in 1..Len(job) /\ calls # <<>>
      /\ \A k \in 1..Len(calls) : launched[k] < at \/ (launched[k] = at /\ k = Len(calls))
      /\ calls[Len(calls)] = [args |-> args, results |-> results, left |-> left, code |-> code]
      /\ pc' = "idle" /\ UNCHANGED <<args, left, results, code, files, calls, faults>>
  BY Reaped DEF Publish
<1>2. /\ job[at].kind = "action" /\ stage = "running"
      /\ UNCHANGED <<job, at, uploads, jobFailed, launched>>
      /\ (code = 2 /\ stepFailed' = TRUE /\ stage' = "end") \/ (code # 2 /\ stage' = "upload")
  BY DEF Publish, Reap
<1>3. PICK exists \in NonEmpty(files[SarifPath[at]]) : outputs' = [outputs EXCEPT ![at] = Outputs(exists)]
  BY DEF Publish, Slot
<1>4. outputs'[at].code = code /\ outputs'[at].sarifExists = exists
  BY <1>1, <1>3 DEF Outputs, TypeInv, JobType
<1>5. /\ exists => files[SarifPath[at]].kind # "absent"
      /\ files[SarifPath[at]].kind = "sarif" => exists
  BY <1>3 DEF NonEmpty
<1>6. Staffed' /\ Launches'
  BY <1>1, <1>2 DEF Staffed, Launches, Alive
<1>7. Answered'
  <2>1. ASSUME NEW k \in 1..Len(calls), launched[k] # at PROVE Sound(k)' \/ jobFailed'
    BY <1>1, <1>2, <2>1 DEF JobInv, Answered, Sound
  <2>2. QED
    BY <1>1, <1>2, <1>4, <2>1 DEF Answered
<1>8. Slots'
  <2>1. Mine(files[SarifPath[at]])
    BY <1>2 DEF JobInv, Slots
  <2>2. Mine(files[SarifPath[at]])'
    BY <1>1, <1>2, <2>1 DEF Mine, Doc
  <2>3. QED
    BY <1>1, <1>2, <1>4, <1>5, <2>2 DEF JobInv, Slots
<1>9. UploadsAreCalls' /\ UploadIsOwn'
  BY <1>1, <1>2 DEF JobInv, UploadsAreCalls, UploadIsOwn
<1>10. Reported'
  <2>1. ASSUME faults = 0, left = <<>>, results # <<>>
        PROVE  files[SarifPath[at]] = Doc("sarif", Len(calls), results) /\ code # 2 /\ exists
    <3>1. files[SarifPath[at]] = Doc("sarif", Len(calls), results) /\ code # 2
      BY <1>2, <2>1, ReportThere DEF Publish
    <3>2. QED
      BY <1>5, <3>1 DEF Doc
  <2>2. ASSUME faults = 0, NEW k \in 1..Len(calls), Uploads(k), calls[k].left = <<>>, calls[k].results # <<>>
        PROVE  Uploaded(k) \/ (launched[k] = at /\ stage' = "upload")
    <3>1. CASE launched[k] # at
      BY <2>2, <3>1 DEF JobInv, Reported
    <3>2. CASE launched[k] = at
      <4>1. left = <<>> /\ results # <<>>
        BY <1>1, <2>2, <3>2
      <4>2. QED
        BY <1>2, <2>1, <2>2, <3>2, <4>1
    <3>3. QED
      BY <3>1, <3>2
  <2>3. ASSUME NEW k \in 1..Len(calls) PROVE Uploads(k)' = Uploads(k) /\ Uploaded(k)' = Uploaded(k)
    BY <1>2 DEF Uploads, Uploaded
  <2>4. QED
    BY <1>1, <1>2, <1>4, <2>1, <2>2, <2>3 DEF Reported, Doc
<1>11. QED
  BY <1>6, <1>7, <1>8, <1>9, <1>10 DEF JobInv

LEMMA UploadInv ==
  ASSUME TypeInv, ProcessInv, JobInv, Upload
  PROVE  JobInv'
<1> DEFINE content == files[SarifPath[at]]
           n == Len(calls)
<1>1. /\ pc = "idle" /\ Len(launched) = n /\ n \in Nat
      /\ \A k \in 1..n : launched[k] < at \/ (launched[k] = at /\ k = n)
      /\ n \in 1..n /\ launched[n] = at /\ launched # <<>>
      /\ at \in 1..Len(job) /\ job \in Jobs /\ job[at].kind = "action"
  BY Idle DEF Upload, TypeInv, AtStep, JobInv, Staffed
<1>2. /\ stage = "upload" /\ stage' \in {"verdict", "end"}
      /\ UNCHANGED <<pc, args, results, left, calls, files, faults, job, at, outputs, launched, jobFailed>>
  BY DEF Upload, cliVars, process, disk
<1>3. \/ /\ ~(job[at].upload /\ outputs[at].sarifExists) /\ stage' = "verdict" /\ UNCHANGED uploads
      \/ /\ content.kind = "torn" /\ stepFailed' = TRUE /\ stage' = "end" /\ UNCHANGED uploads
      \/ /\ outputs[at].sarifExists /\ content.kind # "torn" /\ stage' = "verdict"
         /\ uploads' = Append(uploads, [step |-> at, content |-> content])
  BY DEF Upload, Slot
<1>4. /\ Mine(content) /\ calls[n].results = results /\ calls[n].left = left
      /\ outputs[at].sarifExists => content.kind # "absent"
  BY <1>1, <1>2 DEF JobInv, Slots
<1>5. content \in Content
  <2>1. SarifPath[at] \in Paths
    BY <1>1, SlotsApart
  <2>2. QED
    BY <2>1 DEF TypeInv, CliType, DiskType
<1> HIDE DEF content, n
<1>6. ToSet(uploads) \subseteq ToSet(uploads')
      /\ \A u \in ToSet(uploads') : u \in ToSet(uploads)
           \/ (u = [step |-> at, content |-> content] /\ content = Doc("sarif", n, results) /\ left = <<>>)
  <2> DEFINE S == [step : 1..Len(job), content : Content]
             u == [step |-> at, content |-> content]
  <2>1. uploads \in Seq(S) /\ u \in S
    BY <1>1, <1>5 DEF TypeInv, JobType
  <2> HIDE DEF S, u
  <2>2. CASE UNCHANGED uploads
    BY <2>2
  <2>3. CASE outputs[at].sarifExists /\ content.kind # "torn" /\ uploads' = Append(uploads, u)
    <3>1. ToSet(uploads') = ToSet(uploads) \cup {u}
      BY <2>1, <2>3, AppendFields
    <3>2. content = Doc("sarif", n, results) /\ left = <<>>
      BY <1>1, <1>4, <2>3 DEF Mine
    <3>3. QED
      BY <3>1, <3>2 DEF u
  <2>4. QED
    BY <1>3, <2>2, <2>3 DEF u
<1>7. Staffed' /\ Launches'
  BY <1>1, <1>2 DEF Staffed, Launches, Alive, n
<1>8. /\ outputs[at].code = calls[n].code /\ outputs[at].code # 2
  BY <1>2 DEF JobInv, Answered, n
<1>9. Answered'
  <2>1. ASSUME NEW k \in 1..Len(calls), launched[k] # at PROVE Sound(k)' \/ jobFailed'
    BY <1>2, <2>1 DEF JobInv, Answered, Sound
  <2>2. stage' = "end" => stepFailed'
    BY <1>3
  <2>3. QED
    BY <1>2, <1>8, <2>1, <2>2 DEF Answered, n
<1>10. Slots'
  BY <1>1, <1>2 DEF JobInv, Slots
<1>11. UploadsAreCalls'
  BY <1>1, <1>2, <1>6 DEF JobInv, UploadsAreCalls, Doc, n
<1>12. UploadIsOwn'
  <2>1. ASSUME NEW u \in ToSet(uploads')
        PROVE  /\ u.content.kind = "sarif"
               /\ launched'[u.content.call] = u.step
               /\ u.content.results = calls'[u.content.call].results
               /\ calls'[u.content.call].left = <<>>
    <3>1. CASE u \in ToSet(uploads)
      BY <1>2, <3>1 DEF JobInv, UploadIsOwn
    <3>2. CASE u = [step |-> at, content |-> content] /\ content = Doc("sarif", n, results) /\ left = <<>>
      <4>1. /\ u.step = at /\ u.content.kind = "sarif" /\ u.content.call = n /\ u.content.results = results
        BY <3>2 DEF Doc
      <4>2. QED
        BY <1>1, <1>2, <1>4, <3>2, <4>1
    <3>3. QED
      BY <1>6, <2>1, <3>1, <3>2
  <2>2. QED
    BY <2>1 DEF UploadIsOwn
<1>13. Reported'
  <2>1. ASSUME faults = 0, NEW k \in 1..n, Uploads(k), calls[k].left = <<>>, calls[k].results # <<>>
        PROVE  Uploaded(k)'
    <3>1. CASE Uploaded(k)
      BY <1>6, <3>1 DEF Uploaded
    <3>2. CASE ~Uploaded(k)
      <4>1. launched[k] = at /\ k = n /\ left = <<>> /\ results # <<>>
        BY <1>1, <1>4, <2>1, <3>2 DEF JobInv, Reported, n
      <4>2. content = Doc("sarif", n, results) /\ outputs[at].sarifExists
        BY <1>2, <2>1, <4>1 DEF JobInv, Reported, content, n
      <4>3. job[at].upload /\ content.kind # "torn" /\ content.call = k
        BY <2>1, <4>1, <4>2 DEF Uploads, Doc
      <4>4. uploads' = Append(uploads, [step |-> at, content |-> content])
        BY <1>3, <4>2, <4>3
      <4>5. [step |-> at, content |-> content] \in ToSet(uploads')
        <5> DEFINE S == [step : 1..Len(job), content : Content]
                   u == [step |-> at, content |-> content]
        <5>1. uploads \in Seq(S) /\ u \in S
          BY <1>1, <1>5 DEF TypeInv, JobType
        <5> HIDE DEF S
        <5>2. ToSet(uploads') = ToSet(uploads) \cup {u}
          BY <4>4, <5>1, AppendFields
        <5>3. QED
          BY <5>2
      <4>6. QED
        BY <4>3, <4>5 DEF Uploaded
    <3>3. QED
      BY <3>1, <3>2
  <2>2. ASSUME NEW k \in 1..n PROVE Uploads(k)' = Uploads(k)
    BY <1>2 DEF Uploads
  <2>3. QED
    BY <1>2, <2>1, <2>2 DEF Reported, n
<1>14. QED
  BY <1>7, <1>9, <1>10, <1>11, <1>12, <1>13 DEF JobInv

LEMMA StepEndsInv ==
  ASSUME TypeInv, ProcessInv, JobInv, StepEnds
  PROVE  JobInv'
<1>1. /\ pc = "idle" /\ Len(launched) = Len(calls) /\ Len(calls) \in Nat /\ at \in Nat
      /\ \A k \in 1..Len(calls) : launched[k] < at \/ (launched[k] = at /\ k = Len(calls))
      /\ Len(job) \in Nat /\ \A k \in 1..Len(calls) : launched[k] \in 1..Len(job)
  BY Idle DEF StepEnds
<1>2. /\ stage = "end" /\ stage' = "next" /\ at' = at + 1 /\ jobFailed' = (jobFailed \/ stepFailed)
      /\ UNCHANGED <<pc, args, results, left, calls, files, faults, job, outputs, uploads, launched>>
  BY DEF StepEnds, cliVars, process, disk
<1>3. \A k \in 1..Len(calls) : launched[k] < at'
  BY <1>1, <1>2
<1>4. Staffed'
  BY <1>1, <1>2 DEF Staffed
<1>5. Launches'
  BY <1>1, <1>2, <1>3 DEF Launches, Alive
<1>6. Answered'
  <2>1. \A k \in 1..Len(calls) : Sound(k) \/ jobFailed \/ stepFailed
    BY <1>2 DEF JobInv, Answered
  <2>2. \A k \in 1..Len(calls) : Sound(k)' = Sound(k)
    BY <1>2 DEF Sound
  <2>3. QED
    BY <1>2, <2>1, <2>2 DEF Answered
<1>7. Slots'
  <2>1. \A k \in 1..Len(job) : at' < k \/ at' = k => at < k
    BY <1>1, <1>2
  <2>2. QED
    BY <1>2, <2>1 DEF JobInv, Slots
<1>8. UploadsAreCalls' /\ UploadIsOwn'
  BY <1>2 DEF JobInv, UploadsAreCalls, UploadIsOwn
<1>9. Reported'
  BY <1>2 DEF JobInv, Reported, Uploads, Uploaded
<1>10. QED
  BY <1>4, <1>5, <1>6, <1>7, <1>8, <1>9 DEF JobInv

\* The verdict fails the step of a process that exited with another code than 0.
LEMMA VerdictInv ==
  ASSUME TypeInv, ProcessInv, JobInv, Verdict
  PROVE  JobInv'
<1>1. /\ pc = "idle" /\ Len(launched) = Len(calls) /\ Len(calls) \in 1..Len(calls) /\ at \in Nat
      /\ \A k \in 1..Len(calls) : launched[k] < at \/ (launched[k] = at /\ k = Len(calls))
  BY Idle DEF Verdict
<1>2. /\ stage = "verdict" /\ stage' = "end" /\ stepFailed' = (job[at].failOnError /\ outputs[at].code # 0)
      /\ UNCHANGED <<pc, args, results, left, calls, files, faults, job, at, outputs, uploads, launched, jobFailed>>
  BY DEF Verdict, cliVars, process, disk
<1>3. job[at].kind = "action" /\ outputs[at].code = calls[Len(calls)].code /\ outputs[at].code # 2
  BY <1>2 DEF JobInv, Staffed, Answered
<1>4. Staffed'
  BY <1>1, <1>2 DEF Staffed
<1>5. Launches'
  BY <1>1, <1>2 DEF JobInv, Launches, Alive
<1>6. Answered'
  <2>1. ASSUME NEW k \in 1..Len(calls), launched[k] # at PROVE Sound(k)' \/ jobFailed'
    BY <1>2, <2>1 DEF JobInv, Answered, Sound
  <2>2. ASSUME NEW k \in 1..Len(calls), launched[k] = at PROVE Sound(k)' \/ stepFailed'
    <3>1. calls[k].code = outputs[at].code
      BY <1>1, <1>3, <2>2
    <3>2. QED
      BY <1>2, <1>3, <2>2, <3>1 DEF Sound
  <2>3. QED
    BY <1>2, <2>1, <2>2 DEF Answered
<1>7. Slots' /\ UploadsAreCalls' /\ UploadIsOwn' /\ Reported'
  BY <1>2 DEF JobInv, Slots, UploadsAreCalls, UploadIsOwn, Reported, Uploads, Uploaded
<1>8. QED
  BY <1>4, <1>5, <1>6, <1>7 DEF JobInv

LEMMA ServiceFailsInv ==
  ASSUME TypeInv, ProcessInv, JobInv, ServiceFails
  PROVE  JobInv'
<1>1. /\ pc = "idle" /\ Len(launched) = Len(calls)
      /\ \A k \in 1..Len(calls) : launched[k] < at \/ (launched[k] = at /\ k = Len(calls))
  BY Idle DEF ServiceFails
<1>2. /\ stage \in {"install", "upload"} /\ stage' = "end" /\ stepFailed' = TRUE /\ faults' # 0
      /\ UNCHANGED <<pc, args, results, left, calls, files, job, at, outputs, uploads, launched, jobFailed>>
  BY FaultCounts DEF ServiceFails, process, disk, TypeInv
<1>3. Staffed' /\ Launches'
  BY <1>1, <1>2 DEF Staffed, Launches, Alive
<1>4. Answered'
  BY <1>2 DEF JobInv, Answered, Sound
<1>5. Slots' /\ UploadsAreCalls' /\ UploadIsOwn' /\ Reported'
  BY <1>2 DEF JobInv, Slots, UploadsAreCalls, UploadIsOwn, Reported
<1>6. QED
  BY <1>3, <1>4, <1>5 DEF JobInv

-----------------------------------------------------------------------------
(* Together.                                                               *)

SafetyInv == TypeInv /\ ProcessInv /\ JobInv

LEMMA SafetyInit == CiInit => SafetyInv
<1> SUFFICES ASSUME CiInit PROVE SafetyInv
  OBVIOUS
<1>1. TypeInv
  BY TypeInit
<1>2. /\ pc = "idle" /\ stdout = <<>> /\ calls = <<>> /\ launched = <<>> /\ uploads = <<>> /\ stage = "next"
      /\ at = 1 /\ files = [p \in Paths |-> Absent] /\ job \in Jobs
      /\ Len(calls) = 0 /\ Len(launched) = 0 /\ ToSet(uploads) = {}
  BY DEF CiInit, CliInit, ToSet
<1>3. ProcessInv
  BY <1>2 DEF ProcessInv, Parsing, Running, Silent, Emitting, Recorded, Ended, Unheard, OnlyClean, OneVoice
<1>4. Staffed /\ Launches /\ Answered /\ UploadsAreCalls /\ UploadIsOwn /\ Reported
  BY <1>2 DEF Staffed, Launches, Alive, Answered, UploadsAreCalls, UploadIsOwn, Reported
<1>5. Slots
  <2>1. \A k \in 1..Len(job) : files[SarifPath[k]].kind = "absent"
    BY <1>2, SlotsApart DEF Absent
  <2>2. QED
    BY <1>2, <2>1 DEF Slots
<1>6. QED
  BY <1>1, <1>3, <1>4, <1>5 DEF SafetyInv, JobInv

LEMMA Stutter ==
  ASSUME SafetyInv, UNCHANGED vars
  PROVE  SafetyInv'
<1>1. UNCHANGED <<args, pc, left, results, calls, files, faults>>
      /\ UNCHANGED <<job, at, stage, outputs, uploads, launched, stepFailed, jobFailed>>
  BY DEF vars, cliVars, process, disk, jobVars
<1>2. TypeInv'
  BY TypeStep DEF SafetyInv
<1>3. ProcessInv'
  BY AroundProcess DEF vars, SafetyInv, TypeInv
<1>4. Staffed' /\ Launches' /\ Answered' /\ UploadsAreCalls' /\ UploadIsOwn' /\ Reported'
  BY <1>1 DEF SafetyInv, JobInv, Staffed, ActionArgs, Launches, Alive, Answered, Sound, UploadsAreCalls, UploadIsOwn,
              Reported, Uploads, Uploaded, Doc
<1>5. Slots'
  BY <1>1 DEF SafetyInv, JobInv, Slots, Mine, Doc
<1>6. QED
  BY <1>2, <1>3, <1>4, <1>5 DEF SafetyInv, JobInv

LEMMA SafetyStep == SafetyInv /\ [Next]_vars => SafetyInv'
<1> SUFFICES ASSUME SafetyInv, [Next]_vars PROVE SafetyInv'
  OBVIOUS
<1>1. TypeInv /\ ProcessInv /\ JobInv /\ CliType /\ TypeInv'
  BY TypeStep DEF SafetyInv, TypeInv
<1>2. CASE Process /\ UNCHANGED jobVars
  BY <1>1, <1>2, ProcessStep, ProcessKeepsJob DEF SafetyInv
<1>3. CASE StepBegins \/ StepSkipped \/ Install
  <2>1. stage \in {"next", "install"} /\ UNCHANGED cliVars
    BY <1>3 DEF StepBegins, StepSkipped, Install
  <2>2. QED
    BY <1>1, <1>3, <2>1, AroundProcess, BeforeLaunch DEF SafetyInv
<1>4. CASE Launch
  <2>1. \E c \in Args : Start(c)
    <3>1. at \in 1..Len(job) /\ job \in Jobs
      BY <1>1, <1>4 DEF Launch, TypeInv, AtStep
    <3>2. ActionArgs(at) \in Args /\ job[at].args \in Args
      BY <3>1, ActionArgsType
    <3>3. CASE job[at].kind = "action"
      BY <1>4, <3>2, <3>3 DEF Launch
    <3>4. CASE job[at].kind # "action"
      BY <1>4, <3>2, <3>4 DEF Launch
    <3>5. QED
      BY <3>3, <3>4
  <2>2. QED
    BY <1>1, <1>4, <2>1, AroundProcess, LaunchInv DEF SafetyInv
<1>5. CASE ShellEnds
  BY <1>1, <1>5, AroundProcess, ShellEndsInv DEF SafetyInv, ShellEnds
<1>6. CASE Publish
  BY <1>1, <1>6, AroundProcess, PublishInv DEF SafetyInv, Publish
<1>7. CASE Upload
  BY <1>1, <1>7, AroundProcess, UploadInv DEF SafetyInv, Upload
<1>8. CASE StepEnds
  BY <1>1, <1>8, AroundProcess, StepEndsInv DEF SafetyInv, StepEnds
<1>9. CASE Verdict
  BY <1>1, <1>9, AroundProcess, VerdictInv DEF SafetyInv, Verdict
<1>10. CASE ServiceFails
  <2>1. pc = "idle" /\ UNCHANGED <<args, pc, left, results, pending, stdout, code, calls>>
    BY <1>1, <1>10, Idle DEF ServiceFails, process
  <2>2. ProcessInv'
    <3>1. Parsing' /\ Running' /\ Silent' /\ Emitting' /\ Recorded' /\ Ended' /\ Unheard'
      BY <2>1 DEF Parsing, Running, Silent, Emitting, Recorded, Ended, Unheard
    <3>2. OnlyClean' /\ OneVoice'
      BY <1>1, <2>1 DEF ProcessInv, OnlyClean, OneVoice, Clean, Failed
    <3>3. QED
      BY <3>1, <3>2 DEF ProcessInv
  <2>3. QED
    BY <1>1, <1>10, <2>2, ServiceFailsInv DEF SafetyInv
<1>11. CASE UNCHANGED vars
  BY <1>11, Stutter
<1>12. QED
  BY <1>2, <1>3, <1>4, <1>5, <1>6, <1>7, <1>8, <1>9, <1>10, <1>11 DEF Next

LEMMA SafetyAlways == Spec => []SafetyInv
  BY SafetyInit, SafetyStep, PTL DEF Spec

\* One process, one thing on its stdout, for every command line: what a script
\* reads from it as data never starts with a banner or holds a second document.
THEOREM OneVoiceOnly == Spec => []OneVoice
<1>1. SafetyInv => OneVoice
  BY DEF SafetyInv, ProcessInv
<1>2. QED
  BY <1>1, SafetyAlways, PTL

\* Exit code 0 of a guard command means that every guard of the command answered,
\* none failed, and every document asked for is where it was asked for, for every
\* command line and whatever failed.
THEOREM GreenCallsDeliver == Spec => []GreenCallDelivers
<1>1. SafetyInv => GreenCallDelivers
  <2> SUFFICES ASSUME SafetyInv, pc = "exited", code = 0, ~Inform, GuardsOf(args.cmd) # <<>>
               PROVE  /\ results # <<>> /\ Clean(Last(calls))
                      /\ Len(results) = Len(GuardsOf(args.cmd))
                      /\ Apart => \A f \in Formats : Delivered(f)
    BY DEF GreenCallDelivers, Apart
  <2>1. results # <<>>
    BY DEF SafetyInv, ProcessInv, Unheard
  <2>2. left = <<>> /\ Failed(results) = {} /\ Len(results) = Len(GuardsOf(args.cmd))
    BY <2>1 DEF SafetyInv, ProcessInv, Ended
  <2>3. Apart => \A f \in Formats : Reached(f, Len(calls))
    BY <2>1, <2>2 DEF SafetyInv, ProcessInv, Ended
  <2>4. Clean(Last(calls))
    BY <2>2 DEF SafetyInv, ProcessInv, Recorded, Clean
  <2>5. QED
    BY <2>1, <2>2, <2>3, <2>4 DEF Delivered, Reached
<1>2. QED
  BY <1>1, SafetyAlways, PTL

\* A green job heard every guard of every step that may fail it, and had no usage
\* error: for every job, with any process or service failing at any point.
THEOREM GreenJobsAreClean == Spec => []GreenJobIsClean
<1>1. SafetyInv => GreenJobIsClean
  <2> SUFFICES ASSUME SafetyInv, Over, ~jobFailed, NEW k \in 1..Len(calls)
               PROVE  /\ job[launched[k]].kind = "shell" \/ job[launched[k]].failOnError =>
                            calls[k].code = 0 /\ Clean(calls[k])
                      /\ calls[k].code # 2
    BY DEF GreenJobIsClean
  <2>1. Sound(k)
    BY DEF SafetyInv, JobInv, Answered, Over
  <2>2. QED
    BY <2>1 DEF Sound, SafetyInv, ProcessInv, OnlyClean
<1>2. QED
  BY <1>1, SafetyAlways, PTL

\* What a step uploads is the complete report of its own process, for every job.
THEOREM UploadsAreOwn == Spec => []UploadIsOwn
<1>1. SafetyInv => UploadIsOwn
  BY DEF SafetyInv, JobInv
<1>2. QED
  BY <1>1, SafetyAlways, PTL

\* While nothing around it fails, a process that heard all its guards has its
\* report uploaded before the job is over, whatever the guards said.
THEOREM FindingsAreUploaded == Spec => []FindingsUploaded
<1>1. SafetyInv => FindingsUploaded
  BY DEF SafetyInv, JobInv, Reported, FindingsUploaded, Over
<1>2. QED
  BY <1>1, SafetyAlways, PTL

\* No step, whatever fails, ever takes back what was appended to the run summary.
THEOREM SummaryIsKept == Spec => SummaryKept
<1>1. TypeInv /\ [Next]_vars => [IsPrefix(summary, summary')]_vars
  <2> SUFFICES ASSUME TypeInv, Next PROVE IsPrefix(summary, summary')
    OBVIOUS
  <2>1. summary \in Seq(Content)
    BY DEF TypeInv, CliType, DiskType
  <2>2. summary' = summary \/ \E c \in Content : summary' = Append(summary, c)
    <3>1. CASE WriteDocument
      <4>1. Doc(Head(pending), ThisCall, results) \in Content
        BY <3>1, DocType, HeadTailProperties DEF WriteDocument, TypeInv, CliType, ProcessType
      <4>2. QED
        BY <3>1, <4>1 DEF WriteDocument, Written
    <3>2. CASE WriteFails
      <4>1. Torn(ThisCall) \in Content
        BY DocType DEF TypeInv
      <4>2. QED
        BY <3>2, <4>1 DEF WriteFails, Written
    <3>3. CASE ~WriteDocument /\ ~WriteFails
      <4>1. CASE Process
        BY <3>3, <4>1 DEF Process, RejectUsage, PrintHelp, Dispatch, RunGuard, GuardThrows, Report, Finish, List,
                          InitConfig, PlainWriteFails, Killed, disk
      <4>2. CASE ~Process
        BY <4>2 DEF Next, StepBegins, StepSkipped, StepEnds, Install, Launch, Start, ShellEnds, Publish, Reap, Upload,
                    Verdict, ServiceFails, vars, cliVars, disk
      <4>3. QED
        BY <4>1, <4>2
    <3>4. QED
      BY <3>1, <3>2, <3>3
  <2>3. CASE summary' = summary
    BY <2>1, <2>3, LenProperties DEF IsPrefix
  <2>4. ASSUME NEW c \in Content, summary' = Append(summary, c) PROVE IsPrefix(summary, summary')
    <3> DEFINE n == Len(summary)
    <3>1. /\ summary' \in Seq(Content) /\ Len(summary') = n + 1 /\ n \in Nat
          /\ \A k \in 1..n : summary'[k] = summary[k]
      BY <2>1, <2>4, AppendProperties, LenProperties
    <3> HIDE DEF n
    <3>2. SubSeq(summary, 1, n) = summary
      BY <2>1, SubSeqFull DEF n
    <3>3. \A k \in 1..n : k \in 1..(n + 1)
      BY <3>1
    <3>4. /\ SubSeq(summary', 1, n) \in Seq(Content) /\ Len(SubSeq(summary', 1, n)) = n
          /\ \A k \in 1..n : SubSeq(summary', 1, n)[k] = summary'[k]
      BY <3>1
    <3>5. SubSeq(summary', 1, n) = summary
      BY <2>1, <3>1, <3>4, SeqEqual DEF n
    <3>6. QED
      BY <3>1, <3>2, <3>5 DEF IsPrefix, n
  <2>5. QED
    BY <2>2, <2>3, <2>4
<1>2. Spec => []TypeInv
  BY TypeInit, TypeStep, PTL DEF Spec
<1>3. QED
  BY <1>1, <1>2, PTL DEF Spec, SummaryKept

-----------------------------------------------------------------------------
(* Counting up: what holds at 0 and from one number to the next.           *)

LEMMA CountingUp ==
  ASSUME NEW n \in Nat, NEW T, 0 \in T, \A k \in 0..n : k \in T /\ k < n => k + 1 \in T
  PROVE  0..n \subseteq T
<1> DEFINE C == (0..n) \ T
           R == OpToRel(<, Nat)
<1>1. SUFFICES ASSUME C # {} PROVE FALSE
  OBVIOUS
<1>0. C \subseteq Nat
  OBVIOUS
<1>2. IsWellFoundedOn(R, Nat)
  BY NatLessThanWellFounded
<1>3. \A j, k \in Nat : j < k => <<j, k>> \in R
  BY DEF OpToRel
<1> HIDE DEF R, C
<1>4. PICK m \in C : \A k \in C : ~(<<k, m>> \in R)
  BY <1>0, <1>1, <1>2, WFMin
<1> USE DEF C
<1>5. m \in Nat /\ m # 0 /\ m - 1 \in 0..n /\ m - 1 < n /\ (m - 1) + 1 = m
  BY <1>4
<1>6. m - 1 < m /\ m - 1 \in Nat
  BY <1>5
<1>7. m - 1 \notin C
  BY <1>3, <1>4, <1>5, <1>6
<1>8. QED
  BY <1>4, <1>5, <1>7

LEMMA MaxIsGreatest ==
  ASSUME NEW n \in Nat, NEW s \in SUBSET (1..n), s # {}
  PROVE  Max(s) \in s /\ \A k \in s : k <= Max(s)
<1> DEFINE T == {m \in 0..n : \A k \in s : k <= m => \E g \in s : \A j \in s : j <= m => j <= g}
<1>1. 0 \in T
  OBVIOUS
<1>2. ASSUME NEW m \in 0..n, m \in T, m < n PROVE m + 1 \in T
  <2>1. CASE m + 1 \in s
    BY <2>1
  <2>2. CASE m + 1 \notin s
    <3>1. \A k \in s : k <= m + 1 => k <= m
      BY <2>2
    <3>2. QED
      BY <1>2, <3>1
  <2>3. QED
    BY <2>1, <2>2
<1>3. n \in T
  <2> HIDE DEF T
  <2>1. 0..n \subseteq T
    BY <1>1, <1>2, CountingUp
  <2>2. QED
    BY <2>1
<1>4. \A k \in s : k \in 1..n /\ k <= n
  OBVIOUS
<1>5. PICK g \in s : \A j \in s : j <= n => j <= g
  <2>1. PICK k : k \in s
    OBVIOUS
  <2>2. QED
    BY <1>3, <1>4, <2>1
<1>6. \A j \in s : j \in Int /\ j <= n /\ g \in Int
  OBVIOUS
<1>7. \A j \in s : g >= j
  BY <1>5, <1>6
<1>8. Max(s) \in s /\ \A j \in s : Max(s) >= j
  BY <1>7 DEF Max
<1>9. QED
  BY <1>6, <1>8

-----------------------------------------------------------------------------
(* What a fold of the model does, one element after the other.             *)

LEMMA OnePast ==
  ASSUME NEW n \in Nat, NEW s \in SUBSET (1..(n + 1)), n + 1 \in s
  PROVE  s # {} /\ Max(s) = n + 1 /\ s \ {Max(s)} \in SUBSET (1..n)
<1>1. n + 1 \in Nat /\ s # {}
  OBVIOUS
<1>2. Max(s) \in s /\ \A k \in s : k <= Max(s)
  BY <1>1, MaxIsGreatest
<1>3. Max(s) \in 1..(n + 1) /\ n + 1 <= Max(s)
  BY <1>2
<1>4. Max(s) = n + 1
  BY <1>3
<1>5. QED
  BY <1>1, <1>4

LEMMA UpTo ==
  ASSUME NEW n \in Nat, NEW k \in 1..n
  PROVE  1..k \in SUBSET (1..n) /\ 1..k # {} /\ Max(1..k) = k /\ (1..k) \ {Max(1..k)} = 1..(k - 1)
<1>1. k - 1 \in Nat /\ (k - 1) + 1 = k /\ 1..k \in SUBSET (1..n) /\ k \in 1..k
  OBVIOUS
<1>2. 1..k # {} /\ Max(1..k) = k
  BY <1>1, OnePast
<1>3. (1..k) \ {k} = 1..(k - 1)
  BY <1>1
<1>4. QED
  BY <1>1, <1>2, <1>3

Iterates(it, n, q, b, G) ==
  it = [s \in SUBSET (1..n) |-> IF s = {} THEN b ELSE G[<<it[s \ {Max(s)}], q[Max(s)]>>]]

\* A fold whose step never leaves A.
LEMMA FoldExists ==
  ASSUME NEW S, NEW A, NEW G \in [A \X S -> A], NEW q \in Seq(S), NEW b \in A
  PROVE  \E it \in [SUBSET (1..Len(q)) -> A] : Iterates(it, Len(q), q, b, G)
<1> USE DEF Iterates
<1>0. PICK n \in Nat : n = Len(q) /\ q \in [1..n -> S]
  OBVIOUS
<1> DEFINE Is(it, k) == it \in [SUBSET (1..k) -> A] /\ Iterates(it, k, q, b, G)
           T == {k \in Nat : \E it : Is(it, k)}
<1>1. 0 \in T
  <2>1. Is([s \in SUBSET (1..0) |-> b], 0)
    OBVIOUS
  <2>2. QED
    BY <2>1
<1>2. ASSUME NEW k \in 0..n, k \in T, k < n PROVE k + 1 \in T
  <2>0. k \in Nat /\ k + 1 \in 1..n
    BY <1>2
  <2>1. PICK it : Is(it, k)
    BY <1>2
  <2> DEFINE new == [s \in SUBSET (1..(k + 1)) |->
                       IF k + 1 \in s THEN G[<<it[s \ {k + 1}], q[k + 1]>>] ELSE it[s]]
  <2>2. ASSUME NEW s \in SUBSET (1..(k + 1))
        PROVE  new[s] = IF s = {} THEN b ELSE G[<<new[s \ {Max(s)}], q[Max(s)]>>]
    <3>1. CASE k + 1 \in s
      <4>1. Max(s) = k + 1 /\ s # {} /\ s \ {k + 1} \in SUBSET (1..k)
        BY <2>0, <3>1, OnePast
      <4>2. new[s] = G[<<it[s \ {k + 1}], q[k + 1]>>]
        BY <3>1
      <4>3. new[s \ {k + 1}] = it[s \ {k + 1}]
        OBVIOUS
      <4>4. QED
        BY <4>1, <4>2, <4>3
    <3>2. CASE k + 1 \notin s
      <4>1. s \in SUBSET (1..k)
        BY <3>2
      <4>2. new[s] = it[s]
        BY <3>2
      <4>3. it[s] = IF s = {} THEN b ELSE G[<<it[s \ {Max(s)}], q[Max(s)]>>]
        BY <2>1, <4>1
      <4>4. new[s \ {Max(s)}] = it[s \ {Max(s)}]
        BY <3>2
      <4>5. QED
        BY <4>2, <4>3, <4>4
    <3>3. QED
      BY <3>1, <3>2
  <2>3. ASSUME NEW s \in SUBSET (1..(k + 1)) PROVE new[s] \in A
    <3>1. CASE k + 1 \in s
      <4>1. s \ {k + 1} \in SUBSET (1..k) /\ k + 1 \in 1..n
        BY <2>0
      <4>2. it[s \ {k + 1}] \in A
        BY <2>1, <4>1
      <4>4. q[k + 1] \in S
        BY <1>0, <4>1
      <4>3. QED
        BY <3>1, <4>2, <4>4
    <3>2. CASE k + 1 \notin s
      <4>1. s \in SUBSET (1..k)
        BY <3>2
      <4>2. QED
        BY <2>1, <3>2, <4>1
    <3>3. QED
      BY <3>1, <3>2
  <2>4. Is(new, k + 1)
    <3>1. new = [s \in SUBSET (1..(k + 1)) |-> new[s]]
      OBVIOUS
    <3> HIDE DEF new
    <3>2. QED
      BY <2>2, <2>3, <3>1
  <2> HIDE DEF Is, new
  <2>5. k + 1 \in Nat
    OBVIOUS
  <2>6. QED
    BY <2>4, <2>5
<1>3. n \in T
  <2> HIDE DEF T
  <2>1. 0..n \subseteq T
    BY <1>1, <1>2, CountingUp
  <2>2. QED
    BY <2>1
<1>4. QED
  BY <1>0, <1>3

-----------------------------------------------------------------------------
(* What a statement keeps.                                                 *)

\* Flags and policies are of tables there are.
Coherent(cat) ==
  /\ cat \in Catalogs /\ cat.rls \subseteq cat.tables
  /\ \A p \in cat.policies : p[1] \in cat.tables

LEMMA StatementFields ==
  ASSUME NEW s \in Statement
  PROVE  /\ s.kind \in Kinds /\ s.table \in Relations /\ s.to \in Relations /\ s.policy \in PolicyNames
         /\ s.routine \in Routines /\ s.grantee \in Roles /\ s.view \in Views
         /\ s.base \in Relations \cup Views /\ s.shape \in Shapes /\ s.invoker \in BOOLEAN
         /\ s.privs \in SUBSET Privileges /\ s.definer \in BOOLEAN /\ s.writes \in BOOLEAN
         /\ s.trigger \in BOOLEAN
  BY DEF Statement

LEMMA CatalogFields ==
  ASSUME NEW cat
  PROVE  cat \in Catalogs <=>
           /\ cat = [tables |-> cat.tables, rls |-> cat.rls, policies |-> cat.policies,
                     routines |-> cat.routines, code |-> cat.code, views |-> cat.views,
                     view |-> cat.view, defaults |-> cat.defaults]
           /\ cat.tables \in SUBSET Relations /\ cat.rls \in SUBSET Relations
           /\ cat.policies \in SUBSET (Relations \X PolicyNames)
           /\ cat.routines \in SUBSET Routines /\ cat.code \in [Routines -> Routine]
           /\ cat.views \in SUBSET Views /\ cat.view \in [Views -> View]
           /\ cat.defaults \in SUBSET (Roles \X Privileges)
  BY DEF Catalogs

\* A catalog whose functions and default privileges are those of cat.
With(cat, tables, rls, policies, views, view) ==
  [tables |-> tables, rls |-> rls, policies |-> policies, routines |-> cat.routines,
   code |-> cat.code, views |-> views, view |-> view, defaults |-> cat.defaults]

LEMMA SoundWith ==
  ASSUME NEW cat, cat \in Catalogs, NEW tables \in SUBSET Relations, NEW rls \in SUBSET tables,
         NEW policies \in SUBSET (Relations \X PolicyNames), \A p \in policies : p[1] \in tables,
         NEW views \in SUBSET Views, NEW view \in [Views -> View]
  PROVE  Coherent(With(cat, tables, rls, policies, views, view))
<1> DEFINE new == With(cat, tables, rls, policies, views, view)
<1>1. /\ DOMAIN cat = {"tables", "rls", "policies", "routines", "code", "views", "view", "defaults"}
      /\ cat.routines \in SUBSET Routines /\ cat.code \in [Routines -> Routine]
      /\ cat.defaults \in SUBSET (Roles \X Privileges)
  BY DEF Catalogs
<1>2. new = [tables |-> tables, rls |-> rls, policies |-> policies, routines |-> cat.routines,
             code |-> cat.code, views |-> views, view |-> view, defaults |-> cat.defaults]
  BY DEF With
<1> HIDE DEF new
<1>3. new \in Catalogs
  BY <1>1, <1>2 DEF Catalogs
<1>4. new.tables = tables /\ new.rls = rls /\ new.policies = policies
  BY <1>2
<1>5. Coherent(new)
  BY <1>3, <1>4 DEF Coherent
<1>6. QED
  BY <1>5 DEF new

LEMMA NoViewIsView == NoView \in View
<1>1. (CHOOSE t \in Relations : TRUE) \in Relations
  BY CatalogAssumption
<1>2. QED
  BY <1>1 DEF NoView, View, Shapes

LEMMA EmptySound == Coherent(EmptyCatalog)
<1>1. NoRoutine \in Routine
  BY DEF NoRoutine, Routine
<1>2. QED
  BY <1>1, NoViewIsView, CatalogAssumption DEF EmptyCatalog, Coherent, Catalogs

LEMMA TableStatement ==
  ASSUME NEW cat, Coherent(cat), NEW s \in Statement, ~Refused(cat, s),
         s.kind \in {"create table", "drop table", "rename table", "use table"}
  PROVE  Coherent(After(cat, s))
<1>1. s.table \in Relations /\ s.to \in Relations
  BY StatementFields
<1>2. cat \in Catalogs
  BY DEF Coherent
<1>3. CASE s.kind = "create table"
  BY <1>1, <1>3 DEF After, Coherent, Catalogs
<1>4. CASE s.kind = "drop table"
  BY <1>1, <1>4 DEF After, Coherent, Catalogs, PoliciesOf
<1>5. CASE s.kind = "rename table"
  <2>1. CASE s.table \notin cat.tables
    BY <1>5, <2>1 DEF After
  <2>2. CASE s.table \in cat.tables
    <3> DEFINE t == s.table
               u == s.to
               old == PoliciesOf(cat, t)
               view == [v \in Views |-> IF v \in ViewsOver(cat, t) THEN [cat.view[v] EXCEPT !.base = u] ELSE cat.view[v]]
               rls == IF t \in cat.rls THEN (cat.rls \ {t}) \cup {u} ELSE cat.rls
               policies == (cat.policies \ old) \cup {<<u, p[2]>> : p \in old}
               tables == (cat.tables \ {t}) \cup {u}
    <3>1. After(cat, s) = [cat EXCEPT !.tables = tables, !.rls = rls, !.policies = policies, !.view = view]
      BY <1>5, <2>2, <1>2 DEF After, Rename, Catalogs
    <3>2. view \in [Views -> View]
      <4>1. ASSUME NEW v \in Views PROVE view[v] \in View
        <5>1. cat.view[v] \in View
          BY <1>2 DEF Catalogs
        <5>2. [cat.view[v] EXCEPT !.base = u] \in View
          BY <1>1, <5>1 DEF View
        <5>3. QED
          BY <5>1, <5>2
      <4> DEFINE tv(v) == IF v \in ViewsOver(cat, t) THEN [cat.view[v] EXCEPT !.base = u] ELSE cat.view[v]
      <4>2. \A v \in Views : tv(v) \in View
        BY <4>1
      <4> HIDE DEF tv
      <4>3. [v \in Views |-> tv(v)] \in [Views -> View]
        BY <4>2
      <4>4. QED
        BY <4>3 DEF tv
    <3>3. tables \subseteq Relations /\ rls \subseteq tables
      BY <1>1, <1>2, <2>2 DEF Coherent, Catalogs
    <3>4. /\ policies \in SUBSET (Relations \X PolicyNames)
          /\ \A p \in policies : p[1] \in tables
      <4>1. \A p \in old : p \in Relations \X PolicyNames /\ p[2] \in PolicyNames
        BY <1>2 DEF PoliciesOf, Catalogs
      <4>2. \A p \in cat.policies \ old : p \in Relations \X PolicyNames /\ p[1] \in tables
        BY <1>2 DEF PoliciesOf, Catalogs, Coherent
      <4>3. ASSUME NEW p \in old PROVE <<u, p[2]>> \in Relations \X PolicyNames /\ <<u, p[2]>>[1] \in tables
        BY <1>1, <4>1
      <4> HIDE DEF old, tables
      <4>4. QED
        BY <4>2, <4>3
    <3> HIDE DEF view, rls, policies, tables, t, u
    <3>5. cat.views \in SUBSET Views
      BY <1>2 DEF Catalogs
    <3>6. After(cat, s) = With(cat, tables, rls, policies, cat.views, view)
      BY <1>2, <3>1 DEF Catalogs, With
    <3>7. QED
      BY <1>2, <3>2, <3>3, <3>4, <3>5, <3>6, SoundWith
  <2>3. QED
    BY <2>1, <2>2
<1>6. CASE s.kind = "use table"
  BY <1>6 DEF After
<1>7. QED
  BY <1>3, <1>4, <1>5, <1>6

LEMMA PolicyStatement ==
  ASSUME NEW cat, Coherent(cat), NEW s \in Statement, ~Refused(cat, s),
         s.kind \in {"enable rls", "disable rls", "create policy", "drop policy"}
  PROVE  Coherent(After(cat, s))
<1>1. s.table \in Relations /\ s.policy \in PolicyNames
  BY StatementFields
<1>2. CASE s.kind = "enable rls"
  BY <1>1, <1>2 DEF After, Coherent, Catalogs
<1>3. CASE s.kind = "disable rls"
  BY <1>1, <1>3 DEF After, Coherent, Catalogs
<1>4. CASE s.kind = "create policy"
  <2>1. s.table \in cat.tables
    BY <1>4 DEF Refused, NeedsTable
  <2> DEFINE policies == cat.policies \cup {<<s.table, s.policy>>}
  <2>2. After(cat, s) = [cat EXCEPT !.policies = policies]
    BY <1>4 DEF After
  <2>3. policies \in SUBSET (Relations \X PolicyNames) /\ \A p \in policies : p[1] \in cat.tables
    <3>1. /\ cat.policies \in SUBSET (Relations \X PolicyNames)
          /\ \A p \in cat.policies : p[1] \in cat.tables
      BY DEF Coherent, Catalogs
    <3>2. /\ <<s.table, s.policy>> \in Relations \X PolicyNames
          /\ <<s.table, s.policy>>[1] \in cat.tables
      BY <1>1, <2>1
    <3>3. QED
      BY <3>1, <3>2
  <2> HIDE DEF policies
  <2>4. QED
    BY <2>2, <2>3 DEF Coherent, Catalogs
<1>5. CASE s.kind = "drop policy"
  BY <1>1, <1>5 DEF After, Coherent, Catalogs
<1>6. QED
  BY <1>2, <1>3, <1>4, <1>5

LEMMA RoutineStatement ==
  ASSUME NEW cat, Coherent(cat), NEW s \in Statement,
         s.kind \in {"create function", "drop function", "grant", "revoke"}
  PROVE  Coherent(After(cat, s))
<1>1. s.routine \in Routines /\ s.grantee \in Roles /\ s.definer \in BOOLEAN /\ s.writes \in BOOLEAN /\ s.trigger \in BOOLEAN
  BY StatementFields
<1>2. cat.code[s.routine] \in Routine /\ cat \in Catalogs
  BY <1>1 DEF Coherent, Catalogs
<1>3. CASE s.kind = "create function"
  BY <1>1, <1>2, <1>3 DEF After, Define, Coherent, Catalogs, Routine, Roles
<1>4. CASE s.kind = "drop function"
  BY <1>1, <1>2, <1>4 DEF After, Coherent, Catalogs, Routine, NoRoutine
<1>5. CASE s.kind = "grant"
  BY <1>1, <1>2, <1>5 DEF After, Coherent, Catalogs, Routine
<1>6. CASE s.kind = "revoke"
  BY <1>1, <1>2, <1>6 DEF After, Coherent, Catalogs, Routine
<1>7. QED
  BY <1>3, <1>4, <1>5, <1>6

LEMMA ViewStatement ==
  ASSUME NEW cat, Coherent(cat), NEW s \in Statement, NEW v \in Views, NEW w \in View,
         NEW views \in SUBSET Views, After(cat, s) = [cat EXCEPT !.views = views, !.view[v] = w]
  PROVE  Coherent(After(cat, s))
<1>1. /\ cat \in Catalogs /\ cat.tables \in SUBSET Relations /\ cat.rls \in SUBSET cat.tables
      /\ cat.policies \in SUBSET (Relations \X PolicyNames) /\ \A p \in cat.policies : p[1] \in cat.tables
      /\ cat.view \in [Views -> View]
  BY DEF Coherent, Catalogs
<1> DEFINE view == [cat.view EXCEPT ![v] = w]
<1>2. view \in [Views -> View]
  BY <1>1
<1>3. After(cat, s) = With(cat, cat.tables, cat.rls, cat.policies, views, view)
  BY <1>1 DEF Catalogs, With
<1> HIDE DEF view
<1>4. QED
  BY <1>1, <1>2, <1>3, SoundWith

LEMMA WritersStatement ==
  ASSUME NEW cat, Coherent(cat), NEW s \in Statement, NEW view \in [Views -> View],
         After(cat, s) = [cat EXCEPT !.view = view]
  PROVE  Coherent(After(cat, s))
<1>1. /\ cat \in Catalogs /\ cat.tables \in SUBSET Relations /\ cat.rls \in SUBSET cat.tables
      /\ cat.policies \in SUBSET (Relations \X PolicyNames) /\ \A p \in cat.policies : p[1] \in cat.tables
      /\ cat.views \in SUBSET Views
  BY DEF Coherent, Catalogs
<1>2. After(cat, s) = With(cat, cat.tables, cat.rls, cat.policies, cat.views, view)
  BY <1>1 DEF Catalogs, With
<1>3. QED
  BY <1>1, <1>2, SoundWith

LEMMA ViewsStatement ==
  ASSUME NEW cat, Coherent(cat), NEW s \in Statement,
         s.kind \in {"create view", "drop view", "alter view", "create rule"}
  PROVE  Coherent(After(cat, s))
<1>1. /\ s.view \in Views /\ s.base \in Relations \cup Views /\ s.shape \in Shapes /\ s.invoker \in BOOLEAN
  BY StatementFields
<1>2. cat.view[s.view] \in View /\ cat \in Catalogs /\ cat.defaults \in SUBSET (Roles \X Privileges)
      /\ cat.views \in SUBSET Views
  BY <1>1 DEF Coherent, Catalogs
<1>3. NoView \in View
  BY NoViewIsView
<1>4. CASE s.kind = "create view"
  <2> DEFINE old == cat.view[s.view]
             w == [shape |-> s.shape, base |-> s.base, invoker |-> s.invoker, rule |-> old.rule,
                   writers |-> IF s.view \in cat.views THEN old.writers ELSE cat.defaults]
  <2>1. After(cat, s) = [cat EXCEPT !.views = cat.views \cup {s.view}, !.view[s.view] = w]
    BY <1>4 DEF After, DefineView
  <2>2. w \in View
    BY <1>1, <1>2 DEF View
  <2>3. cat.views \cup {s.view} \in SUBSET Views
    BY <1>1, <1>2
  <2> HIDE DEF w
  <2>4. QED
    BY <1>1, <2>1, <2>2, <2>3, ViewStatement
<1>5. CASE s.kind = "drop view"
  <2>1. After(cat, s) = [cat EXCEPT !.views = cat.views \ {s.view}, !.view[s.view] = NoView]
    BY <1>5 DEF After
  <2>2. QED
    BY <1>1, <1>2, <1>3, <2>1, ViewStatement
<1>6. CASE s.kind = "alter view"
  <2> DEFINE w == [cat.view[s.view] EXCEPT !.invoker = s.invoker]
  <2>1. After(cat, s) = [cat EXCEPT !.views = cat.views, !.view[s.view] = w]
    BY <1>2, <1>6 DEF After, Catalogs
  <2>2. w \in View
    BY <1>1, <1>2 DEF View
  <2> HIDE DEF w
  <2>3. QED
    BY <1>1, <1>2, <2>1, <2>2, ViewStatement
<1>7. CASE s.kind = "create rule"
  <2> DEFINE w == [cat.view[s.view] EXCEPT !.rule = TRUE]
  <2>1. After(cat, s) = [cat EXCEPT !.views = cat.views, !.view[s.view] = w]
    BY <1>2, <1>7 DEF After, Catalogs
  <2>2. w \in View
    BY <1>1, <1>2 DEF View
  <2> HIDE DEF w
  <2>3. QED
    BY <1>1, <1>2, <2>1, <2>2, ViewStatement
<1>8. QED
  BY <1>4, <1>5, <1>6, <1>7

LEMMA GrantStatement ==
  ASSUME NEW cat, Coherent(cat), NEW s \in Statement,
         s.kind \in {"grant writes", "revoke writes", "default grant", "default revoke"}
  PROVE  Coherent(After(cat, s))
<1>1. Writers(s) \in SUBSET (Roles \X Privileges)
  BY StatementFields DEF Writers
<1>2. cat \in Catalogs
  BY DEF Coherent
<1>3. ASSUME NEW v \in Views PROVE Given(cat, s)[v] \in View /\ Taken(cat, s)[v] \in View
  <2>1. cat.view[v] \in View
    BY <1>2 DEF Catalogs
  <2>2. [cat.view[v] EXCEPT !.writers = @ \cup Writers(s)] \in View
    BY <1>1, <2>1 DEF View
  <2>3. [cat.view[v] EXCEPT !.writers = @ \ Writers(s)] \in View
    BY <1>1, <2>1 DEF View
  <2>4. QED
    BY <2>1, <2>2, <2>3 DEF Given, Taken
<1>4. CASE s.kind = "grant writes"
  <2>1. After(cat, s) = [cat EXCEPT !.view = Given(cat, s)]
    BY <1>4 DEF After
  <2>2. Given(cat, s) \in [Views -> View]
    BY <1>3 DEF Given
  <2>3. QED
    BY <2>1, <2>2, WritersStatement
<1>5. CASE s.kind = "revoke writes"
  <2>1. After(cat, s) = [cat EXCEPT !.view = Taken(cat, s)]
    BY <1>5 DEF After
  <2>2. Taken(cat, s) \in [Views -> View]
    BY <1>3 DEF Taken
  <2>3. QED
    BY <2>1, <2>2, WritersStatement
<1>6. CASE s.kind = "default grant"
  BY <1>1, <1>6 DEF After, Coherent, Catalogs
<1>7. CASE s.kind = "default revoke"
  BY <1>1, <1>7 DEF After, Coherent, Catalogs
<1>8. QED
  BY <1>4, <1>5, <1>6, <1>7

LEMMA AfterSound ==
  ASSUME NEW cat, Coherent(cat), NEW s \in Statement, ~Refused(cat, s)
  PROVE  Coherent(After(cat, s))
<1>1. s.kind \in Kinds
  BY StatementFields
<1>2. QED
  BY <1>1, TableStatement, PolicyStatement, RoutineStatement, ViewsStatement, GrantStatement DEF Kinds

-----------------------------------------------------------------------------
(* The order of the files.                                                 *)

Place(fs, f) == Cardinality(Before(fs, f))

LEMMA PlaceIsNat ==
  ASSUME NEW fs \in SUBSET Files, IsFiniteSet(fs), NEW f \in fs
  PROVE  IsFiniteSet(Before(fs, f)) /\ Place(fs, f) \in 0..(Cardinality(fs) - 1) /\ f.rank \in Nat
<1>1. Before(fs, f) \in SUBSET (fs \ {f}) /\ f.rank \in Nat
  BY FileAssumption DEF Before, File
<1>2. IsFiniteSet(fs \ {f}) /\ Cardinality(fs \ {f}) = Cardinality(fs) - 1
  BY FS_RemoveElement
<1>3. IsFiniteSet(Before(fs, f)) /\ Cardinality(Before(fs, f)) <= Cardinality(fs \ {f})
  BY <1>1, <1>2, FS_Subset
<1>4. Cardinality(Before(fs, f)) \in Nat /\ Cardinality(fs) \in Nat
  BY <1>3, FS_CardinalityType
<1>5. QED
  BY <1>1, <1>2, <1>3, <1>4 DEF Place

LEMMA PlaceGrows ==
  ASSUME NEW fs \in SUBSET Files, IsFiniteSet(fs), NEW f \in fs, NEW h \in fs, f.rank < h.rank
  PROVE  Place(fs, f) < Place(fs, h)
<1>1. f.rank \in Nat /\ h.rank \in Nat /\ \A g \in fs : g.rank \in Nat
  BY PlaceIsNat
<1>2. Before(fs, f) \in SUBSET Before(fs, h) /\ f \in Before(fs, h) /\ f \notin Before(fs, f)
  BY <1>1 DEF Before
<1>3. IsFiniteSet(Before(fs, h)) /\ Place(fs, f) \in Nat /\ Place(fs, h) \in Nat
  BY PlaceIsNat
<1>4. Cardinality(Before(fs, f)) <= Cardinality(Before(fs, h)) /\ Cardinality(Before(fs, f)) # Cardinality(Before(fs, h))
  BY <1>2, <1>3, FS_Subset
<1>5. QED
  BY <1>3, <1>4 DEF Place

LEMMA PlaceTells ==
  ASSUME NEW fs \in SUBSET Files, IsFiniteSet(fs), NEW f \in fs, NEW h \in fs, Place(fs, f) = Place(fs, h)
  PROVE  f = h
<1>1. f.rank \in Nat /\ h.rank \in Nat /\ Place(fs, f) \in Nat
  BY PlaceIsNat
<1>2. ~(f.rank < h.rank) /\ ~(h.rank < f.rank)
  BY <1>1, PlaceGrows
<1>3. f.rank = h.rank
  BY <1>1, <1>2
<1>4. QED
  BY <1>3, FileAssumption

LEMMA PlaceTaken ==
  ASSUME NEW fs \in SUBSET Files, IsFiniteSet(fs), NEW k \in 1..Cardinality(fs)
  PROVE  \E f \in fs : Place(fs, f) = k - 1
<1> DEFINE n == Cardinality(fs)
           T == 0..(n - 1)
           place == [f \in fs |-> Place(fs, f)]
<1>1. n \in Nat
  BY FS_CardinalityType
<1>2. IsFiniteSet(T) /\ Cardinality(T) = n
  <2>1. 0 \in Int /\ n - 1 \in Int /\ (IF 0 > n - 1 THEN 0 ELSE (n - 1) - 0 + 1) = n
    BY <1>1
  <2>2. QED
    BY <2>1, FS_Interval
<1>3. place \in Injection(fs, T)
  BY PlaceIsNat, PlaceTells DEF Injection, IsInjective
<1>4. place \in Surjection(fs, T)
  BY <1>2, <1>3, FS_Injection
<1>5. k - 1 \in T
  BY <1>1
<1>6. QED
  BY <1>4, <1>5 DEF Surjection

LEMMA OrderOfFiles ==
  ASSUME NEW fs \in SUBSET Files, IsFiniteSet(fs)
  PROVE  LET q == InOrder(fs)
             n == Cardinality(fs)
         IN  /\ n \in Nat /\ q \in [1..n -> fs] /\ q \in Seq(fs) /\ Len(q) = n
             /\ \A k \in 1..n : Place(fs, q[k]) = k - 1
             /\ \A f \in fs : \E k \in 1..n : q[k] = f /\ Place(fs, f) = k - 1
             /\ \A j, k \in 1..n : j < k <=> q[j].rank < q[k].rank
<1> DEFINE q == InOrder(fs)
           n == Cardinality(fs)
<1>1. n \in Nat
  BY FS_CardinalityType
<1>2. ASSUME NEW k \in 1..n PROVE q[k] \in fs /\ Place(fs, q[k]) = k - 1
  <2>1. \E f \in fs : Cardinality(Before(fs, f)) = k - 1
    BY PlaceTaken DEF Place
  <2>2. q[k] = CHOOSE f \in fs : Cardinality(Before(fs, f)) = k - 1
    BY DEF InOrder
  <2>3. QED
    BY <2>1, <2>2 DEF Place
<1>3. q \in [1..n -> fs]
  <2>1. DOMAIN q = 1..n /\ q = [k \in 1..n |-> q[k]]
    BY DEF InOrder
  <2> HIDE DEF q
  <2>2. QED
    BY <1>2, <2>1
<1> HIDE DEF q, n
<1>4. q \in Seq(fs) /\ Len(q) = n
  BY <1>1, <1>3
<1>5. ASSUME NEW f \in fs PROVE \E k \in 1..n : q[k] = f /\ Place(fs, f) = k - 1
  <2>1. Place(fs, f) \in 0..(n - 1)
    BY PlaceIsNat DEF n
  <2>2. PICK k \in 1..n : k - 1 = Place(fs, f)
    <3>1. Place(fs, f) + 1 \in 1..n /\ (Place(fs, f) + 1) - 1 = Place(fs, f)
      BY <1>1, <2>1
    <3>2. QED
      BY <3>1
  <2>3. q[k] = f
    BY <1>2, <2>2, PlaceTells
  <2>4. QED
    BY <2>2, <2>3
<1>6. ASSUME NEW j \in 1..n, NEW k \in 1..n PROVE j < k <=> q[j].rank < q[k].rank
  <2>1. /\ q[j] \in fs /\ q[k] \in fs /\ Place(fs, q[j]) = j - 1 /\ Place(fs, q[k]) = k - 1
    BY <1>2
  <2>2. q[j].rank \in Nat /\ q[k].rank \in Nat
    BY <2>1, PlaceIsNat
  <2>3. q[j].rank < q[k].rank => j - 1 < k - 1
    BY <2>1, PlaceGrows
  <2>4. q[k].rank < q[j].rank => k - 1 < j - 1
    BY <2>1, PlaceGrows
  <2>5. q[k].rank = q[j].rank => k - 1 = j - 1
    <3>1. q[k].rank = q[j].rank => q[k] = q[j]
      BY <2>1, FileAssumption
    <3>2. QED
      BY <2>1, <3>1
  <2>6. QED
    BY <2>2, <2>3, <2>4, <2>5
<1>7. QED
  BY <1>1, <1>2, <1>3, <1>4, <1>5, <1>6 DEF q, n

\* The files before one of them are those in front of it.
LEMMA OrderBefore ==
  ASSUME NEW fs \in SUBSET Files, IsFiniteSet(fs), NEW i \in 1..Cardinality(fs)
  PROVE  LET q == InOrder(fs)
             w == InOrder(Before(fs, q[i]))
         IN  Len(w) = i - 1 /\ \A k \in 1..(i - 1) : w[k] = q[k]
<1> DEFINE q == InOrder(fs)
           n == Cardinality(fs)
           b == Before(fs, q[i])
           w == InOrder(b)
<1>1. /\ n \in Nat /\ q \in [1..n -> fs] /\ \A k \in 1..n : Place(fs, q[k]) = k - 1
      /\ \A j, k \in 1..n : j < k <=> q[j].rank < q[k].rank
  BY OrderOfFiles
<1>2. b \in SUBSET Files /\ IsFiniteSet(b) /\ Cardinality(b) = i - 1
  <2>1. q[i] \in fs /\ Place(fs, q[i]) = i - 1
    BY <1>1
  <2>2. IsFiniteSet(b)
    BY <2>1, PlaceIsNat
  <2>3. QED
    BY <2>1, <2>2 DEF Place, Before
<1>3. /\ w \in Seq(b) /\ Len(w) = i - 1 /\ \A k \in 1..(i - 1) : w[k] \in b /\ Place(b, w[k]) = k - 1
  BY <1>2, OrderOfFiles
<1>4. ASSUME NEW k \in 1..(i - 1) PROVE w[k] = q[k]
  <2>1. k \in 1..n /\ k < i /\ i \in 1..n
    BY <1>1
  <2>2. q[k] \in fs /\ q[i] \in fs /\ q[k].rank < q[i].rank
    BY <1>1, <2>1
  <2>3. q[k] \in b
    BY <2>2 DEF Before
  <2>4. Before(b, q[k]) = Before(fs, q[k])
    <3>1. \A g \in fs : g.rank \in Nat
      BY PlaceIsNat
    <3>2. \A g \in fs : g.rank < q[k].rank => g.rank < q[i].rank
      BY <2>2, <3>1
    <3>3. QED
      BY <3>2 DEF Before
  <2>5. Place(b, q[k]) = k - 1
    BY <1>1, <2>1, <2>4 DEF Place
  <2>6. QED
    BY <1>2, <1>3, <2>3, <2>5, PlaceTells
<1>5. QED
  BY <1>3, <1>4

-----------------------------------------------------------------------------
(* What a migration, and a history of them, does to a catalog.             *)

Progress == {a \in [ok: BOOLEAN, cat: Catalogs] : Coherent(a.cat)}

LEMMA ExecuteKeeps ==
  ASSUME NEW a \in Progress, NEW s \in Statement
  PROVE  /\ Execute(a, s) \in Progress
         /\ Execute(a, s).ok <=> a.ok /\ ~Refused(a.cat, s)
         /\ Execute(a, s).ok => Execute(a, s).cat = After(a.cat, s)
<1>1. /\ a.ok \in BOOLEAN /\ a.cat \in Catalogs /\ Coherent(a.cat) /\ a = [ok |-> a.ok, cat |-> a.cat]
  BY DEF Progress
<1>2. CASE a.ok /\ ~Refused(a.cat, s)
  <2>1. Execute(a, s) = [ok |-> a.ok, cat |-> After(a.cat, s)]
    BY <1>1, <1>2 DEF Execute
  <2>2. Coherent(After(a.cat, s)) /\ After(a.cat, s) \in Catalogs
    <3>1. Coherent(After(a.cat, s))
      BY <1>1, <1>2, AfterSound
    <3>2. QED
      BY <3>1 DEF Coherent
  <2>3. QED
    BY <1>1, <1>2, <2>1, <2>2 DEF Progress
<1>3. CASE ~(a.ok /\ ~Refused(a.cat, s))
  <2>1. Execute(a, s) = [ok |-> FALSE, cat |-> a.cat]
    BY <1>1, <1>3 DEF Execute
  <2>2. QED
    BY <1>1, <1>3, <2>1 DEF Progress
<1>4. QED
  BY <1>2, <1>3

\* One statement after the other; the first that is refused ends it.
LEMMA OutcomeTrace ==
  ASSUME NEW cat, Coherent(cat), NEW stmts \in Seq(Statement)
  PROVE  \E tr : /\ tr[0] = [ok |-> TRUE, cat |-> cat] /\ tr[Len(stmts)] = Outcome(cat, stmts)
                 /\ \A k \in 0..Len(stmts) : tr[k] \in Progress
                 /\ \A k \in 1..Len(stmts) : tr[k] = Execute(tr[k - 1], stmts[k])
<1> DEFINE b == [ok |-> TRUE, cat |-> cat]
           q == stmts
<1>1. q \in Seq(Statement)
  OBVIOUS
<1>2. b \in Progress
  BY DEF Progress, Coherent
<1>3. \A a \in Progress : \A s \in Statement : Execute(a, s) \in Progress
  BY ExecuteKeeps
<1>4. Outcome(cat, stmts) = FoldLeft(Execute, b, q)
  BY DEF Outcome
<1> HIDE DEF b, q
<1>5. PICK n \in Nat : n = Len(q) /\ DOMAIN q = 1..n /\ q \in [1..n -> Statement]
  BY <1>1
<1> DEFINE IsFold(it) == it = [s \in SUBSET (1..n) |-> IF s = {} THEN b ELSE Execute(it[s \ {Max(s)}], q[Max(s)])]
           G == [p \in Progress \X Statement |-> Execute(p[1], p[2])]
           it == CHOOSE it : IsFold(it)
<1>6. IsFold(it)
  <2>1. \A a \in Progress : \A s \in Statement : G[<<a, s>>] = Execute(a, s)
    OBVIOUS
  <2>2. G \in [Progress \X Statement -> Progress]
    <3>1. ASSUME NEW p \in Progress \X Statement PROVE Execute(p[1], p[2]) \in Progress
      BY <1>3
    <3>2. QED
      BY <3>1
  <2> HIDE DEF G
  <2>3. PICK f \in [SUBSET (1..n) -> Progress] : Iterates(f, n, q, b, G)
    BY <1>1, <1>2, <1>5, <2>2, FoldExists
  <2>4. ASSUME NEW s \in SUBSET (1..n), s # {}
        PROVE  G[<<f[s \ {Max(s)}], q[Max(s)]>>] = Execute(f[s \ {Max(s)}], q[Max(s)])
    <3>1. Max(s) \in 1..n
      BY <2>4, MaxIsGreatest
    <3>2. f[s \ {Max(s)}] \in Progress
      BY <2>3
    <3>3. q[Max(s)] \in Statement
      BY <1>5, <3>1
    <3>4. QED
      BY <2>1, <3>2, <3>3
  <2>5. IsFold(f)
    BY <2>3, <2>4 DEF Iterates
  <2>6. QED
    BY <2>5
<1>7. FoldLeft(Execute, b, q) = it[1..n]
  BY <1>5 DEF FoldLeft, MapThenFoldSet
<1> HIDE DEF it
<1> DEFINE tr == [k \in 0..n |-> it[1..k]]
<1>8. tr[0] = b
  BY <1>6
<1>9. ASSUME NEW k \in 1..n PROVE tr[k] = Execute(tr[k - 1], q[k])
  <2>1. 1..k \in SUBSET (1..n) /\ 1..k # {} /\ Max(1..k) = k /\ (1..k) \ {Max(1..k)} = 1..(k - 1)
    BY UpTo
  <2>2. it[1..k] = Execute(it[1..(k - 1)], q[k])
    BY <1>6, <2>1
  <2>3. k \in 0..n /\ k - 1 \in 0..n
    OBVIOUS
  <2>4. QED
    BY <2>2, <2>3
<1>10. tr[n] = Outcome(cat, stmts)
  BY <1>4, <1>7
<1> HIDE DEF IsFold, tr
<1> DEFINE T == {k \in 0..n : tr[k] \in Progress}
<1>11. 0 \in T
  BY <1>2, <1>8
<1>12. ASSUME NEW k \in 0..n, k \in T, k < n PROVE k + 1 \in T
  <2>1. k + 1 \in 1..n /\ (k + 1) - 1 = k /\ k + 1 \in 0..n
    BY <1>12
  <2>2. tr[k + 1] = Execute(tr[k], q[k + 1]) /\ q[k + 1] \in Statement
    BY <1>5, <1>9, <2>1
  <2>3. QED
    BY <1>3, <1>12, <2>1, <2>2
<1>13. 0..n \subseteq T
  <2> HIDE DEF T
  <2>1. QED
    BY <1>11, <1>12, CountingUp
<1>14. QED
  BY <1>5, <1>8, <1>9, <1>10, <1>13 DEF b, q

\* A migration that applies: every statement is accepted.
LEMMA AppliedTrace ==
  ASSUME NEW cat, Coherent(cat), NEW q \in Seq(Statement), Applies(cat, q)
  PROVE  \E db : /\ db[0] = cat /\ db[Len(q)] = Applied(cat, q)
                 /\ \A k \in 0..Len(q) : Coherent(db[k])
                 /\ \A k \in 1..Len(q) : ~Refused(db[k - 1], q[k]) /\ db[k] = After(db[k - 1], q[k])
<1>1. PICK n \in Nat : n = Len(q) /\ q \in [1..n -> Statement]
  OBVIOUS
<1>2. PICK tr : /\ tr[0] = [ok |-> TRUE, cat |-> cat] /\ tr[n] = Outcome(cat, q)
                /\ \A k \in 0..n : tr[k] \in Progress
                /\ \A k \in 1..n : tr[k] = Execute(tr[k - 1], q[k])
  BY <1>1, OutcomeTrace
<1>3. ASSUME NEW k \in 1..n
      PROVE  /\ tr[k].ok <=> tr[k - 1].ok /\ ~Refused(tr[k - 1].cat, q[k])
             /\ tr[k].ok => tr[k].cat = After(tr[k - 1].cat, q[k])
  <2>1. k - 1 \in 0..n /\ q[k] \in Statement
    BY <1>1
  <2>2. tr[k - 1] \in Progress /\ tr[k] = Execute(tr[k - 1], q[k])
    BY <1>2, <2>1
  <2>3. QED
    BY <2>1, <2>2, ExecuteKeeps
<1> DEFINE T == {m \in 0..n : tr[n - m].ok}
<1>4. 0 \in T
  BY <1>1, <1>2 DEF Applies
<1>5. ASSUME NEW m \in 0..n, m \in T, m < n PROVE m + 1 \in T
  <2>1. n - m \in 1..n /\ (n - m) - 1 = n - (m + 1) /\ m + 1 \in 0..n
    BY <1>5
  <2>2. tr[n - m].ok => tr[(n - m) - 1].ok
    BY <1>3, <2>1
  <2>3. QED
    BY <1>5, <2>1, <2>2
<1>6. \A k \in 0..n : tr[k].ok
  <2> HIDE DEF T
  <2>1. 0..n \subseteq T
    BY <1>4, <1>5, CountingUp
  <2> USE DEF T
  <2>2. \A k \in 0..n : n - k \in 0..n /\ n - (n - k) = k
    OBVIOUS
  <2>3. QED
    BY <2>1, <2>2
<1> DEFINE db == [k \in 0..n |-> tr[k].cat]
<1>7. db[0] = cat /\ db[n] = Applied(cat, q)
  BY <1>1, <1>2 DEF Applied
<1>8. \A k \in 0..n : Coherent(db[k])
  BY <1>2 DEF Progress
<1>9. ASSUME NEW k \in 1..n PROVE ~Refused(db[k - 1], q[k]) /\ db[k] = After(db[k - 1], q[k])
  <2>1. k \in 0..n /\ k - 1 \in 0..n
    OBVIOUS
  <2>2. QED
    BY <1>3, <1>6, <2>1
<1> HIDE DEF db
<1>10. QED
  BY <1>1, <1>7, <1>8, <1>9

LEMMA OutcomeKeeps ==
  ASSUME NEW cat, Coherent(cat), NEW q \in Seq(Statement)
  PROVE  Outcome(cat, q) \in Progress
<1>1. PICK n \in Nat : n = Len(q)
  OBVIOUS
<1>2. PICK tr : /\ tr[0] = [ok |-> TRUE, cat |-> cat] /\ tr[Len(q)] = Outcome(cat, q)
                /\ \A k \in 0..Len(q) : tr[k] \in Progress
                /\ \A k \in 1..Len(q) : tr[k] = Execute(tr[k - 1], q[k])
  BY OutcomeTrace
<1>3. QED
  BY <1>1, <1>2

LEMMA ApplyKeeps ==
  ASSUME NEW a \in Progress, NEW f \in Files
  PROVE  /\ Apply(a, f) \in Progress
         /\ Apply(a, f).ok <=> a.ok /\ Applies(a.cat, f.stmts)
         /\ Apply(a, f).ok => Apply(a, f).cat = Applied(a.cat, f.stmts)
<1>1. f.stmts \in Seq(Statement) /\ a.ok \in BOOLEAN /\ Coherent(a.cat)
  BY FileAssumption DEF File, Progress
<1>2. Outcome(a.cat, f.stmts) \in Progress
  BY <1>1, OutcomeKeeps
<1>3. QED
  BY <1>1, <1>2 DEF Apply, Applies, Applied, Progress

\* A fresh deployment, file after file.
LEMMA ApplyTrace ==
  ASSUME NEW fs \in SUBSET Files, IsFiniteSet(fs)
  PROVE  \E tr : /\ tr[0] = [ok |-> TRUE, cat |-> EmptyCatalog] /\ tr[Len(InOrder(fs))] = Fresh(fs)
                 /\ \A k \in 0..Len(InOrder(fs)) : tr[k] \in Progress
                 /\ \A k \in 1..Len(InOrder(fs)) : tr[k] = Apply(tr[k - 1], InOrder(fs)[k])
<1> DEFINE b == [ok |-> TRUE, cat |-> EmptyCatalog]
           q == InOrder(fs)
<1>1. q \in Seq(Files)
  BY OrderOfFiles
<1>2. b \in Progress
  BY EmptySound DEF Progress, Coherent
<1>3. \A a \in Progress : \A s \in Files : Apply(a, s) \in Progress
  BY ApplyKeeps
<1>4. Fresh(fs) = FoldLeft(Apply, b, q)
  BY DEF Fresh
<1> HIDE DEF b, q
<1>5. PICK n \in Nat : n = Len(q) /\ DOMAIN q = 1..n /\ q \in [1..n -> Files]
  BY <1>1
<1> DEFINE IsFold(it) == it = [s \in SUBSET (1..n) |-> IF s = {} THEN b ELSE Apply(it[s \ {Max(s)}], q[Max(s)])]
           G == [p \in Progress \X Files |-> Apply(p[1], p[2])]
           it == CHOOSE it : IsFold(it)
<1>6. IsFold(it)
  <2>1. \A a \in Progress : \A s \in Files : G[<<a, s>>] = Apply(a, s)
    OBVIOUS
  <2>2. G \in [Progress \X Files -> Progress]
    <3>1. ASSUME NEW p \in Progress \X Files PROVE Apply(p[1], p[2]) \in Progress
      BY <1>3
    <3>2. QED
      BY <3>1
  <2> HIDE DEF G
  <2>3. PICK f \in [SUBSET (1..n) -> Progress] : Iterates(f, n, q, b, G)
    BY <1>1, <1>2, <1>5, <2>2, FoldExists
  <2>4. ASSUME NEW s \in SUBSET (1..n), s # {}
        PROVE  G[<<f[s \ {Max(s)}], q[Max(s)]>>] = Apply(f[s \ {Max(s)}], q[Max(s)])
    <3>1. Max(s) \in 1..n
      BY <2>4, MaxIsGreatest
    <3>2. f[s \ {Max(s)}] \in Progress
      BY <2>3
    <3>3. q[Max(s)] \in Files
      BY <1>5, <3>1
    <3>4. QED
      BY <2>1, <3>2, <3>3
  <2>5. IsFold(f)
    BY <2>3, <2>4 DEF Iterates
  <2>6. QED
    BY <2>5
<1>7. FoldLeft(Apply, b, q) = it[1..n]
  BY <1>5 DEF FoldLeft, MapThenFoldSet
<1> HIDE DEF it
<1> DEFINE tr == [k \in 0..n |-> it[1..k]]
<1>8. tr[0] = b
  BY <1>6
<1>9. ASSUME NEW k \in 1..n PROVE tr[k] = Apply(tr[k - 1], q[k])
  <2>1. 1..k \in SUBSET (1..n) /\ 1..k # {} /\ Max(1..k) = k /\ (1..k) \ {Max(1..k)} = 1..(k - 1)
    BY UpTo
  <2>2. it[1..k] = Apply(it[1..(k - 1)], q[k])
    BY <1>6, <2>1
  <2>3. k \in 0..n /\ k - 1 \in 0..n
    OBVIOUS
  <2>4. QED
    BY <2>2, <2>3
<1>10. tr[n] = Fresh(fs)
  BY <1>4, <1>7
<1> HIDE DEF IsFold, tr
<1> DEFINE T == {k \in 0..n : tr[k] \in Progress}
<1>11. 0 \in T
  BY <1>2, <1>8
<1>12. ASSUME NEW k \in 0..n, k \in T, k < n PROVE k + 1 \in T
  <2>1. k + 1 \in 1..n /\ (k + 1) - 1 = k /\ k + 1 \in 0..n
    BY <1>12
  <2>2. tr[k + 1] = Apply(tr[k], q[k + 1]) /\ q[k + 1] \in Files
    BY <1>5, <1>9, <2>1
  <2>3. QED
    BY <1>3, <1>12, <2>1, <2>2
<1>13. 0..n \subseteq T
  <2> HIDE DEF T
  <2>1. QED
    BY <1>11, <1>12, CountingUp
<1>14. QED
  BY <1>5, <1>8, <1>9, <1>10, <1>13 DEF b, q

LEMMA FreshTrace ==
  ASSUME NEW fs \in SUBSET Files, IsFiniteSet(fs), NEW n, n = Cardinality(fs)
  PROVE  \E tr : /\ tr[0] = [ok |-> TRUE, cat |-> EmptyCatalog] /\ tr[n] = Fresh(fs)
                 /\ \A k \in 0..n : tr[k] \in Progress
                 /\ \A k \in 1..n : tr[k] = Apply(tr[k - 1], InOrder(fs)[k])
<1>1. Len(InOrder(fs)) = n
  BY OrderOfFiles
<1>2. QED
  BY <1>1, ApplyTrace

LEMMA FreshKeeps ==
  ASSUME NEW fs \in SUBSET Files, IsFiniteSet(fs)
  PROVE  Fresh(fs) \in Progress
<1>1. Cardinality(fs) \in Nat
  BY FS_CardinalityType
<1>2. PICK tr : /\ tr[Cardinality(fs)] = Fresh(fs) /\ \A k \in 0..Cardinality(fs) : tr[k] \in Progress
  BY FreshTrace
<1>3. QED
  BY <1>1, <1>2

\* A fresh deployment that succeeds, file after file, and what it was like before each of them.
LEMMA FreshSteps ==
  ASSUME NEW fs \in SUBSET Files, IsFiniteSet(fs), Fresh(fs).ok
  PROVE  \E db : /\ db[0] = EmptyCatalog /\ db[Cardinality(fs)] = Fresh(fs).cat
                 /\ \A k \in 0..Cardinality(fs) : Coherent(db[k])
                 /\ \A k \in 1..Cardinality(fs) :
                      LET f == InOrder(fs)[k]
                      IN  /\ db[k - 1] = FreshBefore(fs, f).cat
                          /\ Applies(db[k - 1], f.stmts) /\ db[k] = Applied(db[k - 1], f.stmts)
<1> DEFINE n == Cardinality(fs)
           q == InOrder(fs)
<1>1. n \in Nat /\ q \in [1..n -> fs] /\ q \in Seq(fs) /\ Len(q) = n
  BY OrderOfFiles
<1>2. PICK tr : /\ tr[0] = [ok |-> TRUE, cat |-> EmptyCatalog] /\ tr[n] = Fresh(fs)
                /\ \A k \in 0..n : tr[k] \in Progress
                /\ \A k \in 1..n : tr[k] = Apply(tr[k - 1], q[k])
  BY FreshTrace
<1>3. ASSUME NEW k \in 1..n
      PROVE  /\ tr[k].ok <=> tr[k - 1].ok /\ Applies(tr[k - 1].cat, q[k].stmts)
             /\ tr[k].ok => tr[k].cat = Applied(tr[k - 1].cat, q[k].stmts)
  <2>1. k - 1 \in 0..n /\ q[k] \in Files
    BY <1>1
  <2>2. tr[k - 1] \in Progress /\ tr[k] = Apply(tr[k - 1], q[k])
    BY <1>2, <2>1
  <2> HIDE DEF q, n
  <2>3. QED
    BY <2>1, <2>2, ApplyKeeps
<1>4. \A k \in 0..n : tr[k].ok
  <2> DEFINE T == {m \in 0..n : tr[n - m].ok}
  <2>1. 0 \in T
    BY <1>1, <1>2
  <2>2. ASSUME NEW m \in 0..n, m \in T, m < n PROVE m + 1 \in T
    <3>1. n - m \in 1..n /\ (n - m) - 1 = n - (m + 1) /\ m + 1 \in 0..n
      BY <1>1, <2>2
    <3>2. tr[n - m].ok => tr[(n - m) - 1].ok
      BY <1>3, <3>1
    <3>3. QED
      BY <2>2, <3>1, <3>2
  <2>3. 0..n \subseteq T
    <3> HIDE DEF T, n
    <3>1. QED
      BY <1>1, <2>1, <2>2, CountingUp
  <2>4. \A k \in 0..n : n - k \in 0..n /\ n - (n - k) = k
    BY <1>1
  <2>5. QED
    BY <2>3, <2>4
<1>5. ASSUME NEW i \in 1..n PROVE tr[i - 1] = FreshBefore(fs, q[i])
  <2> DEFINE b == Before(fs, q[i])
             w == InOrder(b)
  <2>1. q[i] \in fs /\ i - 1 \in 0..n
    BY <1>1
  <2>2. b \in SUBSET Files /\ IsFiniteSet(b)
    BY <2>1, PlaceIsNat DEF Before
  <2>3. Len(w) = i - 1 /\ \A k \in 1..(i - 1) : w[k] = q[k]
    BY OrderBefore
  <2>4. Len(w) = Cardinality(b)
    BY <2>2, OrderOfFiles
  <2>5. PICK t : /\ t[0] = [ok |-> TRUE, cat |-> EmptyCatalog] /\ t[i - 1] = Fresh(b)
                 /\ \A k \in 0..(i - 1) : t[k] \in Progress
                 /\ \A k \in 1..(i - 1) : t[k] = Apply(t[k - 1], w[k])
    <3>1. b \in SUBSET Files /\ IsFiniteSet(b) /\ i - 1 = Cardinality(b)
      BY <2>2, <2>3, <2>4
    <3> HIDE DEF b, q, n
    <3>2. QED
      BY <3>1, FreshTrace
  <2> DEFINE T == {k \in 0..(i - 1) : t[k] = tr[k]}
  <2>6. 0 \in T
    BY <1>2, <2>1, <2>5
  <2>7. ASSUME NEW k \in 0..(i - 1), k \in T, k < i - 1 PROVE k + 1 \in T
    <3>1. k + 1 \in 1..(i - 1) /\ k + 1 \in 1..n /\ (k + 1) - 1 = k /\ k + 1 \in 0..(i - 1)
      BY <1>1, <2>1, <2>7
    <3>2. t[k + 1] = Apply(t[k], w[k + 1]) /\ tr[k + 1] = Apply(tr[k], q[k + 1]) /\ w[k + 1] = q[k + 1]
      BY <1>2, <2>3, <2>5, <3>1
    <3>3. QED
      BY <2>7, <3>1, <3>2
  <2>8. i - 1 \in T
    <3> HIDE DEF T
    <3>1. i - 1 \in Nat /\ i - 1 \in 0..(i - 1)
      BY <1>1
    <3>2. 0..(i - 1) \subseteq T
      BY <2>6, <2>7, <3>1, CountingUp
    <3>3. QED
      BY <3>1, <3>2
  <2>9. QED
    BY <2>5, <2>8 DEF FreshBefore
<1> DEFINE db == [k \in 0..n |-> tr[k].cat]
<1>6. db[0] = EmptyCatalog /\ db[n] = Fresh(fs).cat
  BY <1>1, <1>2
<1>7. \A k \in 0..n : Coherent(db[k])
  BY <1>2 DEF Progress
<1>8. ASSUME NEW k \in 1..n
      PROVE  /\ db[k - 1] = FreshBefore(fs, q[k]).cat
             /\ Applies(db[k - 1], q[k].stmts) /\ db[k] = Applied(db[k - 1], q[k].stmts)
  <2>1. k \in 0..n /\ k - 1 \in 0..n
    BY <1>1
  <2>2. QED
    BY <1>3, <1>4, <1>5, <2>1
<1> HIDE DEF db
<1>9. QED
  BY <1>6, <1>7, <1>8

-----------------------------------------------------------------------------
(* What replaying the files declares.                                      *)

Declarations == [rls: SUBSET Relations, policies: SUBSET (Relations \X PolicyNames)]

LEMMA DeclareKeeps ==
  ASSUME NEW d \in Declarations, NEW s \in Statement
  PROVE  Declare(d, s) \in Declarations
<1>1. s.table \in Relations /\ <<s.table, s.policy>> \in Relations \X PolicyNames
  BY StatementFields
<1>2. /\ d.rls \in SUBSET Relations /\ d.policies \in SUBSET (Relations \X PolicyNames)
      /\ d = [rls |-> d.rls, policies |-> d.policies]
  BY DEF Declarations
<1> DEFINE p == <<s.table, s.policy>>
<1> HIDE DEF p
<1>3. CASE s.kind = "create policy"
  <2>1. Declare(d, s) = [rls |-> d.rls, policies |-> d.policies \cup {p}]
    BY <1>2, <1>3 DEF Declare, p
  <2>2. QED
    BY <1>1, <1>2, <2>1 DEF Declarations, p
<1>4. CASE s.kind = "drop policy"
  <2>1. Declare(d, s) = [rls |-> d.rls, policies |-> d.policies \ {p}]
    BY <1>2, <1>4 DEF Declare, p
  <2>2. QED
    BY <1>2, <2>1 DEF Declarations
<1>5. CASE s.kind = "enable rls"
  BY <1>1, <1>2, <1>5 DEF Declare, Declarations
<1>6. CASE s.kind = "disable rls"
  BY <1>2, <1>6 DEF Declare, Declarations
<1>7. CASE s.kind \notin {"create policy", "drop policy", "enable rls", "disable rls"}
  BY <1>7 DEF Declare
<1>8. QED
  BY <1>3, <1>4, <1>5, <1>6, <1>7

LEMMA DeclareTrace ==
  ASSUME NEW d \in Declarations, NEW f \in Files
  PROVE  \E tr : /\ tr[0] = d /\ tr[Len(f.stmts)] = DeclareFile(d, f)
                 /\ \A k \in 0..Len(f.stmts) : tr[k] \in Declarations
                 /\ \A k \in 1..Len(f.stmts) : tr[k] = Declare(tr[k - 1], f.stmts[k])
<1> DEFINE b == d
           q == f.stmts
<1>1. q \in Seq(Statement)
  BY FileAssumption DEF File
<1>2. b \in Declarations
  OBVIOUS
<1>3. \A a \in Declarations : \A s \in Statement : Declare(a, s) \in Declarations
  BY DeclareKeeps
<1>4. DeclareFile(d, f) = FoldLeft(Declare, b, q)
  BY DEF DeclareFile
<1> HIDE DEF b, q
<1>5. PICK n \in Nat : n = Len(q) /\ DOMAIN q = 1..n /\ q \in [1..n -> Statement]
  BY <1>1
<1> DEFINE IsFold(it) == it = [s \in SUBSET (1..n) |-> IF s = {} THEN b ELSE Declare(it[s \ {Max(s)}], q[Max(s)])]
           G == [p \in Declarations \X Statement |-> Declare(p[1], p[2])]
           it == CHOOSE it : IsFold(it)
<1>6. IsFold(it)
  <2>1. \A a \in Declarations : \A s \in Statement : G[<<a, s>>] = Declare(a, s)
    OBVIOUS
  <2>2. G \in [Declarations \X Statement -> Declarations]
    <3>1. ASSUME NEW p \in Declarations \X Statement PROVE Declare(p[1], p[2]) \in Declarations
      BY <1>3
    <3>2. QED
      BY <3>1
  <2> HIDE DEF G
  <2>3. PICK g \in [SUBSET (1..n) -> Declarations] : Iterates(g, n, q, b, G)
    BY <1>1, <1>2, <1>5, <2>2, FoldExists
  <2>4. ASSUME NEW s \in SUBSET (1..n), s # {}
        PROVE  G[<<g[s \ {Max(s)}], q[Max(s)]>>] = Declare(g[s \ {Max(s)}], q[Max(s)])
    <3>1. Max(s) \in 1..n
      BY <2>4, MaxIsGreatest
    <3>2. g[s \ {Max(s)}] \in Declarations
      BY <2>3
    <3>3. q[Max(s)] \in Statement
      BY <1>5, <3>1
    <3>4. QED
      BY <2>1, <3>2, <3>3
  <2>5. IsFold(g)
    BY <2>3, <2>4 DEF Iterates
  <2>6. QED
    BY <2>5
<1>7. FoldLeft(Declare, b, q) = it[1..n]
  BY <1>5 DEF FoldLeft, MapThenFoldSet
<1> HIDE DEF it
<1> DEFINE tr == [k \in 0..n |-> it[1..k]]
<1>8. tr[0] = b
  BY <1>6
<1>9. ASSUME NEW k \in 1..n PROVE tr[k] = Declare(tr[k - 1], q[k])
  <2>1. 1..k \in SUBSET (1..n) /\ 1..k # {} /\ Max(1..k) = k /\ (1..k) \ {Max(1..k)} = 1..(k - 1)
    BY UpTo
  <2>2. it[1..k] = Declare(it[1..(k - 1)], q[k])
    BY <1>6, <2>1
  <2>3. k \in 0..n /\ k - 1 \in 0..n
    OBVIOUS
  <2>4. QED
    BY <2>2, <2>3
<1>10. tr[n] = DeclareFile(d, f)
  BY <1>4, <1>7
<1> HIDE DEF IsFold, tr
<1> DEFINE T == {k \in 0..n : tr[k] \in Declarations}
<1>11. 0 \in T
  BY <1>2, <1>8
<1>12. ASSUME NEW k \in 0..n, k \in T, k < n PROVE k + 1 \in T
  <2>1. k + 1 \in 1..n /\ (k + 1) - 1 = k /\ k + 1 \in 0..n
    BY <1>12
  <2>2. tr[k + 1] = Declare(tr[k], q[k + 1]) /\ q[k + 1] \in Statement
    BY <1>5, <1>9, <2>1
  <2>3. QED
    BY <1>3, <1>12, <2>1, <2>2
<1>13. 0..n \subseteq T
  <2> HIDE DEF T
  <2>1. QED
    BY <1>11, <1>12, CountingUp
<1>14. QED
  BY <1>5, <1>8, <1>9, <1>10, <1>13 DEF b, q

LEMMA DeclareFileKeeps ==
  ASSUME NEW d \in Declarations, NEW f \in Files
  PROVE  DeclareFile(d, f) \in Declarations
<1>1. f.stmts \in Seq(Statement)
  BY FileAssumption DEF File
<1>2. PICK n \in Nat : n = Len(f.stmts)
  BY <1>1
<1>3. PICK tr : tr[Len(f.stmts)] = DeclareFile(d, f) /\ \A k \in 0..Len(f.stmts) : tr[k] \in Declarations
  BY DeclareTrace
<1>4. QED
  BY <1>2, <1>3

LEMMA DeclaredTrace ==
  ASSUME NEW fs \in Seq(Files)
  PROVE  \E tr : /\ tr[0] = Nothing /\ tr[Len(fs)] = DeclaredBy(fs)
                 /\ \A k \in 0..Len(fs) : tr[k] \in Declarations
                 /\ \A k \in 1..Len(fs) : tr[k] = DeclareFile(tr[k - 1], fs[k])
<1> DEFINE b == Nothing
           q == fs
<1>1. q \in Seq(Files)
  OBVIOUS
<1>2. b \in Declarations
  BY DEF Nothing, Declarations
<1>3. \A a \in Declarations : \A s \in Files : DeclareFile(a, s) \in Declarations
  BY DeclareFileKeeps
<1>4. DeclaredBy(fs) = FoldLeft(DeclareFile, b, q)
  BY DEF DeclaredBy
<1> HIDE DEF b, q
<1>5. PICK n \in Nat : n = Len(q) /\ DOMAIN q = 1..n /\ q \in [1..n -> Files]
  BY <1>1
<1> DEFINE IsFold(it) == it = [s \in SUBSET (1..n) |-> IF s = {} THEN b ELSE DeclareFile(it[s \ {Max(s)}], q[Max(s)])]
           G == [p \in Declarations \X Files |-> DeclareFile(p[1], p[2])]
           it == CHOOSE it : IsFold(it)
<1>6. IsFold(it)
  <2>1. \A a \in Declarations : \A s \in Files : G[<<a, s>>] = DeclareFile(a, s)
    OBVIOUS
  <2>2. G \in [Declarations \X Files -> Declarations]
    <3>1. ASSUME NEW p \in Declarations \X Files PROVE DeclareFile(p[1], p[2]) \in Declarations
      BY <1>3
    <3>2. QED
      BY <3>1
  <2> HIDE DEF G
  <2>3. PICK f \in [SUBSET (1..n) -> Declarations] : Iterates(f, n, q, b, G)
    BY <1>1, <1>2, <1>5, <2>2, FoldExists
  <2>4. ASSUME NEW s \in SUBSET (1..n), s # {}
        PROVE  G[<<f[s \ {Max(s)}], q[Max(s)]>>] = DeclareFile(f[s \ {Max(s)}], q[Max(s)])
    <3>1. Max(s) \in 1..n
      BY <2>4, MaxIsGreatest
    <3>2. f[s \ {Max(s)}] \in Declarations
      BY <2>3
    <3>3. q[Max(s)] \in Files
      BY <1>5, <3>1
    <3>4. QED
      BY <2>1, <3>2, <3>3
  <2>5. IsFold(f)
    BY <2>3, <2>4 DEF Iterates
  <2>6. QED
    BY <2>5
<1>7. FoldLeft(DeclareFile, b, q) = it[1..n]
  BY <1>5 DEF FoldLeft, MapThenFoldSet
<1> HIDE DEF it
<1> DEFINE tr == [k \in 0..n |-> it[1..k]]
<1>8. tr[0] = b
  BY <1>6
<1>9. ASSUME NEW k \in 1..n PROVE tr[k] = DeclareFile(tr[k - 1], q[k])
  <2>1. 1..k \in SUBSET (1..n) /\ 1..k # {} /\ Max(1..k) = k /\ (1..k) \ {Max(1..k)} = 1..(k - 1)
    BY UpTo
  <2>2. it[1..k] = DeclareFile(it[1..(k - 1)], q[k])
    BY <1>6, <2>1
  <2>3. k \in 0..n /\ k - 1 \in 0..n
    OBVIOUS
  <2>4. QED
    BY <2>2, <2>3
<1>10. tr[n] = DeclaredBy(fs)
  BY <1>4, <1>7
<1> HIDE DEF IsFold, tr
<1> DEFINE T == {k \in 0..n : tr[k] \in Declarations}
<1>11. 0 \in T
  BY <1>2, <1>8
<1>12. ASSUME NEW k \in 0..n, k \in T, k < n PROVE k + 1 \in T
  <2>1. k + 1 \in 1..n /\ (k + 1) - 1 = k /\ k + 1 \in 0..n
    BY <1>12
  <2>2. tr[k + 1] = DeclareFile(tr[k], q[k + 1]) /\ q[k + 1] \in Files
    BY <1>5, <1>9, <2>1
  <2>3. QED
    BY <1>3, <1>12, <2>1, <2>2
<1>13. 0..n \subseteq T
  <2> HIDE DEF T
  <2>1. QED
    BY <1>11, <1>12, CountingUp
<1>14. QED
  BY <1>5, <1>8, <1>9, <1>10, <1>13 DEF b, q

-----------------------------------------------------------------------------
(* Types.                                                                  *)

HistoryInv ==
  /\ repo \in SUBSET Files /\ IsFiniteSet(repo)
  /\ deployed \in Seq(Files) /\ ToSet(deployed) \subseteq repo
  /\ \A j, k \in 1..Len(deployed) : deployed[j] = deployed[k] => j = k
  /\ Coherent(live) /\ edits \in Seq(HandEdits)
  /\ check \in {"idle", "skipped", "policies", "rls", "done"}
  /\ read \subseteq repo /\ (check \in {"policies", "rls", "done"} => read # {})
  /\ seen \in Declarations /\ asOf \in [policies: Seq(Files), rls: Seq(Files)]

LEMMA HistoryInvInit ==
  ASSUME HistoryInit
  PROVE  HistoryInv
<1>1. repo \in SUBSET Files /\ IsFiniteSet(repo)
  BY FS_EmptySet DEF HistoryInit
<1>2. deployed \in Seq(Files) /\ ToSet(deployed) \subseteq repo /\ Len(deployed) = 0
  BY DEF HistoryInit, ToSet
<1>3. Coherent(live)
  BY EmptySound DEF HistoryInit
<1>4. seen \in Declarations /\ asOf \in [policies: Seq(Files), rls: Seq(Files)]
  BY DEF HistoryInit, Nothing, Declarations, Unasked
<1>5. edits \in Seq(HandEdits) /\ check = "idle" /\ read = {}
  BY DEF HistoryInit
<1>6. QED
  BY <1>1, <1>2, <1>3, <1>4, <1>5 DEF HistoryInv

\* The file a deployment applies.
LEMMA DeployStep ==
  ASSUME HistoryInv, Deploy
  PROVE  \E f \in repo \ ToSet(deployed) :
           /\ f \in Files /\ f.stmts \in Seq(Statement) /\ Applies(live, f.stmts)
           /\ live' = Applied(live, f.stmts) /\ Coherent(live') /\ deployed' = Append(deployed, f)
<1>1. Pending \in SUBSET Files /\ IsFiniteSet(Pending) /\ Pending # {}
  <2>1. Pending \in SUBSET repo
    BY DEF Pending
  <2>2. QED
    BY <2>1, FS_Subset DEF HistoryInv, Deploy
<1> DEFINE f == Head(InOrder(Pending))
<1>2. f \in Pending
  <2>1. Cardinality(Pending) \in Nat /\ Cardinality(Pending) # 0
    BY <1>1, FS_CardinalityType, FS_EmptySet
  <2>2. InOrder(Pending) \in Seq(Pending) /\ Len(InOrder(Pending)) = Cardinality(Pending)
    BY <1>1, OrderOfFiles
  <2>3. QED
    BY <2>1, <2>2
<1>3. Applies(live, f.stmts) /\ live' = Applied(live, f.stmts) /\ deployed' = Append(deployed, f)
  BY DEF Deploy
<1> HIDE DEF f
<1>4. f \in repo \ ToSet(deployed) /\ f \in Files /\ f.stmts \in Seq(Statement)
  BY <1>1, <1>2, FileAssumption DEF Pending, File
<1>5. Coherent(live')
  <2>1. Coherent(live)
    BY DEF HistoryInv
  <2>2. Outcome(live, f.stmts) \in Progress
    BY <1>4, <2>1, OutcomeKeeps
  <2>3. QED
    BY <1>3, <2>2 DEF Applied, Progress
<1>6. QED
  BY <1>3, <1>4, <1>5

LEMMA HandEditStep ==
  ASSUME HistoryInv, HandEdit
  PROVE  Coherent(live') /\ edits' \in Seq(HandEdits) /\ edits' # <<>>
<1>1. PICK s \in HandEdits : ~Refused(live, s) /\ live' = After(live, s) /\ edits' = Append(edits, s)
  BY DEF HandEdit
<1>2. s \in Statement /\ Coherent(live) /\ edits \in Seq(HandEdits)
  BY HistoryAssumption DEF HistoryInv
<1>3. Coherent(live')
  BY <1>1, <1>2, AfterSound
<1>4. QED
  BY <1>1, <1>2, <1>3

LEMMA HistoryInvNext ==
  ASSUME HistoryInv, [HistoryNext]_history
  PROVE  HistoryInv'
<1>1. CASE Merge
  <2>1. PICK project \in Projects : \E f \in project \ repo : repo' = repo \cup {f}
    BY <1>1 DEF Merge
  <2>2. PICK f \in project \ repo : repo' = repo \cup {f}
    BY <2>1
  <2>3. repo' \in SUBSET Files /\ IsFiniteSet(repo') /\ repo \subseteq repo'
    BY <2>2, HistoryAssumption, FS_AddElement DEF HistoryInv
  <2>4. UNCHANGED <<deployed, live, edits, check, read, seen, asOf>>
    BY <1>1 DEF Merge, database, drift
  <2>5. QED
    BY <2>3, <2>4 DEF HistoryInv, ToSet
<1>2. CASE Deploy
  <2>1. PICK f \in repo \ ToSet(deployed) :
           /\ f \in Files /\ Coherent(live') /\ deployed' = Append(deployed, f)
    BY <1>2, DeployStep
  <2>2. UNCHANGED <<repo, edits, check, read, seen, asOf>>
    BY <1>2 DEF Deploy, drift
  <2>3. PICK n \in Nat : n = Len(deployed) /\ deployed \in [1..n -> Files] /\ ToSet(deployed) \subseteq repo
    BY DEF HistoryInv
  <2>4. /\ deployed' \in Seq(Files) /\ Len(deployed') = n + 1 /\ DOMAIN deployed' = 1..(n + 1)
        /\ deployed'[n + 1] = f /\ \A k \in 1..n : deployed'[k] = deployed[k]
    BY <2>1, <2>3
  <2>5. ToSet(deployed') \subseteq repo
    <3>1. \A k \in 1..(n + 1) : deployed'[k] = f \/ (k \in 1..n /\ deployed'[k] = deployed[k])
      BY <2>4
    <3>2. \A k \in 1..n : deployed[k] \in repo
      BY <2>3 DEF ToSet
    <3>3. QED
      BY <2>1, <2>4, <3>1, <3>2 DEF ToSet
  <2>6. ASSUME NEW j \in 1..(n + 1), NEW k \in 1..(n + 1), deployed'[j] = deployed'[k] PROVE j = k
    <3>1. \A i \in 1..n : deployed[i] # f
      BY <2>1, <2>3 DEF ToSet
    <3>2. (j = n + 1 \/ j \in 1..n) /\ (k = n + 1 \/ k \in 1..n)
      OBVIOUS
    <3>3. \A l, m \in 1..n : deployed[l] = deployed[m] => l = m
      BY <2>3 DEF HistoryInv
    <3>4. QED
      BY <2>4, <2>6, <3>1, <3>2, <3>3
  <2>7. QED
    BY <2>1, <2>2, <2>4, <2>5, <2>6 DEF HistoryInv
<1>3. CASE HandEdit
  <2>1. Coherent(live') /\ edits' \in Seq(HandEdits)
    BY <1>3, HandEditStep
  <2>2. UNCHANGED <<repo, deployed, check, read, seen, asOf>>
    BY <1>3 DEF HandEdit, drift
  <2>3. QED
    BY <2>1, <2>2 DEF HistoryInv, ToSet
<1>4. CASE SkipDrift
  BY <1>4 DEF SkipDrift, HistoryInv, database, ToSet
<1>5. CASE ReadFiles
  BY <1>5 DEF ReadFiles, HistoryInv, database, ToSet
<1>6. CASE QueryPolicies
  <2>1. seen' \in Declarations /\ asOf' \in [policies: Seq(Files), rls: Seq(Files)]
    <3>1. live.policies \in SUBSET (Relations \X PolicyNames) /\ seen \in Declarations
          /\ asOf \in [policies: Seq(Files), rls: Seq(Files)] /\ deployed \in Seq(Files)
      BY DEF HistoryInv, Coherent, Catalogs
    <3>2. seen' = [seen EXCEPT !.policies = live.policies] /\ asOf' = [asOf EXCEPT !.policies = deployed]
      BY <1>6 DEF QueryPolicies
    <3>3. seen' \in Declarations
      BY <3>1, <3>2 DEF Declarations
    <3>4. asOf' \in [policies: Seq(Files), rls: Seq(Files)]
      BY <3>1, <3>2
    <3>5. QED
      BY <3>3, <3>4
  <2>2. UNCHANGED <<repo, deployed, live, edits, read>> /\ check = "policies" /\ check' = "rls"
    BY <1>6 DEF QueryPolicies, database
  <2>3. QED
    BY <2>1, <2>2 DEF HistoryInv, ToSet
<1>7. CASE QueryRls
  <2>1. seen' \in Declarations /\ asOf' \in [policies: Seq(Files), rls: Seq(Files)]
    <3>1. live.rls \in SUBSET Relations /\ seen \in Declarations
          /\ asOf \in [policies: Seq(Files), rls: Seq(Files)] /\ deployed \in Seq(Files)
      BY DEF HistoryInv, Coherent, Catalogs
    <3>2. seen' = [seen EXCEPT !.rls = live.rls] /\ asOf' = [asOf EXCEPT !.rls = deployed]
      BY <1>7 DEF QueryRls
    <3>3. seen' \in Declarations
      BY <3>1, <3>2 DEF Declarations
    <3>4. asOf' \in [policies: Seq(Files), rls: Seq(Files)]
      BY <3>1, <3>2
    <3>5. QED
      BY <3>3, <3>4
  <2>2. UNCHANGED <<repo, deployed, live, edits, read>> /\ check = "rls" /\ check' = "done"
    BY <1>7 DEF QueryRls, database
  <2>3. QED
    BY <2>1, <2>2 DEF HistoryInv, ToSet
<1>8. CASE Again
  <2>1. seen' \in Declarations /\ asOf' \in [policies: Seq(Files), rls: Seq(Files)]
    BY <1>8 DEF Again, Nothing, Declarations, Unasked
  <2>2. UNCHANGED <<repo, deployed, live, edits>> /\ check' = "idle" /\ read' = {}
    BY <1>8 DEF Again, database
  <2>3. QED
    BY <2>1, <2>2 DEF HistoryInv, ToSet
<1>9. CASE UNCHANGED history
  BY <1>9 DEF history, database, drift, HistoryInv, ToSet
<1>10. QED
  BY <1>1, <1>2, <1>3, <1>4, <1>5, <1>6, <1>7, <1>8, <1>9 DEF HistoryNext

LEMMA HistoryInvHolds == HistorySpec => []HistoryInv
<1>1. QED
  BY HistoryInvInit, HistoryInvNext, PTL DEF HistorySpec

\* A migration is deployed once, what is deployed is in the repository, flags and policies are of
\* tables there are, and rls-drift never compares the database with an empty set of files.
THEOREM HistoryTyped == HistorySpec => []HistoryTypeOK
<1>1. HistoryInv => HistoryTypeOK
  BY DEF HistoryInv, HistoryTypeOK, Coherent
<1>2. QED
  BY <1>1, HistoryInvHolds, PTL

-----------------------------------------------------------------------------
(* rls-drift: what the files declare, and the database they are applied to. *)

\* What cat has, d declares, except of the tables in renamed.
PoliciesExplained(d, policies, renamed) == \A p \in policies : p \in d.policies \/ p[1] \in renamed
RlsExplained(d, rls, renamed) == \A t \in rls : t \in d.rls \/ t \in renamed
Explained(d, cat, renamed) ==
  PoliciesExplained(d, cat.policies, renamed) /\ RlsExplained(d, cat.rls, renamed)

LEMMA StatementExplained ==
  ASSUME NEW cat, Coherent(cat), NEW d \in Declarations, NEW renamed, NEW s \in Statement, ~Refused(cat, s),
         s.kind = "rename table" => s.to \in renamed, Explained(d, cat, renamed)
  PROVE  Explained(Declare(d, s), After(cat, s), renamed)
<1> USE DEF Explained, PoliciesExplained, RlsExplained
<1>1. cat \in Catalogs /\ d \in Declarations /\ s.kind \in Kinds
  BY StatementFields DEF Coherent
<1>2. CASE s.kind \notin {"create policy", "drop policy", "enable rls", "disable rls", "drop table", "rename table"}
  <2>1. Declare(d, s) = d
    BY <1>2 DEF Declare
  <2>2. After(cat, s).policies = cat.policies /\ After(cat, s).rls = cat.rls
    BY <1>1, <1>2 DEF After, Catalogs, Kinds, Define, DefineView
  <2>3. QED
    BY <2>1, <2>2
<1>3. CASE s.kind = "create policy"
  <2>1. /\ After(cat, s).policies = cat.policies \cup {<<s.table, s.policy>>} /\ After(cat, s).rls = cat.rls
    BY <1>1, <1>3 DEF After, Catalogs
  <2>2. /\ Declare(d, s).policies = d.policies \cup {<<s.table, s.policy>>} /\ Declare(d, s).rls = d.rls
    BY <1>1, <1>3 DEF Declare, Declarations
  <2>3. QED
    BY <2>1, <2>2
<1>4. CASE s.kind = "drop policy"
  <2>1. /\ After(cat, s).policies = cat.policies \ {<<s.table, s.policy>>} /\ After(cat, s).rls = cat.rls
    BY <1>1, <1>4 DEF After, Catalogs
  <2>2. /\ Declare(d, s).policies = d.policies \ {<<s.table, s.policy>>} /\ Declare(d, s).rls = d.rls
    BY <1>1, <1>4 DEF Declare, Declarations
  <2>3. QED
    BY <2>1, <2>2
<1>5. CASE s.kind = "enable rls"
  <2>1. /\ After(cat, s).policies = cat.policies /\ After(cat, s).rls = cat.rls \cup ({s.table} \cap cat.tables)
    BY <1>1, <1>5 DEF After, Catalogs
  <2>2. /\ Declare(d, s).policies = d.policies /\ Declare(d, s).rls = d.rls \cup {s.table}
    BY <1>1, <1>5 DEF Declare, Declarations
  <2>3. QED
    BY <2>1, <2>2
<1>6. CASE s.kind = "disable rls"
  <2>1. /\ After(cat, s).policies = cat.policies /\ After(cat, s).rls = cat.rls \ {s.table}
    BY <1>1, <1>6 DEF After, Catalogs
  <2>2. /\ Declare(d, s).policies = d.policies /\ Declare(d, s).rls = d.rls \ {s.table}
    BY <1>1, <1>6 DEF Declare, Declarations
  <2>3. QED
    BY <2>1, <2>2
<1>7. CASE s.kind = "drop table"
  <2>1. After(cat, s).policies \subseteq cat.policies /\ After(cat, s).rls \subseteq cat.rls
    BY <1>1, <1>7 DEF After, Catalogs
  <2>2. Declare(d, s) = d
    BY <1>7 DEF Declare
  <2>3. QED
    BY <2>1, <2>2
<1>8. CASE s.kind = "rename table"
  <2>1. Declare(d, s) = d
    BY <1>8 DEF Declare
  <2>2. CASE s.table \notin cat.tables
    BY <1>8, <2>1, <2>2 DEF After
  <2>3. CASE s.table \in cat.tables
    <3> DEFINE moved == {<<s.to, p[2]>> : p \in PoliciesOf(cat, s.table)}
    <3>1. /\ After(cat, s).policies = (cat.policies \ PoliciesOf(cat, s.table)) \cup moved
          /\ After(cat, s).rls \subseteq cat.rls \cup {s.to}
      BY <1>1, <1>8, <2>3 DEF After, Rename, Catalogs
    <3>2. \A p \in moved : p[1] = s.to
      <4>1. ASSUME NEW p \in PoliciesOf(cat, s.table) PROVE <<s.to, p[2]>>[1] = s.to
        OBVIOUS
      <4>2. QED
        BY <4>1
    <3> HIDE DEF moved
    <3>3. s.to \in renamed
      BY <1>8
    <3>4. QED
      BY <2>1, <3>1, <3>2, <3>3
  <2>4. QED
    BY <2>2, <2>3
<1>9. QED
  BY <1>2, <1>3, <1>4, <1>5, <1>6, <1>7, <1>8

Moves(q) == {s \in ToSet(q) : s.kind = "rename table"}

LEMMA FileExplained ==
  ASSUME NEW cat, Coherent(cat), NEW d \in Declarations, NEW renamed, NEW f \in Files, NEW q, q = f.stmts,
         Applies(cat, q), \A s \in Moves(q) : s.to \in renamed,
         Explained(d, cat, renamed)
  PROVE  Explained(DeclareFile(d, f), Applied(cat, q), renamed)
<1>1. q \in Seq(Statement)
  BY FileAssumption DEF File
<1>2. \A s \in Moves(q) : s.to \in renamed
  OBVIOUS
<1>3. PICK dec : /\ dec[0] = d /\ dec[Len(q)] = DeclareFile(d, f)
                 /\ \A k \in 0..Len(q) : dec[k] \in Declarations
                 /\ \A k \in 1..Len(q) : dec[k] = Declare(dec[k - 1], q[k])
  BY DeclareTrace
<1>5. PICK db : /\ db[0] = cat /\ db[Len(q)] = Applied(cat, q)
                /\ \A k \in 0..Len(q) : Coherent(db[k])
                /\ \A k \in 1..Len(q) : ~Refused(db[k - 1], q[k]) /\ db[k] = After(db[k - 1], q[k])
  BY <1>1, <1>2, AppliedTrace
<1>6. PICK n \in Nat : n = Len(q) /\ q \in [1..n -> Statement]
  BY <1>1
<1> DEFINE T == {k \in 0..n : Explained(dec[k], db[k], renamed)}
<1>7. 0 \in T
  BY <1>3, <1>5
<1>8. ASSUME NEW k \in 0..n, k \in T, k < n PROVE k + 1 \in T
  <2>1. k + 1 \in 1..n /\ (k + 1) - 1 = k /\ k + 1 \in 0..n
    BY <1>8
  <2>2. /\ dec[k + 1] = Declare(dec[k], q[k + 1]) /\ dec[k] \in Declarations
        /\ db[k + 1] = After(db[k], q[k + 1]) /\ ~Refused(db[k], q[k + 1]) /\ Coherent(db[k])
        /\ q[k + 1] \in Statement /\ q[k + 1] \in ToSet(q)
    BY <1>3, <1>5, <1>6, <2>1 DEF ToSet
  <2>3. Explained(dec[k], db[k], renamed)
    BY <1>8
  <2>5. q[k + 1].kind = "rename table" => q[k + 1].to \in renamed
    <3>1. q[k + 1].kind = "rename table" => q[k + 1] \in Moves(q)
      BY <2>2 DEF Moves
    <3>2. QED
      BY <1>2, <3>1
  <2>4. Explained(dec[k + 1], db[k + 1], renamed)
    BY <2>2, <2>3, <2>5, StatementExplained
  <2>6. QED
    BY <2>1, <2>4
<1>9. n \in T
  <2> HIDE DEF T
  <2>1. 0..n \subseteq T
    BY <1>7, <1>8, CountingUp
  <2>2. n \in 0..n
    OBVIOUS
  <2>3. QED
    BY <2>1, <2>2
<1>10. QED
  BY <1>3, <1>5, <1>6, <1>9

LEMMA DeclaredKeeps ==
  ASSUME NEW fs \in Seq(Files)
  PROVE  DeclaredBy(fs) \in Declarations
<1>1. PICK n \in Nat : n = Len(fs)
  OBVIOUS
<1>2. PICK tr : /\ tr[0] = Nothing /\ tr[Len(fs)] = DeclaredBy(fs)
                /\ \A k \in 0..Len(fs) : tr[k] \in Declarations
                /\ \A k \in 1..Len(fs) : tr[k] = DeclareFile(tr[k - 1], fs[k])
  BY DeclaredTrace
<1>3. QED
  BY <1>1, <1>2

LEMMA DeclaredAppend ==
  ASSUME NEW fs \in Seq(Files), NEW f \in Files
  PROVE  DeclaredBy(Append(fs, f)) = DeclareFile(DeclaredBy(fs), f)
<1> DEFINE gs == Append(fs, f)
<1>1. gs \in Seq(Files)
  OBVIOUS
<1>2. PICK n \in Nat : n = Len(fs) /\ Len(gs) = n + 1 /\ gs[n + 1] = f /\ \A k \in 1..n : gs[k] = fs[k]
  OBVIOUS
<1>3. PICK tr : /\ tr[0] = Nothing /\ tr[Len(fs)] = DeclaredBy(fs)
                /\ \A k \in 0..Len(fs) : tr[k] \in Declarations
                /\ \A k \in 1..Len(fs) : tr[k] = DeclareFile(tr[k - 1], fs[k])
  BY DeclaredTrace
<1> HIDE DEF gs
<1>4. PICK t : /\ t[0] = Nothing /\ t[Len(gs)] = DeclaredBy(gs)
               /\ \A k \in 0..Len(gs) : t[k] \in Declarations
               /\ \A k \in 1..Len(gs) : t[k] = DeclareFile(t[k - 1], gs[k])
  BY <1>1, DeclaredTrace
<1> DEFINE T == {k \in 0..n : t[k] = tr[k]}
<1>5. 0 \in T
  BY <1>3, <1>4
<1>6. ASSUME NEW k \in 0..n, k \in T, k < n PROVE k + 1 \in T
  <2>1. k + 1 \in 1..n /\ k + 1 \in 1..(n + 1) /\ (k + 1) - 1 = k /\ k + 1 \in 0..n
    BY <1>6
  <2>2. t[k + 1] = DeclareFile(t[k], gs[k + 1]) /\ tr[k + 1] = DeclareFile(tr[k], fs[k + 1]) /\ gs[k + 1] = fs[k + 1]
    BY <1>2, <1>3, <1>4, <2>1
  <2>3. QED
    BY <1>6, <2>1, <2>2
<1>7. n \in T
  <2> HIDE DEF T
  <2>1. 0..n \subseteq T
    BY <1>5, <1>6, CountingUp
  <2>2. QED
    BY <2>1
<1>8. t[n + 1] = DeclareFile(t[n], f)
  <2>1. n + 1 \in 1..(n + 1) /\ (n + 1) - 1 = n
    OBVIOUS
  <2>2. QED
    BY <1>2, <1>4, <2>1
<1>9. QED
  BY <1>2, <1>3, <1>4, <1>7, <1>8 DEF gs

-----------------------------------------------------------------------------
(* rls-drift accuses nobody.                                               *)

LEMMA RenamedBy ==
  ASSUME NEW fs \in SUBSET Files, NEW f \in fs
  PROVE  \A s \in Moves(f.stmts) : s.to \in Renamed(fs)
<1>1. \A s \in Moves(f.stmts) : s \in OfKind(fs, {"rename table"})
  BY DEF Moves, OfKind
<1>2. QED
  BY <1>1 DEF Renamed

LEMMA RenamedMore ==
  ASSUME NEW fs, NEW gs, fs \subseteq gs
  PROVE  Renamed(fs) \subseteq Renamed(gs)
<1>1. OfKind(fs, {"rename table"}) \subseteq OfKind(gs, {"rename table"})
  BY DEF OfKind
<1>2. QED
  BY <1>1 DEF Renamed

\* What was deployed explains the database, as long as nobody touches it by hand.
ExplainedInv == edits = <<>> => Explained(DeclaredBy(deployed), live, Renamed(ToSet(deployed)))

\* What the queries returned is what was there when they ran, and the report is of that.
SeenPolicies ==
  check \in {"rls", "done"} =>
    PoliciesExplained(DeclaredBy(asOf.policies), seen.policies, Renamed(ToSet(asOf.policies)))
SeenRls ==
  check = "done" => RlsExplained(DeclaredBy(asOf.rls), seen.rls, Renamed(ToSet(asOf.rls)))
DriftReported == check = "done" => report = DiffState(ParseDeclaredState(read), seen)

DriftInv == /\ HistoryInv /\ ExplainedInv /\ DriftReported
            /\ edits = <<>> => SeenPolicies /\ SeenRls

LEMMA ExplainedDeploy ==
  ASSUME HistoryInv, ExplainedInv, Deploy
  PROVE  ExplainedInv'
<1>1. PICK f \in repo \ ToSet(deployed) :
           /\ f \in Files /\ f.stmts \in Seq(Statement) /\ Applies(live, f.stmts)
           /\ live' = Applied(live, f.stmts) /\ Coherent(live') /\ deployed' = Append(deployed, f)
  BY DeployStep
<1>2. edits' = edits /\ deployed \in Seq(Files) /\ Coherent(live)
  BY DEF Deploy, HistoryInv
<1>3. SUFFICES ASSUME edits = <<>> PROVE ExplainedInv'
  BY <1>2 DEF ExplainedInv
<1> DEFINE old == Renamed(ToSet(deployed))
           new == Renamed(ToSet(deployed'))
<1>4. deployed' \in Seq(Files) /\ ToSet(deployed') \in SUBSET Files /\ f \in ToSet(deployed') /\ ToSet(deployed) \subseteq ToSet(deployed')
  <2>1. PICK n \in Nat : n = Len(deployed) /\ deployed \in [1..n -> Files]
    BY <1>2
  <2>2. /\ deployed' \in Seq(Files) /\ Len(deployed') = n + 1 /\ DOMAIN deployed' = 1..(n + 1)
        /\ deployed'[n + 1] = f /\ \A k \in 1..n : deployed'[k] = deployed[k]
    BY <1>1, <2>1
  <2>3. f \in ToSet(deployed')
    <3>1. n + 1 \in DOMAIN deployed'
      BY <2>2
    <3>2. QED
      BY <2>2, <3>1 DEF ToSet
  <2>4. \A k \in 1..n : k \in 1..(n + 1) /\ deployed[k] = deployed'[k]
    BY <2>2
  <2>5. ToSet(deployed) \subseteq ToSet(deployed')
    BY <2>1, <2>2, <2>4 DEF ToSet
  <2>6. ToSet(deployed') \in SUBSET Files
    <3>1. \A k \in 1..(n + 1) : deployed'[k] \in Files
      BY <2>2
    <3>2. QED
      BY <2>2, <3>1 DEF ToSet
  <2>7. QED
    BY <2>2, <2>3, <2>5, <2>6
<1>5. old \subseteq new /\ \A s \in Moves(f.stmts) : s.to \in new
  BY <1>4, RenamedMore, RenamedBy
<1>6. Explained(DeclaredBy(deployed), live, new)
  <2>1. Explained(DeclaredBy(deployed), live, old)
    BY <1>3 DEF ExplainedInv
  <2> HIDE DEF old, new
  <2>2. QED
    BY <1>5, <2>1 DEF Explained, PoliciesExplained, RlsExplained
<1>7. DeclaredBy(deployed') = DeclareFile(DeclaredBy(deployed), f) /\ DeclaredBy(deployed) \in Declarations
  BY <1>1, <1>2, DeclaredAppend, DeclaredKeeps
<1>8. Explained(DeclareFile(DeclaredBy(deployed), f), Applied(live, f.stmts), new)
  <2> HIDE DEF new
  <2>1. QED
    BY <1>1, <1>2, <1>5, <1>6, <1>7, FileExplained
<1>9. QED
  BY <1>1, <1>7, <1>8 DEF ExplainedInv

LEMMA DriftInvInit ==
  ASSUME HistoryInit
  PROVE  DriftInv
<1>1. HistoryInv
  BY HistoryInvInit
<1>2. Explained(DeclaredBy(deployed), live, Renamed(ToSet(deployed)))
  <2>1. live.policies = {} /\ live.rls = {}
    BY DEF HistoryInit, EmptyCatalog
  <2>2. QED
    BY <2>1 DEF Explained, PoliciesExplained, RlsExplained
<1>3. check = "idle"
  BY DEF HistoryInit
<1>4. QED
  BY <1>1, <1>2, <1>3 DEF DriftInv, ExplainedInv, DriftReported, SeenPolicies, SeenRls

LEMMA DriftInvNext ==
  ASSUME DriftInv, [HistoryNext]_history
  PROVE  DriftInv'
<1>1. HistoryInv /\ HistoryInv' /\ ExplainedInv /\ DriftReported /\ (edits = <<>> => SeenPolicies /\ SeenRls)
  BY HistoryInvNext DEF DriftInv
<1>2. CASE Merge \/ SkipDrift \/ ReadFiles \/ Again \/ UNCHANGED history
  <2>1. deployed' = deployed /\ live' = live /\ edits' = edits
    BY <1>2 DEF Merge, SkipDrift, ReadFiles, Again, history, database
  <2>2. \/ check' = check /\ read' = read /\ seen' = seen /\ report' = report /\ asOf' = asOf
        \/ check' \in {"idle", "skipped", "policies"}
    BY <1>2 DEF Merge, SkipDrift, ReadFiles, Again, history, drift
  <2>3. ExplainedInv'
    BY <1>1, <2>1 DEF ExplainedInv
  <2>4. CASE check' \in {"idle", "skipped", "policies"}
    BY <1>1, <2>3, <2>4 DEF DriftInv, DriftReported, SeenPolicies, SeenRls
  <2>5. CASE check' = check /\ read' = read /\ seen' = seen /\ report' = report /\ asOf' = asOf
    BY <1>1, <2>1, <2>3, <2>5 DEF DriftInv, DriftReported, SeenPolicies, SeenRls
  <2>6. QED
    BY <2>2, <2>4, <2>5
<1>3. CASE Deploy
  <2>1. ExplainedInv'
    BY <1>1, <1>3, ExplainedDeploy
  <2>2. UNCHANGED <<edits, check, read, seen, report, asOf>>
    BY <1>3 DEF Deploy, drift
  <2>3. QED
    BY <1>1, <2>1, <2>2 DEF DriftInv, DriftReported, SeenPolicies, SeenRls
<1>4. CASE HandEdit
  <2>1. edits' # <<>>
    BY <1>1, <1>4, HandEditStep
  <2>2. UNCHANGED <<check, read, seen, report>>
    BY <1>4 DEF HandEdit, drift
  <2>3. QED
    BY <1>1, <2>1, <2>2 DEF DriftInv, ExplainedInv, DriftReported
<1>5. CASE QueryPolicies
  <2>1. /\ deployed' = deployed /\ live' = live /\ edits' = edits /\ check' = "rls"
        /\ seen' = [seen EXCEPT !.policies = live.policies] /\ asOf' = [asOf EXCEPT !.policies = deployed]
    BY <1>5 DEF QueryPolicies, database
  <2>2. seen'.policies = live.policies /\ asOf'.policies = deployed
    BY <1>1, <2>1 DEF HistoryInv, Declarations
  <2>3. ExplainedInv'
    BY <1>1, <2>1 DEF ExplainedInv
  <2>4. edits' = <<>> => SeenPolicies'
    BY <1>1, <2>1, <2>2 DEF ExplainedInv, Explained, SeenPolicies
  <2>5. QED
    BY <1>1, <2>1, <2>3, <2>4 DEF DriftInv, DriftReported, SeenRls
<1>6. CASE QueryRls
  <2>1. /\ deployed' = deployed /\ live' = live /\ edits' = edits /\ check = "rls" /\ check' = "done" /\ read' = read
        /\ seen' = [seen EXCEPT !.rls = live.rls] /\ asOf' = [asOf EXCEPT !.rls = deployed]
        /\ report' = DiffState(ParseDeclaredState(read), seen')
    BY <1>6 DEF QueryRls, database
  <2>2. seen'.rls = live.rls /\ asOf'.rls = deployed /\ seen'.policies = seen.policies /\ asOf'.policies = asOf.policies
    BY <1>1, <2>1 DEF HistoryInv, Declarations
  <2>3. ExplainedInv' /\ DriftReported'
    BY <1>1, <2>1 DEF ExplainedInv, DriftReported
  <2>4. edits' = <<>> => SeenPolicies'
    BY <1>1, <2>1, <2>2 DEF SeenPolicies
  <2>5. edits' = <<>> => SeenRls'
    BY <1>1, <2>1, <2>2 DEF ExplainedInv, Explained, SeenRls
  <2>6. QED
    BY <1>1, <2>3, <2>4, <2>5 DEF DriftInv
<1>7. QED
  BY <1>2, <1>3, <1>4, <1>5, <1>6 DEF HistoryNext

LEMMA DriftInvHolds == HistorySpec => []DriftInv
<1>1. QED
  BY DriftInvInit, DriftInvNext, PTL DEF HistorySpec

\* rls-drift does not fail the build over policies and flags that the deployed files explain.
THEOREM NobodyAccused == HistorySpec => []NoFalseDrift
<1>1. ASSUME DriftInv PROVE NoFalseDrift
  <2>1. SUFFICES ASSUME UpToDate, edits = <<>>
                 PROVE  /\ \A p \in report.undeclaredPolicies : p[1] \in Renamed(read)
                        /\ report.undeclaredRls \subseteq Renamed(read)
    BY DEF NoFalseDrift
  <2> DEFINE d == DeclaredBy(InOrder(read))
             old == Renamed(ToSet(InOrder(read)))
  <2>2. check = "done" /\ asOf.policies = InOrder(read) /\ asOf.rls = InOrder(read)
    BY <2>1 DEF UpToDate
  <2>3. old \subseteq Renamed(read)
    <3>1. read \in SUBSET Files /\ IsFiniteSet(read)
      BY <1>1, FS_Subset DEF DriftInv, HistoryInv
    <3>2. InOrder(read) \in Seq(read)
      BY <3>1, OrderOfFiles
    <3>3. ToSet(InOrder(read)) \subseteq read
      BY <3>2 DEF ToSet
    <3>4. QED
      BY <3>3, RenamedMore
  <2>4. PoliciesExplained(d, seen.policies, old) /\ RlsExplained(d, seen.rls, old)
    BY <1>1, <2>1, <2>2 DEF DriftInv, SeenPolicies, SeenRls
  <2>5. report = DiffState(d, seen)
    BY <1>1, <2>2 DEF DriftInv, DriftReported, ParseDeclaredState
  <2> HIDE DEF d, old
  <2>6. /\ report.undeclaredPolicies \subseteq seen.policies \ d.policies
        /\ report.undeclaredRls \subseteq seen.rls \ d.rls
    BY <2>5 DEF DiffState
  <2>7. QED
    BY <2>3, <2>4, <2>6 DEF PoliciesExplained, RlsExplained
<1>2. QED
  BY <1>1, DriftInvHolds, PTL

-----------------------------------------------------------------------------
(* rls-drift says clean of a posture the files reproduce.                  *)

Agree(d, cat) == d.policies = cat.policies /\ d.rls = cat.rls
Removals(q) == {s \in ToSet(q) : s.kind \in {"drop table", "rename table"}}
Hopes(q) == {s \in ToSet(q) : s.kind = "enable rls" /\ s.ifExists}
Lasting(fs) == OfKind(fs, {"drop table", "rename table"}) = {}
Removes(s) == s.kind \in {"drop table", "rename table"}
Founded(cat, s) == s.kind = "enable rls" /\ s.ifExists => s.table \in cat.tables

LEMMA StatementAgrees ==
  ASSUME NEW cat, Coherent(cat), NEW d \in Declarations, NEW s \in Statement, ~Refused(cat, s),
         ~Removes(s), Founded(cat, s), Agree(d, cat)
  PROVE  Agree(Declare(d, s), After(cat, s)) /\ cat.tables \subseteq After(cat, s).tables
<1> USE DEF Agree, Removes, Founded
<1>1. cat \in Catalogs /\ d \in Declarations /\ s.kind \in Kinds
  BY StatementFields DEF Coherent
<1>2. CASE s.kind \notin {"create policy", "drop policy", "enable rls", "disable rls"}
  <2>1. Declare(d, s) = d
    BY <1>2 DEF Declare
  <2>2. After(cat, s).policies = cat.policies /\ After(cat, s).rls = cat.rls /\ cat.tables \subseteq After(cat, s).tables
    BY <1>1, <1>2 DEF After, Catalogs, Kinds, Define, DefineView
  <2>3. QED
    BY <2>1, <2>2
<1>3. CASE s.kind = "create policy"
  <2>1. /\ After(cat, s).policies = cat.policies \cup {<<s.table, s.policy>>} /\ After(cat, s).rls = cat.rls
        /\ After(cat, s).tables = cat.tables
    BY <1>1, <1>3 DEF After, Catalogs
  <2>2. /\ Declare(d, s).policies = d.policies \cup {<<s.table, s.policy>>} /\ Declare(d, s).rls = d.rls
    BY <1>1, <1>3 DEF Declare, Declarations
  <2>3. QED
    BY <2>1, <2>2
<1>4. CASE s.kind = "drop policy"
  <2>1. /\ After(cat, s).policies = cat.policies \ {<<s.table, s.policy>>} /\ After(cat, s).rls = cat.rls
        /\ After(cat, s).tables = cat.tables
    BY <1>1, <1>4 DEF After, Catalogs
  <2>2. /\ Declare(d, s).policies = d.policies \ {<<s.table, s.policy>>} /\ Declare(d, s).rls = d.rls
    BY <1>1, <1>4 DEF Declare, Declarations
  <2>3. QED
    BY <2>1, <2>2
<1>5. CASE s.kind = "enable rls"
  <2>1. /\ After(cat, s).policies = cat.policies /\ After(cat, s).rls = cat.rls \cup ({s.table} \cap cat.tables)
        /\ After(cat, s).tables = cat.tables
    BY <1>1, <1>5 DEF After, Catalogs
  <2>2. /\ Declare(d, s).policies = d.policies /\ Declare(d, s).rls = d.rls \cup {s.table}
    BY <1>1, <1>5 DEF Declare, Declarations
  <2>3. s.table \in cat.tables
    BY <1>5 DEF Refused, NeedsTable
  <2>4. QED
    BY <2>1, <2>2, <2>3
<1>6. CASE s.kind = "disable rls"
  <2>1. /\ After(cat, s).policies = cat.policies /\ After(cat, s).rls = cat.rls \ {s.table}
        /\ After(cat, s).tables = cat.tables
    BY <1>1, <1>6 DEF After, Catalogs
  <2>2. /\ Declare(d, s).policies = d.policies /\ Declare(d, s).rls = d.rls \ {s.table}
    BY <1>1, <1>6 DEF Declare, Declarations
  <2>3. QED
    BY <2>1, <2>2
<1>7. QED
  BY <1>2, <1>3, <1>4, <1>5, <1>6

LEMMA FileAgrees ==
  ASSUME NEW cat, Coherent(cat), NEW d \in Declarations, NEW f \in Files, NEW q, q = f.stmts, Applies(cat, q),
         Removals(q) = {}, \A s \in Hopes(q) : s.table \in cat.tables, Agree(d, cat)
  PROVE  Agree(DeclareFile(d, f), Applied(cat, q))
<1>1. q \in Seq(Statement)
  BY FileAssumption DEF File
<1>2. PICK dec : /\ dec[0] = d /\ dec[Len(q)] = DeclareFile(d, f)
                 /\ \A k \in 0..Len(q) : dec[k] \in Declarations
                 /\ \A k \in 1..Len(q) : dec[k] = Declare(dec[k - 1], q[k])
  BY DeclareTrace
<1>3. PICK db : /\ db[0] = cat /\ db[Len(q)] = Applied(cat, q)
                /\ \A k \in 0..Len(q) : Coherent(db[k])
                /\ \A k \in 1..Len(q) : ~Refused(db[k - 1], q[k]) /\ db[k] = After(db[k - 1], q[k])
  BY <1>1, AppliedTrace
<1>4. PICK n \in Nat : n = Len(q) /\ q \in [1..n -> Statement]
  BY <1>1
<1> DEFINE T == {k \in 0..n : Agree(dec[k], db[k]) /\ cat.tables \subseteq db[k].tables}
<1>5. 0 \in T
  BY <1>2, <1>3
<1>6. ASSUME NEW k \in 0..n, k \in T, k < n PROVE k + 1 \in T
  <2>1. k + 1 \in 1..n /\ (k + 1) - 1 = k /\ k + 1 \in 0..n
    BY <1>6
  <2>2. /\ dec[k + 1] = Declare(dec[k], q[k + 1]) /\ dec[k] \in Declarations
        /\ db[k + 1] = After(db[k], q[k + 1]) /\ ~Refused(db[k], q[k + 1]) /\ Coherent(db[k])
        /\ q[k + 1] \in Statement /\ q[k + 1] \in ToSet(q)
    BY <1>2, <1>3, <1>4, <2>1 DEF ToSet
  <2>3. Agree(dec[k], db[k]) /\ cat.tables \subseteq db[k].tables
    BY <1>6
  <2>4. ~Removes(q[k + 1])
    BY <2>2 DEF Removals, Removes
  <2>5. Founded(db[k], q[k + 1])
    <3>1. q[k + 1].kind = "enable rls" /\ q[k + 1].ifExists => q[k + 1] \in Hopes(q)
      BY <2>2 DEF Hopes
    <3>2. QED
      BY <2>3, <3>1 DEF Founded
  <2>6. Agree(dec[k + 1], db[k + 1]) /\ db[k].tables \subseteq db[k + 1].tables
    BY <2>2, <2>3, <2>4, <2>5, StatementAgrees
  <2>7. QED
    BY <2>1, <2>3, <2>6
<1>7. n \in T
  <2> HIDE DEF T
  <2>1. 0..n \subseteq T
    BY <1>5, <1>6, CountingUp
  <2>2. QED
    BY <2>1
<1>8. QED
  BY <1>2, <1>3, <1>4, <1>7

LEMMA FreshAgrees ==
  ASSUME NEW fs \in SUBSET Files, IsFiniteSet(fs), Fresh(fs).ok,
         Lasting(fs), ~EnabledNothing(fs)
  PROVE  Agree(ParseDeclaredState(fs), Fresh(fs).cat)
<1> DEFINE q == InOrder(fs)
<1>1. PICK n \in Nat : n = Cardinality(fs) /\ Len(q) = n /\ q \in [1..n -> fs] /\ q \in Seq(Files)
  <2>1. q \in Seq(Files)
    BY OrderOfFiles
  <2>2. QED
    BY <2>1, OrderOfFiles
<1>2. PICK db : /\ db[0] = EmptyCatalog /\ db[Cardinality(fs)] = Fresh(fs).cat
                /\ \A k \in 0..Cardinality(fs) : Coherent(db[k])
                /\ \A k \in 1..Cardinality(fs) :
                      LET f == InOrder(fs)[k]
                      IN  /\ db[k - 1] = FreshBefore(fs, f).cat
                          /\ Applies(db[k - 1], f.stmts) /\ db[k] = Applied(db[k - 1], f.stmts)
  BY FreshSteps
<1>3. ASSUME NEW k \in 1..n
      PROVE  /\ db[k - 1] = FreshBefore(fs, q[k]).cat /\ Applies(db[k - 1], q[k].stmts)
             /\ db[k] = Applied(db[k - 1], q[k].stmts)
  BY <1>1, <1>2
<1> HIDE DEF q
<1>4. PICK tr : /\ tr[0] = Nothing /\ tr[Len(q)] = DeclaredBy(q)
                /\ \A k \in 0..Len(q) : tr[k] \in Declarations
                /\ \A k \in 1..Len(q) : tr[k] = DeclareFile(tr[k - 1], q[k])
  BY <1>1, DeclaredTrace
<1> DEFINE T == {k \in 0..n : Agree(tr[k], db[k])}
<1>5. 0 \in T
  <2>1. Agree(Nothing, EmptyCatalog)
    BY DEF Agree, Nothing, EmptyCatalog
  <2>2. tr[0] = Nothing /\ db[0] = EmptyCatalog /\ 0 \in 0..n
    BY <1>2, <1>4
  <2>3. QED
    BY <2>1, <2>2
<1>6. ASSUME NEW k \in 0..n, k \in T, k < n PROVE k + 1 \in T
  <2>1. k + 1 \in 1..n /\ (k + 1) - 1 = k /\ k + 1 \in 0..n
    BY <1>6
  <2>2. PICK f : f = q[k + 1]
    OBVIOUS
  <2>3. /\ f \in fs /\ f \in Files /\ db[k] = FreshBefore(fs, f).cat /\ Applies(db[k], f.stmts)
        /\ db[k + 1] = Applied(db[k], f.stmts) /\ Coherent(db[k])
        /\ tr[k + 1] = DeclareFile(tr[k], f) /\ tr[k] \in Declarations
    BY <1>1, <1>2, <1>3, <1>4, <2>1, <2>2
  <2>4. Removals(f.stmts) = {}
    <3>1. Removals(f.stmts) \subseteq OfKind(fs, {"drop table", "rename table"})
      BY <2>3 DEF Removals, OfKind
    <3>2. QED
      BY <3>1 DEF Lasting
  <2>5. \A s \in Hopes(f.stmts) : s.table \in db[k].tables
    BY <2>3 DEF Hopes, EnabledNothing
  <2>6. Agree(tr[k], db[k])
    BY <1>6
  <2>7. Agree(tr[k + 1], db[k + 1])
    BY <2>3, <2>4, <2>5, <2>6, FileAgrees
  <2>8. QED
    BY <2>1, <2>7
<1>7. n \in T
  <2> HIDE DEF T
  <2>1. 0..n \subseteq T
    BY <1>5, <1>6, CountingUp
  <2>2. QED
    BY <2>1
<1>8. QED
  BY <1>1, <1>2, <1>4, <1>7 DEF ParseDeclaredState, q

\* Where rls-drift has nothing to say, what it saw is what the files make of an empty database.
THEOREM CleanIsReproducible == HistorySpec => []CleanMeansReproducible
<1>1. ASSUME DriftInv PROVE CleanMeansReproducible
  <2>1. SUFFICES ASSUME check = "done", report = Silence, Fresh(read).ok,
                        OfKind(read, {"drop table", "rename table"}) = {}, ~EnabledNothing(read)
                 PROVE  LET fresh == Posture(Fresh(read).cat)
                        IN  /\ {p \in fresh.policies : ~Allowed(p)} = {p \in seen.policies : ~Allowed(p)}
                            /\ fresh.rls \ DriftAllow = seen.rls \ DriftAllow
    BY DEF CleanMeansReproducible
  <2>2. read \in SUBSET Files /\ IsFiniteSet(read)
    BY <1>1, FS_Subset DEF DriftInv, HistoryInv
  <2> DEFINE d == ParseDeclaredState(read)
             fresh == Posture(Fresh(read).cat)
  <2>3. fresh.policies = d.policies /\ fresh.rls = d.rls
    <3>1. Lasting(read)
      BY <2>1 DEF Lasting
    <3>2. Agree(d, Fresh(read).cat)
      BY <2>1, <2>2, <3>1, FreshAgrees
    <3>3. QED
      BY <3>2 DEF Agree, Posture
  <2>4. DiffState(d, seen) = Silence
    BY <1>1, <2>1 DEF DriftInv, DriftReported
  <2> HIDE DEF d, fresh
  <2>5. /\ {p \in seen.policies \ d.policies : ~Allowed(p)} = {} /\ {p \in d.policies \ seen.policies : ~Allowed(p)} = {}
        /\ (seen.rls \ d.rls) \ DriftAllow = {} /\ (d.rls \ seen.rls) \ DriftAllow = {}
    BY <2>4 DEF DiffState, Silence
  <2>6. {p \in fresh.policies : ~Allowed(p)} = {p \in seen.policies : ~Allowed(p)}
    BY <2>3, <2>5
  <2>7. fresh.rls \ DriftAllow = seen.rls \ DriftAllow
    BY <2>3, <2>5
  <2>8. QED
    BY <2>6, <2>7 DEF fresh
<1>2. QED
  BY <1>1, DriftInvHolds, PTL

-----------------------------------------------------------------------------
(* migration-collisions: an inversion is a history that does not apply.    *)

\* What there is of the objects migrations name, and what a statement adds.
Objects(cat) == cat.tables \cup cat.routines \cup cat.views
Renames(q) == {s.to : s \in Moves(q)}

LEMMA StatementMakes ==
  ASSUME NEW cat, Coherent(cat), NEW s \in Statement, NEW known, Objects(cat) \subseteq known,
         s.kind = "create table" => s.table \in known, s.kind = "create function" => s.routine \in known,
         s.kind = "create view" => s.view \in known, s.kind = "rename table" => s.to \in known
  PROVE  Objects(After(cat, s)) \subseteq known
<1> USE DEF Objects
<1>1. cat \in Catalogs /\ s.kind \in Kinds
  BY StatementFields DEF Coherent
<1>2. CASE s.kind = "create table"
  <2>1. /\ After(cat, s).tables = cat.tables \cup {s.table} /\ After(cat, s).routines = cat.routines
        /\ After(cat, s).views = cat.views
    BY <1>1, <1>2 DEF After, Catalogs
  <2>2. QED
    BY <1>2, <2>1
<1>3. CASE s.kind = "drop table"
  BY <1>1, <1>3 DEF After, Catalogs
<1>4. CASE s.kind = "rename table"
  <2>1. CASE s.table \notin cat.tables
    BY <1>4, <2>1 DEF After
  <2>2. CASE s.table \in cat.tables
    <3>1. /\ After(cat, s).tables = (cat.tables \ {s.table}) \cup {s.to}
          /\ After(cat, s).routines = cat.routines /\ After(cat, s).views = cat.views
      BY <1>1, <1>4, <2>2 DEF After, Rename, Catalogs
    <3>2. QED
      BY <1>4, <3>1
  <2>3. QED
    BY <2>1, <2>2
<1>5. CASE s.kind \in {"use table", "enable rls", "disable rls", "create policy", "drop policy"}
  <2>1. After(cat, s).tables = cat.tables /\ After(cat, s).routines = cat.routines /\ After(cat, s).views = cat.views
    BY <1>1, <1>5 DEF After, Catalogs
  <2>2. QED
    BY <2>1
<1>6. CASE s.kind = "create function"
  <2>1. /\ After(cat, s).tables = cat.tables /\ After(cat, s).routines = cat.routines \cup {s.routine}
        /\ After(cat, s).views = cat.views
    BY <1>1, <1>6 DEF After, Define, Catalogs
  <2>2. QED
    BY <1>6, <2>1
<1>7. CASE s.kind \in {"drop function", "grant", "revoke"}
  <2>1. /\ After(cat, s).tables = cat.tables /\ After(cat, s).routines \subseteq cat.routines
        /\ After(cat, s).views = cat.views
    BY <1>1, <1>7 DEF After, Catalogs
  <2>2. QED
    BY <2>1
<1>8. CASE s.kind = "create view"
  <2>1. /\ After(cat, s).tables = cat.tables /\ After(cat, s).routines = cat.routines
        /\ After(cat, s).views = cat.views \cup {s.view}
    BY <1>1, <1>8 DEF After, DefineView, Catalogs
  <2>2. QED
    BY <1>8, <2>1
<1>9. CASE s.kind \in {"drop view", "alter view", "create rule", "grant writes", "revoke writes",
                       "default grant", "default revoke"}
  <2>1. /\ After(cat, s).tables = cat.tables /\ After(cat, s).routines = cat.routines
        /\ After(cat, s).views \subseteq cat.views
    BY <1>1, <1>9 DEF After, Catalogs
  <2>2. QED
    BY <2>1
<1>10. QED
  BY <1>1, <1>2, <1>3, <1>4, <1>5, <1>6, <1>7, <1>8, <1>9 DEF Kinds

\* What a statement that is not refused needs is there.
LEMMA NeedsAreMet ==
  ASSUME NEW cat, NEW s, ~Refused(cat, s)
  PROVE  Lacks(EmptyCatalog, s) \subseteq Objects(cat)
<1> DEFINE tables   == IF NeedsTable(s) THEN {s.table} \ EmptyCatalog.tables ELSE {}
           routines == IF NeedsRoutine(s) THEN {s.routine} \ EmptyCatalog.routines ELSE {}
           views    == IF NeedsView(s) THEN {s.view} \ EmptyCatalog.views ELSE {}
           bases    == IF NeedsBase(s) THEN {s.base} \ (EmptyCatalog.tables \cup EmptyCatalog.views) ELSE {}
<1>1. tables \subseteq cat.tables
  <2>1. NeedsTable(s) => s.table \in cat.tables
    BY DEF Refused
  <2>2. QED
    BY <2>1
<1>2. routines \subseteq cat.routines
  <2>1. NeedsRoutine(s) => s.routine \in cat.routines
    BY DEF Refused
  <2>2. QED
    BY <2>1
<1>3. views \subseteq cat.views
  <2>1. NeedsView(s) => s.view \in cat.views
    BY DEF Refused
  <2>2. QED
    BY <2>1
<1>4. bases \subseteq cat.tables \cup cat.views
  <2>1. NeedsBase(s) => s.base \in cat.tables \cup cat.views
    BY DEF Refused
  <2>2. QED
    BY <2>1
<1>5. Lacks(EmptyCatalog, s) = tables \cup routines \cup views \cup bases
  BY DEF Lacks
<1> HIDE DEF tables, routines, views, bases
<1>6. QED
  BY <1>1, <1>2, <1>3, <1>4, <1>5 DEF Objects

LEMMA CreatedByStatement ==
  ASSUME NEW f, NEW s \in ToSet(f.stmts)
  PROVE  /\ s.kind = "create table" => s.table \in CreatedObjects(f)
         /\ s.kind = "create function" => s.routine \in CreatedObjects(f)
         /\ s.kind = "create view" => s.view \in CreatedObjects(f)
         /\ s.kind = "rename table" => s.to \in Renames(f.stmts)
BY DEF CreatedObjects, Renames, Moves

\* The catalogs a file goes through hold what was there and what it makes.
LEMMA FileMakes ==
  ASSUME NEW cat, Coherent(cat), NEW f \in Files, Applies(cat, f.stmts), NEW known,
         Objects(cat) \cup CreatedObjects(f) \cup Renames(f.stmts) \subseteq known
  PROVE  /\ Objects(Applied(cat, f.stmts)) \subseteq known
         /\ \A s \in ToSet(f.stmts) : Lacks(EmptyCatalog, s) \subseteq known
<1> DEFINE q == f.stmts
<1>1. q \in Seq(Statement)
  BY FileAssumption DEF File
<1>2. PICK db : /\ db[0] = cat /\ db[Len(q)] = Applied(cat, q)
                /\ \A k \in 0..Len(q) : Coherent(db[k])
                /\ \A k \in 1..Len(q) : ~Refused(db[k - 1], q[k]) /\ db[k] = After(db[k - 1], q[k])
  BY <1>1, AppliedTrace
<1>3. PICK n \in Nat : n = Len(q) /\ q \in [1..n -> Statement]
  BY <1>1
<1>4. \A s \in ToSet(q) :
        /\ s.kind = "create table" => s.table \in known
        /\ s.kind = "create function" => s.routine \in known
        /\ s.kind = "create view" => s.view \in known
        /\ s.kind = "rename table" => s.to \in known
  BY CreatedByStatement
<1> HIDE DEF q
<1> DEFINE T == {k \in 0..n : Objects(db[k]) \subseteq known}
<1>5. 0 \in T
  BY <1>2
<1>6. ASSUME NEW k \in 0..n, k \in T, k < n PROVE k + 1 \in T
  <2>1. k + 1 \in 1..n /\ (k + 1) - 1 = k /\ k + 1 \in 0..n
    BY <1>6
  <2>2. PICK s : s = q[k + 1]
    OBVIOUS
  <2>3. /\ db[k + 1] = After(db[k], s) /\ Coherent(db[k]) /\ s \in Statement /\ s \in ToSet(q)
        /\ Objects(db[k]) \subseteq known
    BY <1>2, <1>3, <1>6, <2>1, <2>2 DEF ToSet
  <2>4. Objects(After(db[k], s)) \subseteq known
    BY <1>4, <2>3, StatementMakes
  <2>5. QED
    BY <2>1, <2>3, <2>4
<1>7. \A k \in 0..n : Objects(db[k]) \subseteq known
  <2>1. 0..n \subseteq T
    <3> HIDE DEF T
    <3>1. QED
      BY <1>5, <1>6, CountingUp
  <2>2. QED
    BY <2>1
<1>8. ASSUME NEW s \in ToSet(q) PROVE Lacks(EmptyCatalog, s) \subseteq known
  <2>1. PICK k \in 1..n : s = q[k]
    BY <1>3 DEF ToSet
  <2>2. k - 1 \in 0..n
    OBVIOUS
  <2>3. ~Refused(db[k - 1], s) /\ Objects(db[k - 1]) \subseteq known
    BY <1>2, <1>3, <1>7, <2>1, <2>2
  <2>4. QED
    BY <2>3, NeedsAreMet
<1>9. Objects(db[n]) \subseteq known
  BY <1>7
<1>10. QED
  BY <1>2, <1>3, <1>8, <1>9 DEF q

\* In a history that applies, what a file needs was made before it or by it.
LEMMA FreshNeeds ==
  ASSUME NEW fs \in SUBSET Files, IsFiniteSet(fs), Fresh(fs).ok, NEW e \in fs, NEW s \in ToSet(e.stmts)
  PROVE  Lacks(EmptyCatalog, s) \subseteq CreatedBefore(fs, e) \cup CreatedObjects(e) \cup Renamed(fs)
<1> DEFINE q == InOrder(fs)
           before == CreatedBefore(fs, e) \cup Renamed(fs)
<1>1. PICK n \in Nat : n = Cardinality(fs) /\ q \in [1..n -> fs]
  BY OrderOfFiles
<1>2. PICK i \in 1..n : q[i] = e /\ \A k \in 1..n : k < i => q[k] \in Before(fs, e)
  <2>1. /\ \A f \in fs : \E k \in 1..n : q[k] = f
        /\ \A j, k \in 1..n : j < k <=> q[j].rank < q[k].rank
    BY <1>1, OrderOfFiles
  <2>2. PICK i \in 1..n : q[i] = e
    BY <2>1
  <2>3. \A k \in 1..n : k < i => q[k] \in Before(fs, e)
    BY <1>1, <2>1, <2>2 DEF Before
  <2>4. QED
    BY <2>2, <2>3
<1>3. PICK db : /\ db[0] = EmptyCatalog /\ db[Cardinality(fs)] = Fresh(fs).cat
                /\ \A k \in 0..Cardinality(fs) : Coherent(db[k])
                /\ \A k \in 1..Cardinality(fs) :
                      LET f == InOrder(fs)[k]
                      IN  /\ db[k - 1] = FreshBefore(fs, f).cat
                          /\ Applies(db[k - 1], f.stmts) /\ db[k] = Applied(db[k - 1], f.stmts)
  BY FreshSteps
<1>4. ASSUME NEW k \in 1..n
      PROVE  Applies(db[k - 1], q[k].stmts) /\ db[k] = Applied(db[k - 1], q[k].stmts)
  BY <1>1, <1>3
<1>5. ASSUME NEW f \in fs PROVE Renames(f.stmts) \subseteq Renamed(fs)
  BY RenamedBy DEF Renames
<1>6. ASSUME NEW f \in Before(fs, e) PROVE CreatedObjects(f) \subseteq CreatedBefore(fs, e)
  BY DEF CreatedBefore
<1> HIDE DEF q, before
<1> DEFINE m == i - 1
           T == {k \in 0..m : Objects(db[k]) \subseteq before}
<1>7. m \in Nat /\ m \in 0..n
  OBVIOUS
<1>8. 0 \in T
  <2>1. Objects(EmptyCatalog) = {}
    BY DEF Objects, EmptyCatalog
  <2>2. db[0] = EmptyCatalog /\ 0 \in 0..m
    BY <1>3, <1>7
  <2>3. QED
    BY <2>1, <2>2
<1>9. ASSUME NEW k \in 0..m, k \in T, k < m PROVE k + 1 \in T
  <2>1. k + 1 \in 1..n /\ (k + 1) - 1 = k /\ k + 1 \in 0..m /\ k \in 0..n /\ k + 1 < i
    BY <1>9
  <2>2. PICK f : f = q[k + 1]
    OBVIOUS
  <2>3. /\ f \in fs /\ f \in Files /\ f \in Before(fs, e) /\ Coherent(db[k])
        /\ Applies(db[k], f.stmts) /\ db[k + 1] = Applied(db[k], f.stmts)
    BY <1>1, <1>2, <1>3, <1>4, <2>1, <2>2
  <2>4. Objects(db[k]) \cup CreatedObjects(f) \cup Renames(f.stmts) \subseteq before
    BY <1>5, <1>6, <1>9, <2>3 DEF before
  <2>5. Objects(db[k + 1]) \subseteq before
    BY <2>3, <2>4, FileMakes
  <2>6. QED
    BY <2>1, <2>5
<1>10. Objects(db[m]) \subseteq before
  <2> HIDE DEF T
  <2>1. 0..m \subseteq T
    BY <1>7, <1>8, <1>9, CountingUp
  <2>2. m \in T
    BY <1>7, <2>1
  <2>3. QED
    BY <2>2 DEF T
<1>11. /\ Coherent(db[m]) /\ Applies(db[m], e.stmts) /\ e \in Files
  BY <1>1, <1>2, <1>3, <1>4, <1>7
<1>12. Objects(db[m]) \cup CreatedObjects(e) \cup Renames(e.stmts) \subseteq before \cup CreatedObjects(e)
  BY <1>5, <1>10 DEF before
<1>13. \A x \in ToSet(e.stmts) : Lacks(EmptyCatalog, x) \subseteq before \cup CreatedObjects(e)
  BY <1>11, <1>12, FileMakes
<1>14. QED
  BY <1>13 DEF before

\* The files of a prefix have a first one, and what exists before them exists before it.
LEMMA FirstOfPrefix ==
  ASSUME NEW fs \in SUBSET Files, IsFiniteSet(fs), NEW f \in fs
  PROVE  \E first \in SharedPrefix(fs, f.prefix) :
           /\ \A h \in SharedPrefix(fs, f.prefix) : first.rank <= h.rank
           /\ PriorCreated(fs, f.prefix) = CreatedBefore(fs, first)
<1> DEFINE group == SharedPrefix(fs, f.prefix)
           first == CHOOSE g \in group : \A h \in group : g.rank <= h.rank
<1>1. group \in SUBSET Files /\ IsFiniteSet(group) /\ group \subseteq fs /\ f \in group
  BY FS_Subset DEF SharedPrefix
<1>2. \A g \in group : g.rank \in Nat
  BY <1>1, FileAssumption DEF File
<1>3. PriorCreated(fs, f.prefix) = CreatedBefore(fs, first)
  BY DEF PriorCreated
<1> HIDE DEF group
<1>4. \E g \in group : \A h \in group : g.rank <= h.rank
  <2> DEFINE q == InOrder(group)
             n == Cardinality(group)
  <2>1. /\ n \in Nat /\ q \in [1..n -> group]
        /\ \A h \in group : \E k \in 1..n : q[k] = h
        /\ \A j, k \in 1..n : j < k <=> q[j].rank < q[k].rank
    BY <1>1, OrderOfFiles
  <2> HIDE DEF q, n
  <2>2. 1 \in 1..n
    BY <1>1, <2>1
  <2>3. ASSUME NEW h \in group PROVE q[1].rank <= h.rank
    <3>1. PICK k \in 1..n : q[k] = h
      BY <2>1
    <3>2. ~(h.rank < q[1].rank)
      BY <2>1, <2>2, <3>1
    <3>3. q[1] \in group
      BY <2>1, <2>2
    <3>4. QED
      BY <1>2, <3>2, <3>3
  <2>4. q[1] \in group
    BY <2>1, <2>2
  <2>5. QED
    BY <2>3, <2>4
<1>5. first \in group /\ \A h \in group : first.rank <= h.rank
  BY <1>1, <1>4
<1> HIDE DEF first
<1>6. QED
  BY <1>3, <1>5 DEF group

\* What exists when a file of a prefix runs was there before the first of them, or made by one of
\* them, or by a file that runs between two of them.
LEMMA NotThereBefore ==
  ASSUME NEW fs \in SUBSET Files, IsFiniteSet(fs), NEW f \in fs, NEW o,
         o \notin PriorCreated(fs, f.prefix), o \notin CreatedBefore(SharedPrefix(fs, f.prefix), f),
         ~CreatedBetween(fs, f, o)
  PROVE  o \notin CreatedBefore(fs, f)
<1>1. PICK first \in SharedPrefix(fs, f.prefix) :
         /\ \A h \in SharedPrefix(fs, f.prefix) : first.rank <= h.rank
         /\ PriorCreated(fs, f.prefix) = CreatedBefore(fs, first)
  BY FirstOfPrefix
<1>2. SUFFICES ASSUME NEW g \in fs, g.rank < f.rank, o \in CreatedObjects(g) PROVE FALSE
  BY DEF CreatedBefore, Before
<1>3. first \in fs /\ first.rank \in Nat /\ g.rank \in Nat
  BY <1>1, FileAssumption DEF File, SharedPrefix
<1>4. ~(g.rank < first.rank)
  BY <1>1, <1>2 DEF CreatedBefore, Before
<1>5. ~(first.rank < g.rank)
  BY <1>1, <1>2 DEF CreatedBetween
<1>6. g = first
  BY <1>3, <1>4, <1>5, FileAssumption
<1>7. QED
  BY <1>1, <1>2, <1>6 DEF CreatedBefore, Before

\* An inversion that fails the build is a history that does not apply to an empty database.
THEOREM InversionsBreakFresh == HistorySpec => []InversionBreaksFresh
<1>1. ASSUME HistoryInv PROVE InversionBreaksFresh
  <2>1. SUFFICES ASSUME NEW v \in Inversions(repo), Fresh(repo).ok,
                        ~CreatedBetween(repo, v.earlier, v.object), v.object \notin Renamed(repo),
                        NEW s \in ToSet(v.earlier.stmts)
                 PROVE  v.object \notin Lacks(EmptyCatalog, s)
    BY DEF InversionBreaksFresh
  <2>2. /\ v.earlier \in repo /\ v.object \notin CreatedObjects(v.earlier)
        /\ v.object \notin CreatedBefore(repo, v.earlier)
    <3>1. PICK n : v \in FindDependencyInversions(SharedPrefix(repo, n), PriorCreated(repo, n), Read(repo))
      BY <2>1 DEF Inversions
    <3>2. /\ v.earlier \in SharedPrefix(repo, n)
          /\ v.object \notin PriorCreated(repo, n) \cup CreatedObjects(v.earlier)
      BY <3>1 DEF FindDependencyInversions
    <3>3. v.object \notin CreatedBefore(SharedPrefix(repo, n), v.earlier)
      BY <3>1 DEF FindDependencyInversions
    <3>4. n = v.earlier.prefix /\ v.earlier \in repo
      BY <3>2 DEF SharedPrefix
    <3>5. repo \in SUBSET Files /\ IsFiniteSet(repo)
      BY <1>1 DEF HistoryInv
    <3>6. QED
      BY <2>1, <3>2, <3>3, <3>4, <3>5, NotThereBefore
  <2>3. Lacks(EmptyCatalog, s) \subseteq CreatedBefore(repo, v.earlier) \cup CreatedObjects(v.earlier) \cup Renamed(repo)
    BY <1>1, <2>1, <2>2, FreshNeeds DEF HistoryInv
  <2>4. QED
    BY <2>1, <2>2, <2>3
<1>2. QED
  BY <1>1, HistoryInvHolds, PTL

-----------------------------------------------------------------------------
(* migration-collisions: what stops a fresh database is named.             *)

\* A statement that wants what is not there reads it, but for what it names where the guard
\* does not look.
LEMMA LackIsRead ==
  ASSUME NEW f, NEW s \in ToSet(f.stmts), s \in Statement, NEW cat, NEW o \in Lacks(cat, s),
         o \notin Unread(s)
  PROVE  o \in ReferencedObjects(f) /\ o \in Relations \cup Routines \cup Views
<1> DEFINE tables   == {x.table : x \in {y \in ToSet(f.stmts) :
                          \/ y.kind \in {"rename table", "use table", "enable rls", "disable rls",
                                         "create policy", "drop policy"}
                          \/ y.kind = "create function" /\ y.resolved}}
           routines == {x.routine : x \in {y \in ToSet(f.stmts) : y.kind \in {"grant", "revoke"}}}
           bases    == {x.base : x \in {y \in ToSet(f.stmts) : NeedsBase(y)}}
           views    == {x.view : x \in {y \in ToSet(f.stmts) :
                          y.kind \in {"grant writes", "revoke writes"} /\ ~y.everything}}
<1>1. ReferencedObjects(f) = tables \cup routines \cup bases \cup views
  BY DEF ReferencedObjects
<1>2. s.table \in Relations /\ s.routine \in Routines /\ s.view \in Views /\ s.base \in Relations \cup Views
  BY StatementFields
<1>3. NeedsTable(s) /\ o = s.table => s.table \in tables
  BY Zenon DEF NeedsTable, Unread
<1>4. NeedsRoutine(s) /\ o = s.routine => s.routine \in routines
  BY Zenon DEF NeedsRoutine, Unread
<1>5. NeedsBase(s) => s.base \in bases
  OBVIOUS
<1>6. NeedsView(s) /\ o = s.view => s.view \in views
  BY Zenon DEF NeedsView, Unread
<1> HIDE DEF tables, routines, bases, views
<1>7. CASE NeedsTable(s) /\ o = s.table
  BY <1>1, <1>2, <1>3, <1>7
<1>8. CASE NeedsRoutine(s) /\ o = s.routine
  BY <1>1, <1>2, <1>4, <1>8
<1>9. CASE NeedsView(s) /\ o = s.view
  BY <1>1, <1>2, <1>6, <1>9
<1>10. CASE NeedsBase(s) /\ o = s.base
  BY <1>1, <1>2, <1>5, <1>10
<1> DEFINE lackTables   == IF NeedsTable(s) THEN {s.table} \ cat.tables ELSE {}
           lackRoutines == IF NeedsRoutine(s) THEN {s.routine} \ cat.routines ELSE {}
           lackViews    == IF NeedsView(s) THEN {s.view} \ cat.views ELSE {}
           lackBases    == IF NeedsBase(s) THEN {s.base} \ (cat.tables \cup cat.views) ELSE {}
<1>11. /\ o \in lackTables   => NeedsTable(s) /\ o = s.table
       /\ o \in lackRoutines => NeedsRoutine(s) /\ o = s.routine
       /\ o \in lackViews    => NeedsView(s) /\ o = s.view
       /\ o \in lackBases    => NeedsBase(s) /\ o = s.base
  OBVIOUS
<1>12. Lacks(cat, s) = lackTables \cup lackRoutines \cup lackViews \cup lackBases
  BY DEF Lacks
<1> HIDE DEF lackTables, lackRoutines, lackViews, lackBases
<1>13. QED
  BY <1>7, <1>8, <1>9, <1>10, <1>11, <1>12

\* What a file wants, and not only where the guard does not look, it is seen to read.
LEMMA WantIsRead ==
  ASSUME NEW f \in Files, NEW o, ~OnlyUnread(f, o)
  PROVE  o \in ReferencedObjects(f) /\ o \in Relations \cup Routines \cup Views
<1>1. PICK s \in ToSet(f.stmts) : o \in Lacks(EmptyCatalog, s) /\ o \notin Unread(s)
  BY DEF OnlyUnread
<1>2. f.stmts \in Seq(Statement)
  BY FileAssumption DEF File
<1>3. s \in Statement
  BY <1>1, <1>2 DEF ToSet
<1>4. PICK some : some = EmptyCatalog
  OBVIOUS
<1>5. o \in Lacks(some, s)
  BY <1>1, <1>4
<1>6. QED
  BY <1>1, <1>3, <1>5, LackIsRead

\* The database of a group holds no more than that of any file of it.
LEMMA PriorIsEarlier ==
  ASSUME NEW fs \in SUBSET Files, IsFiniteSet(fs), NEW f \in fs
  PROVE  PriorCreated(fs, f.prefix) \subseteq CreatedBefore(fs, f)
<1>1. PICK first \in SharedPrefix(fs, f.prefix) :
         /\ \A h \in SharedPrefix(fs, f.prefix) : first.rank <= h.rank
         /\ PriorCreated(fs, f.prefix) = CreatedBefore(fs, first)
  BY FirstOfPrefix
<1>2. first \in fs /\ first.rank <= f.rank
  BY <1>1 DEF SharedPrefix
<1>3. Before(fs, first) \subseteq Before(fs, f)
  <2>1. first.rank \in Nat /\ f.rank \in Nat /\ first.rank <= f.rank
    BY <1>2, FileAssumption DEF File
  <2>2. ASSUME NEW g \in fs, g.rank < first.rank PROVE g.rank < f.rank
    <3>1. g.rank \in Nat
      BY FileAssumption DEF File
    <3>2. QED
      BY <2>1, <2>2, <3>1
  <2>3. QED
    BY <2>2 DEF Before
<1>4. QED
  BY <1>1, <1>3 DEF CreatedBefore

\* A fresh database that stops for want of what a later file of the same prefix, or of a smaller
\* number, creates is named by the guard, unless the file at which it stops only drops the
\* object, alters the view or makes a rule on it.
THEOREM OrderHazardsAreNamed == HistorySpec => []OrderHazardNamed
<1>1. ASSUME HistoryInv PROVE OrderHazardNamed
  <2>1. SUFFICES ASSUME NEW f \in repo, NEW o \in StopsFor(repo, f), o \notin CreatedBefore(repo, f),
                        o \notin CreatedObjects(f), ~OnlyUnread(f, o), NEW g \in FirstCreator(repo, f, o),
                        NEW v, v = [earlier |-> f, later |-> g, object |-> o]
                 PROVE  /\ f.prefix = g.prefix /\ f.prefix \in Collisions(repo) \ Grandfather =>
                             v \in Inversions(repo)
                        /\ f.number > g.number /\ ~NumberingGrandfathered => v \in Crossings(repo)
    BY DEF OrderHazardNamed
  <2>2. repo \in SUBSET Files /\ IsFiniteSet(repo)
    BY <1>1 DEF HistoryInv
  <2>3. o \in ReferencedObjects(f) /\ o \in Relations \cup Routines \cup Views
    BY <2>1, <2>2, WantIsRead
  <2>4. /\ g \in repo /\ f.rank < g.rank /\ o \in CreatedObjects(g)
        /\ \A h \in repo : f.rank < h.rank /\ h.rank < g.rank => o \notin CreatedObjects(h)
    BY DEF FirstCreator
  <2>5. ASSUME NEW group, group \subseteq repo, f \in group, g \in group, NEW prior, o \notin prior
        PROVE  v \in FindDependencyInversions(group, prior, Read(repo))
    <3>1. o \in Read(repo)[f]
      BY <2>3 DEF Read
    <3>2. o \notin CreatedBefore(group, f)
      <4>1. Before(group, f) \subseteq Before(repo, f)
        BY <2>5 DEF Before
      <4>2. QED
        BY <2>1, <4>1 DEF CreatedBefore
    <3>3. v \in [earlier: group, later: group, object: Relations \cup Routines \cup Views]
      BY <2>1, <2>3, <2>5
    <3>4. v.earlier = f /\ v.later = g /\ v.object = o
      BY <2>1
    <3>5. \A h \in group : f.rank < h.rank /\ h.rank < g.rank => o \notin CreatedObjects(h)
      BY <2>4, <2>5
    <3>6. o \in Read(repo)[f] \ (prior \cup CreatedObjects(f))
      BY <2>1, <2>5, <3>1
    <3>7. QED
      BY <2>4, <3>2, <3>3, <3>4, <3>5, <3>6 DEF FindDependencyInversions
  <2>6. ASSUME f.prefix = g.prefix, f.prefix \in Collisions(repo) \ Grandfather
        PROVE  v \in Inversions(repo)
    <3>1. o \notin PriorCreated(repo, f.prefix)
      BY <2>1, <2>2, PriorIsEarlier
    <3>2. /\ SharedPrefix(repo, f.prefix) \subseteq repo
          /\ f \in SharedPrefix(repo, f.prefix) /\ g \in SharedPrefix(repo, f.prefix)
      BY <2>4, <2>6 DEF SharedPrefix
    <3>3. v \in FindDependencyInversions(SharedPrefix(repo, f.prefix), PriorCreated(repo, f.prefix), Read(repo))
      BY <2>5, <3>1, <3>2
    <3>4. QED
      BY <2>6, <3>3 DEF Inversions
  <2>7. ASSUME f.number > g.number, ~NumberingGrandfathered
        PROVE  v \in Crossings(repo)
    <3>1. NumberingDisagrees(repo)
      BY <2>4, <2>7 DEF NumberingDisagrees
    <3>2. v \in FindDependencyInversions(repo, {}, Read(repo))
      BY <2>4, <2>5
    <3>3. v.earlier.number > v.later.number
      BY <2>1, <2>7
    <3>4. QED
      BY <3>1, <3>2, <3>3 DEF Crossings
  <2>8. QED
    BY <2>6, <2>7
<1>2. QED
  BY <1>1, HistoryInvHolds, PTL

-----------------------------------------------------------------------------
(* definer-grants: what the latest definitions say of a fresh database.    *)

Known == [Routines -> Definition]

LEMMA RedefineKeeps ==
  ASSUME NEW n \in Nat, NEW d \in Known, NEW s \in Statement
  PROVE  Redefine(n, d, s) \in Known
<1>1. s.routine \in Routines /\ s.definer \in BOOLEAN /\ s.trigger \in BOOLEAN /\ s.writes \in BOOLEAN
  BY StatementFields
<1>2. [number |-> n, definer |-> s.definer, trigger |-> s.trigger, writes |-> s.writes] \in Definition
  BY <1>1 DEF Definition
<1>3. QED
  BY <1>1, <1>2 DEF Redefine, Known

LEMMA RedefineTrace ==
  ASSUME NEW d \in Known, NEW f \in Files
  PROVE  \E tr : /\ tr[0] = d /\ tr[Len(f.stmts)] = DefinedBy(d, f)
                 /\ \A k \in 0..Len(f.stmts) : tr[k] \in Known
                 /\ \A k \in 1..Len(f.stmts) : tr[k] = Redefine(f.number, tr[k - 1], f.stmts[k])
<1> DEFINE b == d
           q == f.stmts
           Redo(a, s) == Redefine(f.number, a, s)
<1>1. q \in Seq(Statement) /\ f.number \in Nat
  BY FileAssumption DEF File
<1>2. b \in Known
  OBVIOUS
<1>3. \A a \in Known : \A s \in Statement : Redo(a, s) \in Known
  BY <1>1, RedefineKeeps
<1>4. DefinedBy(d, f) = FoldLeft(Redo, b, q)
  BY DEF DefinedBy
<1> HIDE DEF b, q, Redo
<1>5. PICK n \in Nat : n = Len(q) /\ DOMAIN q = 1..n /\ q \in [1..n -> Statement]
  BY <1>1
<1> DEFINE IsFold(it) == it = [s \in SUBSET (1..n) |-> IF s = {} THEN b ELSE Redo(it[s \ {Max(s)}], q[Max(s)])]
           G == [p \in Known \X Statement |-> Redo(p[1], p[2])]
           it == CHOOSE it : IsFold(it)
<1>6. IsFold(it)
  <2>1. \A a \in Known : \A s \in Statement : G[<<a, s>>] = Redo(a, s)
    OBVIOUS
  <2>2. G \in [Known \X Statement -> Known]
    <3>1. ASSUME NEW p \in Known \X Statement PROVE Redo(p[1], p[2]) \in Known
      BY <1>3
    <3>2. QED
      BY <3>1
  <2> HIDE DEF G
  <2>3. PICK g \in [SUBSET (1..n) -> Known] : Iterates(g, n, q, b, G)
    BY <1>1, <1>2, <1>5, <2>2, FoldExists
  <2>4. ASSUME NEW s \in SUBSET (1..n), s # {}
        PROVE  G[<<g[s \ {Max(s)}], q[Max(s)]>>] = Redo(g[s \ {Max(s)}], q[Max(s)])
    <3>1. Max(s) \in 1..n
      BY <2>4, MaxIsGreatest
    <3>2. g[s \ {Max(s)}] \in Known
      BY <2>3
    <3>3. q[Max(s)] \in Statement
      BY <1>5, <3>1
    <3>4. QED
      BY <2>1, <3>2, <3>3
  <2>5. IsFold(g)
    BY <2>3, <2>4 DEF Iterates
  <2>6. QED
    BY <2>5
<1>7. FoldLeft(Redo, b, q) = it[1..n]
  BY <1>5 DEF FoldLeft, MapThenFoldSet
<1> HIDE DEF it
<1> DEFINE tr == [k \in 0..n |-> it[1..k]]
<1>8. tr[0] = b
  BY <1>6
<1>9. ASSUME NEW k \in 1..n PROVE tr[k] = Redo(tr[k - 1], q[k])
  <2>1. 1..k \in SUBSET (1..n) /\ 1..k # {} /\ Max(1..k) = k /\ (1..k) \ {Max(1..k)} = 1..(k - 1)
    BY UpTo
  <2>2. it[1..k] = Redo(it[1..(k - 1)], q[k])
    BY <1>6, <2>1
  <2>3. k \in 0..n /\ k - 1 \in 0..n
    OBVIOUS
  <2>4. QED
    BY <2>2, <2>3
<1>10. tr[n] = DefinedBy(d, f)
  BY <1>4, <1>7
<1> HIDE DEF IsFold, tr
<1> DEFINE T == {k \in 0..n : tr[k] \in Known}
<1>11. 0 \in T
  BY <1>2, <1>8
<1>12. ASSUME NEW k \in 0..n, k \in T, k < n PROVE k + 1 \in T
  <2>1. k + 1 \in 1..n /\ (k + 1) - 1 = k /\ k + 1 \in 0..n
    BY <1>12
  <2>2. tr[k + 1] = Redo(tr[k], q[k + 1]) /\ q[k + 1] \in Statement
    BY <1>5, <1>9, <2>1
  <2>3. QED
    BY <1>3, <1>12, <2>1, <2>2
<1>13. 0..n \subseteq T
  <2> HIDE DEF T
  <2>1. QED
    BY <1>11, <1>12, CountingUp
<1>14. QED
  BY <1>5, <1>8, <1>9, <1>10, <1>13 DEF b, q, Redo

LEMMA DefinedByKeeps ==
  ASSUME NEW d \in Known, NEW f \in Files
  PROVE  DefinedBy(d, f) \in Known
<1>1. f.stmts \in Seq(Statement)
  BY FileAssumption DEF File
<1>2. PICK n \in Nat : n = Len(f.stmts)
  BY <1>1
<1>3. PICK tr : tr[Len(f.stmts)] = DefinedBy(d, f) /\ \A k \in 0..Len(f.stmts) : tr[k] \in Known
  BY RedefineTrace
<1>4. QED
  BY <1>2, <1>3

LEMMA LatestTrace ==
  ASSUME NEW fs \in Seq(Files)
  PROVE  \E tr : /\ tr[0] = Undefined /\ tr[Len(fs)] = FoldLeft(DefinedBy, Undefined, fs)
                 /\ \A k \in 0..Len(fs) : tr[k] \in Known
                 /\ \A k \in 1..Len(fs) : tr[k] = DefinedBy(tr[k - 1], fs[k])
<1> DEFINE b == Undefined
           q == fs
           result == FoldLeft(DefinedBy, Undefined, fs)
<1>1. q \in Seq(Files)
  OBVIOUS
<1>2. b \in Known
  BY DEF Undefined, Known, Definition
<1>3. \A a \in Known : \A s \in Files : DefinedBy(a, s) \in Known
  BY DefinedByKeeps
<1>4. result = FoldLeft(DefinedBy, b, q)
  OBVIOUS
<1> HIDE DEF b, q, result
<1>5. PICK n \in Nat : n = Len(q) /\ DOMAIN q = 1..n /\ q \in [1..n -> Files]
  BY <1>1
<1> DEFINE IsFold(it) == it = [s \in SUBSET (1..n) |-> IF s = {} THEN b ELSE DefinedBy(it[s \ {Max(s)}], q[Max(s)])]
           G == [p \in Known \X Files |-> DefinedBy(p[1], p[2])]
           it == CHOOSE it : IsFold(it)
<1>6. IsFold(it)
  <2>1. \A a \in Known : \A s \in Files : G[<<a, s>>] = DefinedBy(a, s)
    OBVIOUS
  <2>2. G \in [Known \X Files -> Known]
    <3>1. ASSUME NEW p \in Known \X Files PROVE DefinedBy(p[1], p[2]) \in Known
      BY <1>3
    <3>2. QED
      BY <3>1
  <2> HIDE DEF G
  <2>3. PICK f \in [SUBSET (1..n) -> Known] : Iterates(f, n, q, b, G)
    BY <1>1, <1>2, <1>5, <2>2, FoldExists
  <2>4. ASSUME NEW s \in SUBSET (1..n), s # {}
        PROVE  G[<<f[s \ {Max(s)}], q[Max(s)]>>] = DefinedBy(f[s \ {Max(s)}], q[Max(s)])
    <3>1. Max(s) \in 1..n
      BY <2>4, MaxIsGreatest
    <3>2. f[s \ {Max(s)}] \in Known
      BY <2>3
    <3>3. q[Max(s)] \in Files
      BY <1>5, <3>1
    <3>4. QED
      BY <2>1, <3>2, <3>3
  <2>5. IsFold(f)
    BY <2>3, <2>4 DEF Iterates
  <2>6. QED
    BY <2>5
<1>7. FoldLeft(DefinedBy, b, q) = it[1..n]
  BY <1>5 DEF FoldLeft, MapThenFoldSet
<1> HIDE DEF it
<1> DEFINE tr == [k \in 0..n |-> it[1..k]]
<1>8. tr[0] = b
  BY <1>6
<1>9. ASSUME NEW k \in 1..n PROVE tr[k] = DefinedBy(tr[k - 1], q[k])
  <2>1. 1..k \in SUBSET (1..n) /\ 1..k # {} /\ Max(1..k) = k /\ (1..k) \ {Max(1..k)} = 1..(k - 1)
    BY UpTo
  <2>2. it[1..k] = DefinedBy(it[1..(k - 1)], q[k])
    BY <1>6, <2>1
  <2>3. k \in 0..n /\ k - 1 \in 0..n
    OBVIOUS
  <2>4. QED
    BY <2>2, <2>3
<1>10. tr[n] = result
  BY <1>4, <1>7
<1> HIDE DEF IsFold, tr
<1> DEFINE T == {k \in 0..n : tr[k] \in Known}
<1>11. 0 \in T
  BY <1>2, <1>8
<1>12. ASSUME NEW k \in 0..n, k \in T, k < n PROVE k + 1 \in T
  <2>1. k + 1 \in 1..n /\ (k + 1) - 1 = k /\ k + 1 \in 0..n
    BY <1>12
  <2>2. tr[k + 1] = DefinedBy(tr[k], q[k + 1]) /\ q[k + 1] \in Files
    BY <1>5, <1>9, <2>1
  <2>3. QED
    BY <1>3, <1>12, <2>1, <2>2
<1>13. 0..n \subseteq T
  <2> HIDE DEF T
  <2>1. QED
    BY <1>11, <1>12, CountingUp
<1>14. QED
  BY <1>5, <1>8, <1>9, <1>10, <1>13 DEF b, q, result


\* What the replay knows of a function is what the catalog has, and it may be called as long
\* as nobody revoked it: statement by statement.
Alike(def, made) == def.definer = made.definer /\ def.trigger = made.trigger /\ def.writes = made.writes
Tracks(d, cat, fn) == Alike(d[fn], cat.code[fn]) /\ (fn \notin cat.routines => cat.code[fn] = NoRoutine)
Callable(cat, fn) == fn \in cat.routines => "public" \in cat.code[fn].open
Withdrawn(cat, fn) == fn \in cat.routines /\ "public" \notin cat.code[fn].open

Drops(s, fn) == s.kind = "drop function" /\ s.routine = fn
Makes(s, fn) == s.kind = "create function" /\ s.routine = fn
Opens(s, fn) == s.kind = "grant" /\ s.routine = fn
Takes(s, fn) == s.kind = "revoke" /\ s.routine = fn
Shuts(s, fn) == s.kind = "revoke" /\ s.routine = fn /\ s.grantee \in {"public", "anon"}

LEMMA CodeFields ==
  ASSUME NEW cat, Coherent(cat), NEW s \in Statement, NEW fn \in Routines
  PROVE  /\ cat \in Catalogs /\ s.kind \in Kinds /\ cat.routines \in SUBSET Routines
         /\ cat.code \in [Routines -> Routine] /\ cat.code[fn] \in Routine /\ s.routine \in Routines
BY StatementFields DEF Coherent, Catalogs

LEMMA CodeCreated ==
  ASSUME NEW cat, Coherent(cat), NEW s \in Statement, NEW fn \in Routines, Makes(s, fn)
  PROVE  /\ fn \in After(cat, s).routines
         /\ After(cat, s).code[fn] =
              [definer |-> s.definer, writes |-> s.writes, trigger |-> s.trigger,
               open |-> IF fn \in cat.routines THEN cat.code[fn].open ELSE {"public"}]
<1>1. /\ cat \in Catalogs /\ s.kind \in Kinds /\ cat.routines \in SUBSET Routines
      /\ cat.code \in [Routines -> Routine] /\ cat.code[fn] \in Routine /\ s.routine \in Routines
  BY CodeFields
<1>2. s.kind = "create function" /\ s.routine = fn
  BY DEF Makes
<1>3. After(cat, s) = Define(cat, s)
  BY <1>2 DEF After
<1> DEFINE open == IF fn \in cat.routines THEN cat.code[fn].open ELSE {"public"}
           new  == [definer |-> s.definer, writes |-> s.writes, trigger |-> s.trigger, open |-> open]
<1>4. After(cat, s).routines = cat.routines \cup {s.routine}
  BY <1>1, <1>3 DEF Define, Catalogs
<1>5. After(cat, s).code = [cat.code EXCEPT ![fn] = new]
  BY <1>1, <1>2, <1>3 DEF Define, Catalogs
<1> HIDE DEF new
<1>6. After(cat, s).code[fn] = new
  BY <1>1, <1>5
<1>7. QED
  BY <1>2, <1>4, <1>6 DEF new

LEMMA CodeDropped ==
  ASSUME NEW cat, Coherent(cat), NEW s \in Statement, NEW fn \in Routines, Drops(s, fn)
  PROVE  fn \notin After(cat, s).routines /\ After(cat, s).code[fn] = NoRoutine
<1>1. /\ cat \in Catalogs /\ s.kind \in Kinds /\ cat.routines \in SUBSET Routines
      /\ cat.code \in [Routines -> Routine] /\ cat.code[fn] \in Routine /\ s.routine \in Routines
  BY CodeFields
<1>2. s.kind = "drop function" /\ s.routine = fn
  BY DEF Drops
<1>3. After(cat, s) = [cat EXCEPT !.routines = @ \ {s.routine}, !.code[s.routine] = NoRoutine]
  BY <1>2 DEF After
<1>4. After(cat, s).routines = cat.routines \ {s.routine} /\ After(cat, s).code = [cat.code EXCEPT ![fn] = NoRoutine]
  BY <1>1, <1>2, <1>3 DEF Catalogs
<1>5. QED
  BY <1>1, <1>2, <1>4

LEMMA CodeGranted ==
  ASSUME NEW cat, Coherent(cat), NEW s \in Statement, NEW fn \in Routines, ~Refused(cat, s), Opens(s, fn)
  PROVE  /\ fn \in cat.routines /\ fn \in After(cat, s).routines
         /\ Alike(cat.code[fn], After(cat, s).code[fn])
         /\ After(cat, s).code[fn].open = cat.code[fn].open \cup {s.grantee}
<1>1. /\ cat \in Catalogs /\ s.kind \in Kinds /\ cat.routines \in SUBSET Routines
      /\ cat.code \in [Routines -> Routine] /\ cat.code[fn] \in Routine /\ s.routine \in Routines
  BY CodeFields
<1>2. s.kind = "grant" /\ s.routine = fn
  BY DEF Opens
<1>3. /\ After(cat, s).routines = cat.routines
      /\ After(cat, s).code = [cat.code EXCEPT ![s.routine].open = @ \cup {s.grantee}]
  <2>1. After(cat, s) = [cat EXCEPT !.code[s.routine].open = @ \cup {s.grantee}]
    BY <1>2 DEF After
  <2>2. QED
    BY <1>1, <2>1 DEF Catalogs
<1>4. fn \in cat.routines
  BY <1>2 DEF Refused, NeedsRoutine
<1>5. QED
  BY <1>1, <1>2, <1>3, <1>4 DEF Alike, Routine

LEMMA CodeRevoked ==
  ASSUME NEW cat, Coherent(cat), NEW s \in Statement, NEW fn \in Routines, ~Refused(cat, s), Takes(s, fn)
  PROVE  /\ fn \in cat.routines /\ fn \in After(cat, s).routines
         /\ Alike(cat.code[fn], After(cat, s).code[fn])
         /\ After(cat, s).code[fn].open = cat.code[fn].open \ {s.grantee}
<1>1. /\ cat \in Catalogs /\ s.kind \in Kinds /\ cat.routines \in SUBSET Routines
      /\ cat.code \in [Routines -> Routine] /\ cat.code[fn] \in Routine /\ s.routine \in Routines
  BY CodeFields
<1>2. s.kind = "revoke" /\ s.routine = fn
  BY DEF Takes
<1>3. /\ After(cat, s).routines = cat.routines
      /\ After(cat, s).code = [cat.code EXCEPT ![s.routine].open = @ \ {s.grantee}]
  <2>1. After(cat, s) = [cat EXCEPT !.code[s.routine].open = @ \ {s.grantee}]
    BY <1>2 DEF After
  <2>2. QED
    BY <1>1, <2>1 DEF Catalogs
<1>4. fn \in cat.routines
  BY <1>2 DEF Refused, NeedsRoutine
<1>5. QED
  BY <1>1, <1>2, <1>3, <1>4 DEF Alike, Routine

\* A statement that defines, drops, grants or revokes the function.
Concerns(s, fn) == Makes(s, fn) \/ Drops(s, fn) \/ Opens(s, fn) \/ Takes(s, fn)

LEMMA CodeUntouched ==
  ASSUME NEW cat, Coherent(cat), NEW s \in Statement, NEW fn \in Routines, ~Concerns(s, fn)
  PROVE  (fn \in After(cat, s).routines <=> fn \in cat.routines) /\ After(cat, s).code[fn] = cat.code[fn]
<1>1. /\ cat \in Catalogs /\ s.kind \in Kinds /\ cat.routines \in SUBSET Routines
      /\ cat.code \in [Routines -> Routine] /\ cat.code[fn] \in Routine /\ s.routine \in Routines
  BY CodeFields
<1>2. CASE s.kind = "create function"
  <2>1. s.routine # fn /\ After(cat, s) = Define(cat, s)
    BY <1>2 DEF Concerns, Makes, After
  <2>2. QED
    BY <1>1, <2>1 DEF Define, Catalogs
<1>3. CASE s.kind = "drop function"
  <2>1. s.routine # fn /\ After(cat, s) = [cat EXCEPT !.routines = @ \ {s.routine}, !.code[s.routine] = NoRoutine]
    BY <1>3 DEF Concerns, Drops, After
  <2>2. QED
    BY <1>1, <2>1 DEF Catalogs
<1>4. CASE s.kind = "grant"
  <2>1. s.routine # fn /\ After(cat, s) = [cat EXCEPT !.code[s.routine].open = @ \cup {s.grantee}]
    BY <1>4 DEF Concerns, Opens, After
  <2>2. QED
    BY <1>1, <2>1 DEF Catalogs
<1>5. CASE s.kind = "revoke"
  <2>1. s.routine # fn /\ After(cat, s) = [cat EXCEPT !.code[s.routine].open = @ \ {s.grantee}]
    BY <1>5 DEF Concerns, Takes, After
  <2>2. QED
    BY <1>1, <2>1 DEF Catalogs
<1>6. CASE s.kind \notin {"create function", "drop function", "grant", "revoke"}
  <2>1. After(cat, s).routines = cat.routines /\ After(cat, s).code = cat.code
    BY <1>1, <1>6 DEF After, Catalogs, Kinds, Rename, DefineView
  <2>2. QED
    BY <2>1
<1>7. QED
  BY <1>2, <1>3, <1>4, <1>5, <1>6

LEMMA StatementTracks ==
  ASSUME NEW cat, Coherent(cat), NEW s \in Statement, NEW fn \in Routines, ~Refused(cat, s),
         NEW d \in Known, NEW n \in Nat, ~Drops(s, fn), Tracks(d, cat, fn)
  PROVE  Tracks(Redefine(n, d, s), After(cat, s), fn)
<1>1. d[fn] \in Definition /\ cat.code[fn] \in Routine
  BY CodeFields DEF Known
<1>2. CASE Makes(s, fn)
  <2>1. Redefine(n, d, s)[fn] =
          [number |-> n, definer |-> s.definer, trigger |-> s.trigger, writes |-> s.writes]
    BY <1>2, CodeFields DEF Redefine, Known, Makes
  <2>2. /\ fn \in After(cat, s).routines
        /\ After(cat, s).code[fn] =
             [definer |-> s.definer, writes |-> s.writes, trigger |-> s.trigger,
              open |-> IF fn \in cat.routines THEN cat.code[fn].open ELSE {"public"}]
    BY <1>2, CodeCreated
  <2>3. QED
    BY <2>1, <2>2 DEF Tracks, Alike
<1>3. CASE ~Makes(s, fn)
  <2>1. Redefine(n, d, s)[fn] = d[fn]
    BY <1>3, CodeFields DEF Redefine, Known, Makes
  <2>2. CASE Opens(s, fn)
    <3>1. fn \in After(cat, s).routines /\ Alike(cat.code[fn], After(cat, s).code[fn])
      BY <2>2, CodeGranted
    <3>2. QED
      BY <2>1, <3>1 DEF Tracks, Alike
  <2>3. CASE Takes(s, fn)
    <3>1. fn \in After(cat, s).routines /\ Alike(cat.code[fn], After(cat, s).code[fn])
      BY <2>3, CodeRevoked
    <3>2. QED
      BY <2>1, <3>1 DEF Tracks, Alike
  <2>4. CASE ~Concerns(s, fn)
    <3>1. (fn \in After(cat, s).routines <=> fn \in cat.routines) /\ After(cat, s).code[fn] = cat.code[fn]
      BY <2>4, CodeUntouched
    <3>2. QED
      BY <2>1, <3>1 DEF Tracks
  <2>5. QED
    BY <1>3, <2>2, <2>3, <2>4 DEF Concerns
<1>4. QED
  BY <1>2, <1>3

LEMMA StatementCallable ==
  ASSUME NEW cat, Coherent(cat), NEW s \in Statement, NEW fn \in Routines, ~Refused(cat, s),
         ~Shuts(s, fn), Callable(cat, fn)
  PROVE  Callable(After(cat, s), fn)
<1>1. CASE Makes(s, fn)
  <2>1. After(cat, s).code[fn] =
          [definer |-> s.definer, writes |-> s.writes, trigger |-> s.trigger,
           open |-> IF fn \in cat.routines THEN cat.code[fn].open ELSE {"public"}]
    BY <1>1, CodeCreated
  <2>2. QED
    BY <2>1 DEF Callable
<1>2. CASE Drops(s, fn)
  <2>1. fn \notin After(cat, s).routines
    BY <1>2, CodeDropped
  <2>2. QED
    BY <2>1 DEF Callable
<1>3. CASE Opens(s, fn)
  <2>1. fn \in cat.routines /\ After(cat, s).code[fn].open = cat.code[fn].open \cup {s.grantee}
    BY <1>3, CodeGranted
  <2>2. QED
    BY <2>1 DEF Callable
<1>4. CASE Takes(s, fn)
  <2>1. fn \in cat.routines /\ After(cat, s).code[fn].open = cat.code[fn].open \ {s.grantee}
    BY <1>4, CodeRevoked
  <2>2. s.grantee # "public"
    BY <1>4 DEF Shuts, Takes
  <2>3. QED
    BY <2>1, <2>2 DEF Callable
<1>5. CASE ~Concerns(s, fn)
  <2>1. (fn \in After(cat, s).routines <=> fn \in cat.routines) /\ After(cat, s).code[fn] = cat.code[fn]
    BY <1>5, CodeUntouched
  <2>2. QED
    BY <2>1 DEF Callable
<1>6. QED
  BY <1>1, <1>2, <1>3, <1>4, <1>5 DEF Concerns

LEMMA StatementWithdrawn ==
  ASSUME NEW cat, Coherent(cat), NEW s \in Statement, NEW fn \in Routines, ~Refused(cat, s),
         \/ Withdrawn(cat, fn) /\ ~Drops(s, fn) /\ ~Opens(s, fn)
         \/ Shuts(s, fn) /\ s.grantee = "public"
  PROVE  Withdrawn(After(cat, s), fn)
<1>1. CASE Takes(s, fn)
  <2>1. fn \in After(cat, s).routines /\ After(cat, s).code[fn].open = cat.code[fn].open \ {s.grantee}
    BY <1>1, CodeRevoked
  <2>2. "public" \notin cat.code[fn].open \/ s.grantee = "public"
    BY DEF Withdrawn
  <2>3. QED
    BY <2>1, <2>2 DEF Withdrawn
<1>2. CASE ~Takes(s, fn)
  <2>1. Withdrawn(cat, fn) /\ ~Drops(s, fn) /\ ~Opens(s, fn)
    BY <1>2 DEF Shuts, Takes
  <2>2. CASE Makes(s, fn)
    <3>1. /\ fn \in After(cat, s).routines
          /\ After(cat, s).code[fn] =
               [definer |-> s.definer, writes |-> s.writes, trigger |-> s.trigger,
                open |-> IF fn \in cat.routines THEN cat.code[fn].open ELSE {"public"}]
      BY <2>2, CodeCreated
    <3>2. QED
      BY <2>1, <3>1 DEF Withdrawn
  <2>3. CASE ~Concerns(s, fn)
    <3>1. (fn \in After(cat, s).routines <=> fn \in cat.routines) /\ After(cat, s).code[fn] = cat.code[fn]
      BY <2>3, CodeUntouched
    <3>2. QED
      BY <2>1, <3>1 DEF Withdrawn
  <2>4. QED
    BY <1>2, <2>1, <2>2, <2>3 DEF Concerns
<1>3. QED
  BY <1>1, <1>2


\* A set of catalogs that statements do not leave, and a statement that leads into it.
Stays(S, stmts) == \A c \in S : \A s \in stmts : Coherent(c) /\ ~Refused(c, s) => After(c, s) \in S
Leads(S, s) == \A c \in Catalogs : Coherent(c) /\ ~Refused(c, s) => After(c, s) \in S

LEMMA FileStays ==
  ASSUME NEW cat, Coherent(cat), NEW q \in Seq(Statement), Applies(cat, q), NEW S, Stays(S, ToSet(q)),
         cat \in S \/ \E s \in ToSet(q) : Leads(S, s)
  PROVE  Applied(cat, q) \in S
<1>1. PICK db : /\ db[0] = cat /\ db[Len(q)] = Applied(cat, q)
                /\ \A k \in 0..Len(q) : Coherent(db[k])
                /\ \A k \in 1..Len(q) : ~Refused(db[k - 1], q[k]) /\ db[k] = After(db[k - 1], q[k])
  BY AppliedTrace
<1>2. PICK n \in Nat : n = Len(q) /\ q \in [1..n -> Statement]
  OBVIOUS
<1>3. \A k \in 0..n : Coherent(db[k]) /\ db[k] \in Catalogs
  BY <1>1, <1>2 DEF Coherent
<1>4. ASSUME NEW k \in 1..n
      PROVE  /\ ~Refused(db[k - 1], q[k]) /\ db[k] = After(db[k - 1], q[k]) /\ q[k] \in ToSet(q)
             /\ Coherent(db[k - 1]) /\ db[k - 1] \in Catalogs
  <2>1. k - 1 \in 0..n
    OBVIOUS
  <2>2. QED
    BY <1>1, <1>2, <1>3, <2>1 DEF ToSet
<1>5. \E j \in 0..n : db[j] \in S
  <2>1. CASE cat \in S
    BY <1>1, <2>1
  <2>2. CASE \E s \in ToSet(q) : Leads(S, s)
    <3>1. PICK s \in ToSet(q) : Leads(S, s)
      BY <2>2
    <3>2. PICK j \in 1..n : q[j] = s
      BY <1>2 DEF ToSet
    <3>3. db[j] \in S
      BY <1>4, <3>1, <3>2 DEF Leads
    <3>4. QED
      BY <3>3
  <2>3. QED
    BY <2>1, <2>2
<1>6. PICK j \in 0..n : db[j] \in S
  BY <1>5
<1> DEFINE T == {k \in 0..n : k >= j => db[k] \in S}
<1>7. 0 \in T
  BY <1>6
<1>8. ASSUME NEW k \in 0..n, k \in T, k < n PROVE k + 1 \in T
  <2>1. k + 1 \in 1..n /\ (k + 1) - 1 = k /\ k + 1 \in 0..n
    BY <1>8
  <2>2. CASE k + 1 = j
    BY <1>6, <2>1, <2>2
  <2>3. CASE k >= j
    <3>1. db[k] \in S
      BY <1>8, <2>3
    <3>2. db[k + 1] \in S
      BY <1>4, <2>1, <3>1 DEF Stays
    <3>3. QED
      BY <2>1, <3>2
  <2>4. CASE k + 1 < j
    BY <2>1, <2>4
  <2>5. QED
    BY <2>2, <2>3, <2>4
<1>9. n \in T
  <2> HIDE DEF T
  <2>1. 0..n \subseteq T
    BY <1>7, <1>8, CountingUp
  <2>2. QED
    BY <2>1
<1>10. QED
  BY <1>1, <1>2, <1>9

LEMMA HistoryStays ==
  ASSUME NEW fs \in SUBSET Files, IsFiniteSet(fs), Fresh(fs).ok, NEW S,
         \A f \in fs : Stays(S, ToSet(f.stmts)),
         EmptyCatalog \in S \/ \E f \in fs : \E s \in ToSet(f.stmts) : Leads(S, s)
  PROVE  Fresh(fs).cat \in S
<1> DEFINE q == InOrder(fs)
<1>1. PICK n \in Nat : n = Cardinality(fs) /\ q \in [1..n -> fs]
  BY OrderOfFiles
<1>2. PICK db : /\ db[0] = EmptyCatalog /\ db[Cardinality(fs)] = Fresh(fs).cat
                /\ \A k \in 0..Cardinality(fs) : Coherent(db[k])
                /\ \A k \in 1..Cardinality(fs) :
                      LET f == InOrder(fs)[k]
                      IN  /\ db[k - 1] = FreshBefore(fs, f).cat
                          /\ Applies(db[k - 1], f.stmts) /\ db[k] = Applied(db[k - 1], f.stmts)
  BY FreshSteps
<1>3. \A f \in fs : \E k \in 1..n : q[k] = f
  BY <1>1, OrderOfFiles
<1>4. ASSUME NEW k \in 1..n, NEW f \in fs, f = q[k], db[k - 1] \in S \/ \E s \in ToSet(f.stmts) : Leads(S, s)
      PROVE  db[k] \in S
  <2>1. k - 1 \in 0..n
    OBVIOUS
  <2>2. /\ Coherent(db[k - 1]) /\ Applies(db[k - 1], f.stmts) /\ db[k] = Applied(db[k - 1], f.stmts)
    BY <1>1, <1>2, <1>4, <2>1
  <2>3. f.stmts \in Seq(Statement)
    BY FileAssumption DEF File
  <2>4. QED
    BY <1>4, <2>2, <2>3, FileStays
<1> HIDE DEF q
<1>5. PICK j \in 0..n : db[j] \in S
  <2>1. CASE EmptyCatalog \in S
    BY <1>2, <2>1
  <2>2. CASE \E f \in fs : \E s \in ToSet(f.stmts) : Leads(S, s)
    <3>1. PICK f \in fs : \E s \in ToSet(f.stmts) : Leads(S, s)
      BY <2>2
    <3>2. PICK j \in 1..n : q[j] = f
      BY <1>3
    <3>3. db[j] \in S
      BY <1>4, <3>1, <3>2
    <3>4. QED
      BY <3>3
  <2>3. QED
    BY <2>1, <2>2
<1> DEFINE T == {k \in 0..n : k >= j => db[k] \in S}
<1>6. 0 \in T
  BY <1>5
<1>7. ASSUME NEW k \in 0..n, k \in T, k < n PROVE k + 1 \in T
  <2>1. k + 1 \in 1..n /\ (k + 1) - 1 = k /\ k + 1 \in 0..n
    BY <1>7
  <2>2. CASE k + 1 = j
    BY <1>5, <2>1, <2>2
  <2>3. CASE k >= j
    <3>1. db[k] \in S
      BY <1>7, <2>3
    <3>2. PICK f \in fs : f = q[k + 1]
      BY <1>1, <2>1
    <3>3. db[k + 1] \in S
      BY <1>4, <2>1, <3>1, <3>2
    <3>4. QED
      BY <2>1, <3>3
  <2>4. CASE k + 1 < j
    BY <2>1, <2>4
  <2>5. QED
    BY <2>2, <2>3, <2>4
<1>8. n \in T
  <2> HIDE DEF T
  <2>1. 0..n \subseteq T
    BY <1>6, <1>7, CountingUp
  <2>2. QED
    BY <2>1
<1>9. QED
  BY <1>1, <1>2, <1>8

Dropless(q, fn) == \A s \in ToSet(q) : ~Drops(s, fn)

LEMMA FileTracks ==
  ASSUME NEW cat, Coherent(cat), NEW d \in Known, NEW f \in Files, NEW q, q = f.stmts, Applies(cat, q),
         NEW fn \in Routines, Dropless(q, fn), Tracks(d, cat, fn)
  PROVE  Tracks(DefinedBy(d, f), Applied(cat, q), fn)
<1>1. q \in Seq(Statement) /\ f.number \in Nat
  BY FileAssumption DEF File
<1>2. PICK def : /\ def[0] = d /\ def[Len(q)] = DefinedBy(d, f)
                 /\ \A k \in 0..Len(q) : def[k] \in Known
                 /\ \A k \in 1..Len(q) : def[k] = Redefine(f.number, def[k - 1], q[k])
  BY RedefineTrace
<1>3. PICK db : /\ db[0] = cat /\ db[Len(q)] = Applied(cat, q)
                /\ \A k \in 0..Len(q) : Coherent(db[k])
                /\ \A k \in 1..Len(q) : ~Refused(db[k - 1], q[k]) /\ db[k] = After(db[k - 1], q[k])
  BY <1>1, AppliedTrace
<1>4. PICK n \in Nat : n = Len(q) /\ q \in [1..n -> Statement]
  BY <1>1
<1> DEFINE T == {k \in 0..n : Tracks(def[k], db[k], fn)}
<1>5. 0 \in T
  BY <1>2, <1>3
<1>6. ASSUME NEW k \in 0..n, k \in T, k < n PROVE k + 1 \in T
  <2>1. k + 1 \in 1..n /\ (k + 1) - 1 = k /\ k + 1 \in 0..n
    BY <1>6
  <2>2. PICK s : s = q[k + 1]
    OBVIOUS
  <2>3. /\ def[k + 1] = Redefine(f.number, def[k], s) /\ def[k] \in Known
        /\ db[k + 1] = After(db[k], s) /\ ~Refused(db[k], s) /\ Coherent(db[k])
        /\ s \in Statement /\ s \in ToSet(q)
    BY <1>2, <1>3, <1>4, <2>1, <2>2 DEF ToSet
  <2>4. Tracks(def[k], db[k], fn) /\ ~Drops(s, fn)
    BY <1>6, <2>3 DEF Dropless
  <2>5. Tracks(def[k + 1], db[k + 1], fn)
    BY <1>1, <2>3, <2>4, StatementTracks
  <2>6. QED
    BY <2>1, <2>5
<1>7. n \in T
  <2> HIDE DEF T
  <2>1. 0..n \subseteq T
    BY <1>5, <1>6, CountingUp
  <2>2. QED
    BY <2>1
<1>8. QED
  BY <1>2, <1>3, <1>4, <1>7

LEMMA FreshTracks ==
  ASSUME NEW fs \in SUBSET Files, IsFiniteSet(fs), Fresh(fs).ok, NEW fn \in Routines,
         \A f \in fs : Dropless(f.stmts, fn)
  PROVE  Tracks(FoldLeft(DefinedBy, Undefined, InOrder(fs)), Fresh(fs).cat, fn)
<1> DEFINE q == InOrder(fs)
           result == FoldLeft(DefinedBy, Undefined, q)
<1>1. PICK n \in Nat : n = Cardinality(fs) /\ Len(q) = n /\ q \in [1..n -> fs] /\ q \in Seq(Files)
  <2>1. q \in Seq(Files)
    BY OrderOfFiles
  <2>2. QED
    BY <2>1, OrderOfFiles
<1>2. PICK db : /\ db[0] = EmptyCatalog /\ db[Cardinality(fs)] = Fresh(fs).cat
                /\ \A k \in 0..Cardinality(fs) : Coherent(db[k])
                /\ \A k \in 1..Cardinality(fs) :
                      LET f == InOrder(fs)[k]
                      IN  /\ db[k - 1] = FreshBefore(fs, f).cat
                          /\ Applies(db[k - 1], f.stmts) /\ db[k] = Applied(db[k - 1], f.stmts)
  BY FreshSteps
<1>3. ASSUME NEW k \in 1..n
      PROVE  Applies(db[k - 1], q[k].stmts) /\ db[k] = Applied(db[k - 1], q[k].stmts)
  BY <1>1, <1>2
<1>4. PICK tr : /\ tr[0] = Undefined /\ tr[Len(q)] = result
                /\ \A k \in 0..Len(q) : tr[k] \in Known
                /\ \A k \in 1..Len(q) : tr[k] = DefinedBy(tr[k - 1], q[k])
  BY <1>1, LatestTrace
<1> HIDE DEF q, result
<1> DEFINE T == {k \in 0..n : Tracks(tr[k], db[k], fn)}
<1>5. 0 \in T
  <2>1. Tracks(Undefined, EmptyCatalog, fn)
    BY DEF Tracks, Alike, Undefined, EmptyCatalog, NoRoutine
  <2>2. tr[0] = Undefined /\ db[0] = EmptyCatalog /\ 0 \in 0..n
    BY <1>2, <1>4
  <2>3. QED
    BY <2>1, <2>2
<1>6. ASSUME NEW k \in 0..n, k \in T, k < n PROVE k + 1 \in T
  <2>1. k + 1 \in 1..n /\ (k + 1) - 1 = k /\ k + 1 \in 0..n
    BY <1>6
  <2>2. PICK f : f = q[k + 1]
    OBVIOUS
  <2>3. /\ f \in fs /\ f \in Files /\ Applies(db[k], f.stmts)
        /\ db[k + 1] = Applied(db[k], f.stmts) /\ Coherent(db[k])
        /\ tr[k + 1] = DefinedBy(tr[k], f) /\ tr[k] \in Known
    BY <1>1, <1>2, <1>3, <1>4, <2>1, <2>2
  <2>4. Tracks(tr[k], db[k], fn)
    BY <1>6
  <2>5. Tracks(tr[k + 1], db[k + 1], fn)
    BY <2>3, <2>4, FileTracks
  <2>6. QED
    BY <2>1, <2>5
<1>7. n \in T
  <2> HIDE DEF T
  <2>1. 0..n \subseteq T
    BY <1>5, <1>6, CountingUp
  <2>2. QED
    BY <2>1
<1>8. QED
  BY <1>1, <1>2, <1>4, <1>7 DEF q, result

\* Where the two orders of names agree, definer-grants reads the files as they are applied.
LEMMA LocaleIsOrder ==
  ASSUME NEW fs \in SUBSET Files, IsFiniteSet(fs), OrdersAgree(fs)
  PROVE  InLocale(fs) = InOrder(fs)
<1> DEFINE Sooner(f) == {g \in fs : g.locale < f.locale}
<1>1. \A f \in fs : Sooner(f) = Before(fs, f)
  BY DEF OrdersAgree, Before
<1>2. ASSUME NEW k \in 1..Cardinality(fs)
      PROVE  InLocale(fs)[k] = InOrder(fs)[k]
  <2>1. InLocale(fs)[k] = CHOOSE f \in fs : Cardinality(Sooner(f)) = k - 1
    BY DEF InLocale
  <2>2. \E f \in fs : Cardinality(Sooner(f)) = k - 1
    BY <1>1, PlaceTaken DEF Place
  <2> HIDE DEF Sooner
  <2>3. InLocale(fs)[k] \in fs /\ Cardinality(Sooner(InLocale(fs)[k])) = k - 1
    BY <2>1, <2>2
  <2>4. InOrder(fs)[k] \in fs /\ Place(fs, InOrder(fs)[k]) = k - 1
    BY OrderOfFiles
  <2>5. QED
    BY <1>1, <2>3, <2>4, PlaceTells DEF Place
<1>3. QED
  BY <1>2 DEF InLocale, InOrder

LEMMA LatestTracks ==
  ASSUME NEW fs \in SUBSET Files, IsFiniteSet(fs), Fresh(fs).ok, OrdersAgree(fs), NEW fn \in Routines,
         ~Dropped(fs, fn)
  PROVE  /\ Tracks(Latest(fs), Fresh(fs).cat, fn) /\ Latest(fs)[fn] \in Definition
         /\ \A f \in fs : Dropless(f.stmts, fn)
<1>1. ASSUME NEW f \in fs, NEW s \in ToSet(f.stmts), Drops(s, fn) PROVE FALSE
  <2>1. s \in OfKind(fs, {"drop function"}) /\ s.routine = fn
    BY <1>1 DEF Drops, OfKind
  <2>2. QED
    BY <2>1 DEF Dropped
<1>2. \A f \in fs : Dropless(f.stmts, fn)
  BY <1>1 DEF Dropless
<1>3. Latest(fs) = FoldLeft(DefinedBy, Undefined, InOrder(fs))
  BY LocaleIsOrder DEF Latest
<1>4. Tracks(Latest(fs), Fresh(fs).cat, fn)
  BY <1>2, <1>3, FreshTracks
<1>5. Latest(fs) \in Known
  <2>1. InOrder(fs) \in Seq(Files)
    BY OrderOfFiles
  <2>2. PICK n \in Nat : n = Len(InOrder(fs))
    BY <2>1
  <2>3. PICK tr : /\ tr[Len(InOrder(fs))] = FoldLeft(DefinedBy, Undefined, InOrder(fs))
                  /\ \A k \in 0..Len(InOrder(fs)) : tr[k] \in Known
    BY <2>1, LatestTrace
  <2>4. QED
    BY <1>3, <2>2, <2>3
<1>6. QED
  BY <1>2, <1>4, <1>5 DEF Known

\* What definer-grants reports is a function PUBLIC may call that writes as its owner.
THEOREM DefinersAreOpen == HistorySpec => []DefinerSound
<1>1. ASSUME HistoryInv PROVE DefinerSound
  <2>1. SUFFICES ASSUME OrdersAgree(repo), Fresh(repo).ok, NEW fn \in FindDefinerGrantViolations(repo),
                        ~Dropped(repo, fn)
                 PROVE  LET f == Fresh(repo).cat.code[fn]
                        IN  f.definer /\ f.writes /\ "public" \in f.open
    BY DEF DefinerSound
  <2>2. repo \in SUBSET Files /\ IsFiniteSet(repo)
    BY <1>1 DEF HistoryInv
  <2>3. /\ fn \in Routines /\ ~Revoked(repo, fn)
        /\ Latest(repo)[fn].definer /\ Latest(repo)[fn].writes
    BY DEF FindDefinerGrantViolations
  <2>4. Tracks(Latest(repo), Fresh(repo).cat, fn)
    BY <2>1, <2>2, <2>3, LatestTracks
  <2> DEFINE S == {c \in Catalogs : Callable(c, fn)}
  <2>5. ASSUME NEW f \in repo PROVE Stays(S, ToSet(f.stmts))
    <3>1. ASSUME NEW c \in S, NEW s \in ToSet(f.stmts), Coherent(c), ~Refused(c, s) PROVE After(c, s) \in S
      <4>1. s \in Statement
        <5>1. f.stmts \in Seq(Statement)
          BY <2>2, FileAssumption DEF File
        <5>2. QED
          BY <5>1 DEF ToSet
      <4>2. ~Shuts(s, fn)
        BY <2>3 DEF Shuts, Revoked
      <4>3. Coherent(After(c, s))
        BY <3>1, <4>1, AfterSound
      <4>4. Callable(After(c, s), fn)
        BY <2>3, <3>1, <4>1, <4>2, StatementCallable
      <4>5. QED
        BY <4>3, <4>4 DEF Coherent
    <3>2. QED
      BY <3>1 DEF Stays
  <2>6. EmptyCatalog \in S
    <3>1. EmptyCatalog \in Catalogs
      BY EmptySound DEF Coherent
    <3>2. Callable(EmptyCatalog, fn)
      BY DEF Callable, EmptyCatalog
    <3>3. QED
      BY <3>1, <3>2
  <2>7. Callable(Fresh(repo).cat, fn)
    <3>1. Fresh(repo).cat \in S
      <4> HIDE DEF S
      <4>1. QED
        BY <2>1, <2>2, <2>5, <2>6, HistoryStays
    <3>2. QED
      BY <3>1
  <2>8. Fresh(repo).cat.code[fn].definer /\ Fresh(repo).cat.code[fn].writes
    BY <2>3, <2>4 DEF Tracks, Alike
  <2>9. fn \in Fresh(repo).cat.routines
    BY <2>4, <2>8 DEF Tracks, NoRoutine
  <2>10. QED
    BY <2>7, <2>8, <2>9 DEF Callable
<1>2. QED
  BY <1>1, HistoryInvHolds, PTL

\* A function PUBLIC may call that writes as its owner is reported, the exceptions apart.
THEOREM OpenDefinersAreNamed == HistorySpec => []DefinerComplete
<1>1. ASSUME HistoryInv PROVE DefinerComplete
  <2>1. SUFFICES ASSUME OrdersAgree(repo), Fresh(repo).ok, NEW fn \in Routines,
                        NEW f, f = Fresh(repo).cat.code[fn],
                        f.definer, f.writes, ~f.trigger, "public" \in f.open,
                        fn \notin Allowlist, ~(Latest(repo)[fn].number <= Baseline), ~Dropped(repo, fn),
                        ~\E s \in OfKind(repo, {"grant"}) : s.routine = fn,
                        ~\E s \in OfKind(repo, {"revoke"}) : s.routine = fn /\ s.grantee = "anon"
                 PROVE  fn \in FindDefinerGrantViolations(repo)
    BY DEF DefinerComplete
  <2>2. repo \in SUBSET Files /\ IsFiniteSet(repo)
    BY <1>1 DEF HistoryInv
  <2>3. /\ Tracks(Latest(repo), Fresh(repo).cat, fn) /\ Latest(repo)[fn] \in Definition
        /\ \A g \in repo : Dropless(g.stmts, fn)
    BY <2>1, <2>2, LatestTracks
  <2>4. Latest(repo)[fn].definer /\ Latest(repo)[fn].writes /\ ~Latest(repo)[fn].trigger
    BY <2>1, <2>3 DEF Tracks, Alike
  <2>5. Latest(repo)[fn].number > Baseline
    BY <2>1, <2>3, FileAssumption DEF Definition
  <2> DEFINE S == {c \in Catalogs : Withdrawn(c, fn)}
  <2>6. ASSUME NEW g \in repo, NEW s \in ToSet(g.stmts)
        PROVE  s \in Statement /\ ~Drops(s, fn) /\ ~Opens(s, fn)
    <3>1. g.stmts \in Seq(Statement)
      BY <2>2, FileAssumption DEF File
    <3>2. s \in Statement
      BY <3>1 DEF ToSet
    <3>3. ~Drops(s, fn)
      BY <2>3 DEF Dropless
    <3>4. Opens(s, fn) => s \in OfKind(repo, {"grant"}) /\ s.routine = fn
      BY DEF Opens, OfKind
    <3>5. QED
      BY <2>1, <3>2, <3>3, <3>4
  <2>7. ASSUME NEW g \in repo PROVE Stays(S, ToSet(g.stmts))
    <3>1. ASSUME NEW c \in S, NEW s \in ToSet(g.stmts), Coherent(c), ~Refused(c, s) PROVE After(c, s) \in S
      <4>1. s \in Statement /\ ~Drops(s, fn) /\ ~Opens(s, fn) /\ Withdrawn(c, fn)
        BY <2>6
      <4>2. Coherent(After(c, s))
        BY <3>1, <4>1, AfterSound
      <4>3. Withdrawn(After(c, s), fn)
        BY <3>1, <4>1, StatementWithdrawn
      <4>4. QED
        BY <4>2, <4>3 DEF Coherent
    <3>2. QED
      BY <3>1 DEF Stays
  <2>8. ASSUME NEW g \in repo, NEW s \in ToSet(g.stmts), Shuts(s, fn) PROVE FALSE
    <3>1. s.grantee = "public"
      <4>1. s \in OfKind(repo, {"revoke"}) /\ s.routine = fn /\ s.grantee \in {"public", "anon"}
        BY <2>8 DEF Shuts, OfKind
      <4>2. QED
        BY <2>1, <4>1
    <3>2. Leads(S, s)
      <4>1. ASSUME NEW c \in Catalogs, Coherent(c), ~Refused(c, s) PROVE After(c, s) \in S
        <5>1. s \in Statement
          BY <2>6
        <5>2. Coherent(After(c, s))
          BY <4>1, <5>1, AfterSound
        <5>3. Withdrawn(After(c, s), fn)
          BY <2>8, <3>1, <4>1, <5>1, StatementWithdrawn
        <5>4. QED
          BY <5>2, <5>3 DEF Coherent
      <4>2. QED
        BY <4>1 DEF Leads
    <3>3. Fresh(repo).cat \in S
      <4> HIDE DEF S
      <4>1. QED
        BY <2>1, <2>2, <2>7, <3>2, HistoryStays
    <3>4. QED
      BY <2>1, <3>3 DEF Withdrawn
  <2>9. ~Revoked(repo, fn)
    BY <2>8 DEF Revoked, Shuts
  <2>10. QED
    BY <2>1, <2>4, <2>5, <2>9 DEF FindDefinerGrantViolations
<1>2. QED
  BY <1>1, HistoryInvHolds, PTL
=============================================================================
