-------------------------------- MODULE CiJob --------------------------------
(***************************************************************************)
(* A CI job whose steps use the composite action of src/action.yml or run  *)
(* the CLI from a shell. Each action step installs the CLI, runs it with   *)
(* files of its own, publishes its outputs, uploads the SARIF file and then*)
(* decides whether the job fails. The processes are those of Cli.          *)
(***************************************************************************)
EXTENDS Cli

CONSTANTS Jobs,         \* jobs to start from: sequences of steps
          JsonPath,     \* the action's JSON file, per slot
          SarifPath     \* the action's SARIF file, per slot

\* An action step and its inputs, or a shell step with a command line. always is
\* the caller's "if: always()".
Steps == [kind: {"action", "shell"}, args: Args, command: STRING, summary: BOOLEAN,
          upload: BOOLEAN, failOnError: BOOLEAN, always: BOOLEAN]

ASSUME JobAssumption ==
  /\ Jobs \subseteq Seq(Steps)
  /\ JsonPath \in Seq(Paths) /\ SarifPath \in Seq(Paths)
  /\ \A j \in Jobs : Len(j) <= Len(JsonPath) /\ Len(j) <= Len(SarifPath)
  /\ IsInjective(JsonPath \o SarifPath)

\* The action keeps its files in $RUNNER_TEMP, under a name made for its step: no
\* shell step before it writes its own documents there.
ASSUME SlotAssumption ==
  \A j \in Jobs : \A k, m \in 1..Len(j) :
    k < m /\ j[k].kind = "shell" /\ j[m].kind = "action" =>
      SarifPath[m] \notin {j[k].args.json, j[k].args.sarif}

VARIABLES job,         \* the job, fixed by CiInit
          at,          \* its current step
          stage,       \* where the current step is
          outputs,     \* what the action steps published
          uploads,     \* Seq of [step, content]: code scanning
          launched,    \* the step of each process, in order (history)
          stepFailed,
          jobFailed

jobVars == <<job, at, stage, outputs, uploads, launched, stepFailed, jobFailed>>
vars == <<cliVars, jobVars>>

NoOutput == [result |-> "none", code |-> 0, sarifExists |-> FALSE]

CiInit ==
  /\ CliInit
  /\ job \in Jobs
  /\ at = 1 /\ stage = "next"
  /\ outputs = [k \in 1..Len(job) |-> NoOutput]
  /\ uploads = <<>> /\ launched = <<>> /\ stepFailed = FALSE /\ jobFailed = FALSE

-----------------------------------------------------------------------------
(* Steps of the job.                                                       *)

Runs == ~jobFailed \/ job[at].always

StepBegins ==
  /\ stage = "next" /\ at <= Len(job) /\ Runs
  /\ stage' = IF job[at].kind = "action" THEN "install" ELSE "launch"
  /\ stepFailed' = FALSE
  /\ UNCHANGED <<cliVars, job, at, outputs, uploads, jobFailed, launched>>

StepSkipped ==
  /\ stage = "next" /\ at <= Len(job) /\ ~Runs
  /\ at' = at + 1
  /\ UNCHANGED <<cliVars, job, stage, outputs, uploads, stepFailed, jobFailed, launched>>

StepEnds ==
  /\ stage = "end"
  /\ jobFailed' = (jobFailed \/ stepFailed)
  /\ at' = at + 1 /\ stage' = "next"
  /\ UNCHANGED <<cliVars, job, outputs, uploads, stepFailed, launched>>

-----------------------------------------------------------------------------
(* The steps of the action.                                                *)

\* Resolve the version, install the package and its driver.
Install ==
  /\ stage = "install"
  /\ stage' = "launch"
  /\ UNCHANGED <<cliVars, job, at, outputs, uploads, stepFailed, jobFailed, launched>>

\* MUTANT of Slot: every instance writes to the same files.
SharedSlot(k) == 1

\* $GITHUB_ACTION, unique per step of a job.
Slot(k) == k

ActionArgs(k) ==
  [cmd |-> job[k].command, json |-> JsonPath[Slot(k)], sarif |-> SarifPath[Slot(k)],
   markdown |-> IF job[k].summary THEN "summary" ELSE "off",
   quiet |-> FALSE, help |-> FALSE, version |-> FALSE, unknown |-> FALSE]

Launch ==
  /\ stage = "launch"
  /\ Start(IF job[at].kind = "action" THEN ActionArgs(at) ELSE job[at].args)
  /\ stage' = "running" /\ launched' = Append(launched, at)
  /\ UNCHANGED <<job, at, outputs, uploads, stepFailed, jobFailed>>

Reap ==
  /\ stage = "running" /\ pc = "exited"
  /\ pc' = "idle"
  /\ UNCHANGED <<args, left, results, pending, stdout, code, disk, calls, faults>>

\* A shell step fails with its command.
ShellEnds ==
  /\ Reap /\ job[at].kind = "shell"
  /\ stepFailed' = (code # 0) /\ stage' = "end"
  /\ UNCHANGED <<job, at, outputs, uploads, jobFailed, launched>>

\* test -s: a torn file may also be empty.
NonEmpty(content) ==
  CASE content.kind = "absent" -> {FALSE}
    [] content.kind = "torn" -> BOOLEAN
    [] OTHER -> {TRUE}

Outputs(exists) ==
  [result |-> IF code = 0 THEN "pass" ELSE "fail", code |-> code, sarifExists |-> exists]

\* MUTANT of Publish: the inherited errexit ends the step at the CLI's exit code.
PublishErrexit ==
  /\ Reap /\ job[at].kind = "action"
  /\ IF code # 0 THEN stepFailed' = TRUE /\ stage' = "end" /\ UNCHANGED outputs
     ELSE /\ \E exists \in NonEmpty(files[SarifPath[Slot(at)]]) :
               outputs' = [outputs EXCEPT ![at] = Outputs(exists)]
          /\ stage' = "upload" /\ UNCHANGED stepFailed
  /\ UNCHANGED <<job, at, uploads, jobFailed, launched>>

\* With set +e around the CLI: the outputs are written whatever it exits with;
\* bad usage then fails the step at once.
Publish ==
  /\ Reap /\ job[at].kind = "action"
  /\ \E exists \in NonEmpty(files[SarifPath[Slot(at)]]) :
       outputs' = [outputs EXCEPT ![at] = Outputs(exists)]
  /\ IF code = 2 THEN stepFailed' = TRUE /\ stage' = "end"
     ELSE stage' = "upload" /\ UNCHANGED stepFailed
  /\ UNCHANGED <<job, at, uploads, jobFailed, launched>>

\* codeql-action/upload-sarif, which refuses a file it cannot parse.
Upload ==
  /\ stage = "upload"
  /\ LET sarif == files[SarifPath[Slot(at)]]
     IN  IF ~(job[at].upload /\ outputs[at].sarifExists)
           THEN stage' = "verdict" /\ UNCHANGED <<uploads, stepFailed>>
         ELSE IF sarif.kind = "torn"
           THEN stepFailed' = TRUE /\ stage' = "end" /\ UNCHANGED uploads
         ELSE /\ uploads' = Append(uploads, [step |-> at, content |-> sarif])
              /\ stage' = "verdict" /\ UNCHANGED stepFailed
  /\ UNCHANGED <<cliVars, job, at, outputs, jobFailed, launched>>

\* MUTANT of Verdict: only exit code 1 fails the job.
VerdictOnOne ==
  /\ stage = "verdict"
  /\ stepFailed' = (job[at].failOnError /\ outputs[at].code = 1)
  /\ stage' = "end"
  /\ UNCHANGED <<cliVars, job, at, outputs, uploads, jobFailed, launched>>

Verdict ==
  /\ stage = "verdict"
  /\ stepFailed' = (job[at].failOnError /\ outputs[at].code # 0)
  /\ stage' = "end"
  /\ UNCHANGED <<cliVars, job, at, outputs, uploads, jobFailed, launched>>

\* npm, or the upload service, is not reachable: the step fails.
ServiceFails ==
  /\ stage \in {"install", "upload"}
  /\ stage = "upload" => job[at].upload /\ outputs[at].sarifExists
  /\ faults < MaxFaults /\ faults' = faults + 1
  /\ stepFailed' = TRUE /\ stage' = "end"
  /\ UNCHANGED <<process, disk, calls, job, at, outputs, uploads, jobFailed, launched>>

-----------------------------------------------------------------------------
Over == stage = "next" /\ at > Len(job)

Next ==
  \/ Process /\ UNCHANGED jobVars
  \/ StepBegins \/ StepSkipped \/ StepEnds
  \/ Install \/ Launch \/ ShellEnds \/ Publish \/ Upload \/ Verdict \/ ServiceFails
  \/ Over /\ UNCHANGED vars

Spec == CiInit /\ [][Next]_vars
=============================================================================
