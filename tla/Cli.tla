--------------------------------- MODULE Cli ---------------------------------
(***************************************************************************)
(* One tenant-guard process (src/bin/tenant-guard.mjs): it parses its      *)
(* arguments, runs the guards of its command one after the other           *)
(* (src/src/index.mjs), prints the report, writes the documents asked for  *)
(* in a fixed order and exits. A guard may throw, a write may fail, the    *)
(* process may be killed. Calls follow one another and share the files.    *)
(***************************************************************************)
EXTENDS Naturals, Sequences, FiniteSets, SequencesExt

CONSTANTS StaticGuards,   \* Seq: GUARDS, in the order runAll maps them
          RuntimeGuards,  \* Seq: the order of runEverything
          Paths,          \* files a JSON or SARIF document may be written to
          MaxFaults       \* BOUND: writes that fail and kills, over all calls

Formats == {"json", "sarif", "markdown"}
Targets(someFiles) == someFiles \cup {"off", "stdout", "blank"}

\* The command line: a command, a target per format, the other flags. "summary"
\* is the file the job's steps share, $GITHUB_STEP_SUMMARY.
Args == [cmd: STRING, json: Targets(Paths), sarif: Targets(Paths),
         markdown: Targets({"summary"}),
         quiet: BOOLEAN, help: BOOLEAN, version: BOOLEAN, unknown: BOOLEAN]

AllGuards == StaticGuards \o RuntimeGuards

ASSUME GuardAssumption ==
  /\ StaticGuards \in Seq(STRING) /\ RuntimeGuards \in Seq(STRING)
  /\ IsInjective(AllGuards)
  /\ \A g \in ToSet(AllGuards) : g \notin {"run", "all", "list", "init", "help"}

\* A literal is a string (the provers' encoding of strings does not say so).
ASSUME WordAssumption == "run" \in STRING

\* A file name is not one of the spellings that mean something else.
ASSUME PathAssumption == Paths \cap {"off", "stdout", "blank"} = {}

ASSUME FaultAssumption == MaxFaults \in Nat

VARIABLES args,      \* the command line of the process
          pc,        \* where the process is; "idle" when there is none
          left,      \* guards still to run
          results,   \* Seq of guard results
          pending,   \* formats still to write
          stdout,    \* what the process printed
          code,      \* its exit code
          files,     \* [Paths -> what the data file holds]
          summary,   \* the shared markdown file: Seq of what was appended to it
          config,    \* tenant-guard.config.json: "absent", "ok" or "broken"
          calls,     \* finished processes: Seq of [args, results, left, code]
          faults     \* failed writes and kills so far

process == <<args, pc, left, results, pending, stdout, code>>
disk    == <<files, summary, config>>
cliVars == <<process, disk, calls, faults>>

-----------------------------------------------------------------------------
(* Results and documents: src/src/output/json.mjs.                         *)

Result(g, outcome) == [guard |-> g, skipped |-> outcome = "skip", ok |-> outcome # "fail"]

StatusOf(r) == IF r.skipped THEN "skip" ELSE IF r.ok THEN "pass" ELSE "fail"

Failed(rs) == {r.guard : r \in {x \in ToSet(rs) : StatusOf(x) = "fail"}}

\* MUTANT of SummaryCode: the number of failed guards.
FailureCount(rs) == Cardinality(Failed(rs))

\* summarise(results).exitCode: also what the JSON document says.
SummaryCode(rs) == IF Failed(rs) # {} THEN 1 ELSE 0

\* Of a document: its format, the call that wrote it and the results it reports.
\* A write that fails half way leaves a torn file.
Doc(f, k, rs) == [kind |-> f, call |-> k, results |-> rs]
Catalogue(k) == [kind |-> "catalogue", call |-> k, results |-> <<>>]
Absent == [kind |-> "absent", call |-> 0, results |-> <<>>]
Torn(k) == [kind |-> "torn", call |-> k, results |-> <<>>]

ThisCall == Len(calls) + 1

CliInit ==
  /\ pc = "idle" /\ left = <<>> /\ results = <<>> /\ pending = <<>> /\ stdout = <<>>
  /\ code = 0 /\ calls = <<>> /\ faults = 0
  /\ args = [cmd |-> "run", json |-> "off", sarif |-> "off", markdown |-> "off",
             quiet |-> FALSE, help |-> FALSE, version |-> FALSE, unknown |-> FALSE]
  /\ files = [p \in Paths |-> Absent] /\ summary = <<>>
  /\ config \in {"absent", "ok", "broken"}

\* A process starts with a command line.
Start(command) ==
  /\ pc = "idle"
  /\ args' = command /\ pc' = "parse"
  /\ left' = <<>> /\ results' = <<>> /\ pending' = <<>> /\ stdout' = <<>> /\ code' = 0
  /\ UNCHANGED <<disk, calls, faults>>

ExitWith(n) ==
  /\ code' = n /\ pc' = "exited"
  /\ calls' = Append(calls, [args |-> args, results |-> results, left |-> left, code |-> n])
  /\ UNCHANGED <<args, left, results, pending>>

-----------------------------------------------------------------------------
(* Arguments: lines 84-154 and 221-223.                                    *)

\* MUTANT of BlankTarget: "--json=" is accepted, and means no document.
BlankAccepted == FALSE

\* "--json=" with nothing after it, e.g. from an unset variable.
BlankTarget == \E f \in Formats : args[f] = "blank"

ToStdout == {f \in Formats : args[f] = "stdout"}
BadUsage == args.unknown \/ BlankTarget \/ (~args.version /\ Cardinality(ToStdout) > 1)

\* MUTANT of Quiet: a document on stdout does not silence the report.
QuietFlag == args.quiet

Quiet == args.quiet \/ ToStdout # {}

GuardsOf(cmd) ==
  CASE cmd = "run" -> StaticGuards
    [] cmd = "all" -> AllGuards
    [] cmd \in ToSet(RuntimeGuards) -> <<cmd>>
    [] OTHER -> <<>>

Commands == {"run", "all", "list", "init", "help"} \cup ToSet(RuntimeGuards)

RejectUsage ==
  /\ pc = "parse"
  /\ BadUsage \/ ~(args.version \/ args.help \/ args.cmd \in Commands)
  /\ ExitWith(2) /\ UNCHANGED <<stdout, disk, faults>>

Inform == args.version \/ args.help \/ args.cmd = "help"

\* --version, --help.
PrintHelp ==
  /\ pc = "parse" /\ ~BadUsage /\ Inform
  /\ stdout' = <<"text">>
  /\ ExitWith(0) /\ UNCHANGED <<disk, faults>>

Dispatch ==
  /\ pc = "parse" /\ ~BadUsage /\ ~Inform /\ GuardsOf(args.cmd) # <<>>
  /\ left' = GuardsOf(args.cmd)
  /\ pc' = "guards"
  /\ UNCHANGED <<args, results, pending, stdout, code, disk, calls, faults>>

-----------------------------------------------------------------------------
(* The guards: runAll, runEverything, or the one of a runtime command.     *)

RunGuard ==
  /\ pc = "guards" /\ left # <<>> /\ config # "broken"
  /\ \E outcome \in {"pass", "fail", "skip"} :
       results' = Append(results, Result(Head(left), outcome))
  /\ left' = Tail(left)
  /\ UNCHANGED <<args, pc, pending, stdout, code, disk, calls, faults>>

\* A guard rejects, or loadConfig does on a config it cannot parse: nothing
\* catches it, and the results so far are gone.
GuardThrows ==
  /\ pc = "guards" /\ left # <<>>
  /\ ExitWith(1) /\ UNCHANGED <<stdout, disk, faults>>

\* The documents asked for, in the order emit() writes them.
Asked(f) == IF args[f] \in {"off", "blank"} THEN <<>> ELSE <<f>>
Wanted == Asked("json") \o Asked("sarif") \o Asked("markdown")

\* emit(): the report, unless it is silenced, then the documents in this order.
Report ==
  /\ pc = "guards" /\ left = <<>>
  /\ stdout' = IF Quiet THEN <<>> ELSE <<"text">>
  /\ pending' = Wanted
  /\ pc' = "emit"
  /\ UNCHANGED <<args, left, results, code, disk, calls, faults>>

\* MUTANT of Written: the summary is written like the data files.
SummaryOverwritten(f, content) ==
  IF f = "markdown" THEN summary' = <<content>> /\ UNCHANGED files
  ELSE files' = [files EXCEPT ![args[f]] = content] /\ UNCHANGED summary

\* Markdown appends, data formats overwrite.
Written(f, content) ==
  IF f = "markdown" THEN summary' = Append(summary, content) /\ UNCHANGED files
  ELSE files' = [files EXCEPT ![args[f]] = content] /\ UNCHANGED summary

\* writeOut: a document goes to stdout or to its file.
WriteDocument ==
  /\ pc = "emit" /\ pending # <<>>
  /\ LET f == Head(pending)
     IN  IF args[f] = "stdout"
           THEN stdout' = Append(stdout, f) /\ UNCHANGED <<files, summary>>
           ELSE Written(f, Doc(f, ThisCall, results)) /\ UNCHANGED stdout
  /\ pending' = Tail(pending)
  /\ UNCHANGED <<args, pc, left, results, code, config, calls, faults>>

\* A directory that cannot be made, a full disk: the exception ends the process.
WriteFails ==
  /\ pc = "emit" /\ pending # <<>> /\ args[Head(pending)] # "stdout"
  /\ faults < MaxFaults /\ faults' = faults + 1
  /\ Written(Head(pending), Torn(ThisCall)) \/ UNCHANGED <<files, summary>>
  /\ ExitWith(1) /\ UNCHANGED <<stdout, config>>

Finish ==
  /\ pc = "emit" /\ pending = <<>>
  /\ ExitWith(SummaryCode(results)) /\ UNCHANGED <<stdout, disk, faults>>

-----------------------------------------------------------------------------
(* list and init.                                                          *)

List ==
  /\ pc = "parse" /\ ~BadUsage /\ ~Inform /\ args.cmd = "list"
  /\ \/ args.json = "off" /\ stdout' = <<"text">> /\ UNCHANGED files
     \/ args.json = "stdout" /\ stdout' = <<"json">> /\ UNCHANGED files
     \/ /\ args.json \in Paths
        /\ files' = [files EXCEPT ![args.json] = Catalogue(ThisCall)] /\ UNCHANGED stdout
  /\ ExitWith(0) /\ UNCHANGED <<summary, config, faults>>

\* An existing config is never overwritten.
InitConfig ==
  /\ pc = "parse" /\ ~BadUsage /\ ~Inform /\ args.cmd = "init"
  /\ config' = IF config = "absent" THEN "ok" ELSE config
  /\ stdout' = <<"text">>
  /\ ExitWith(0) /\ UNCHANGED <<files, summary, faults>>

\* The one file list or init writes cannot be written.
PlainWriteFails ==
  /\ pc = "parse" /\ ~BadUsage /\ ~Inform
  /\ \/ args.cmd = "list" /\ args.json \in Paths
     \/ args.cmd = "init" /\ config = "absent"
  /\ faults < MaxFaults /\ faults' = faults + 1
  /\ ExitWith(1) /\ UNCHANGED <<stdout, disk>>

\* The runner kills the process: out of memory, a signal.
Killed ==
  /\ pc \in {"parse", "guards", "emit"}
  /\ faults < MaxFaults /\ faults' = faults + 1
  /\ ExitWith(137) /\ UNCHANGED <<stdout, disk>>

Process ==
  \/ RejectUsage \/ PrintHelp \/ Dispatch
  \/ RunGuard \/ GuardThrows \/ Report \/ WriteDocument \/ WriteFails \/ Finish
  \/ List \/ InitConfig \/ PlainWriteFails \/ Killed
=============================================================================
