---------------------------- MODULE CiJobProperties ----------------------------
(***************************************************************************)
(* What the command line and the action promise a CI job.                  *)
(***************************************************************************)
EXTENDS CiJob

Guards == ToSet(AllGuards)
GuardResult == [guard : Guards, skipped : BOOLEAN, ok : BOOLEAN]
Content == [kind : Formats \cup {"catalogue", "absent", "torn"}, call : Nat,
            results : Seq(GuardResult)]

\* Every variable stays in its type; in particular a process only exits with a
\* documented code, or with the one of the signal that killed it.
TypeOK ==
  /\ args \in Args
  /\ pc \in {"idle", "parse", "guards", "emit", "exited"}
  /\ left \in Seq(Guards) /\ results \in Seq(GuardResult)
  /\ pending \in Seq(Formats) /\ stdout \in Seq(Formats \cup {"text"})
  /\ code \in {0, 1, 2, 137}
  /\ files \in [Paths -> Content] /\ summary \in Seq(Content)
  /\ config \in {"absent", "ok", "broken"}
  /\ calls \in Seq([args : Args, results : Seq(GuardResult), left : Seq(Guards), code : {0, 1, 2, 137}])
  /\ faults \in 0..MaxFaults
  /\ job \in Seq(Steps) /\ at \in 1..(Len(job) + 1)
  /\ stage \in {"next", "install", "launch", "running", "upload", "verdict", "end"}
  /\ outputs \in [1..Len(job) -> [result : {"none", "pass", "fail"}, code : {0, 1, 2, 137},
                                  sarifExists : BOOLEAN]]
  /\ uploads \in Seq([step : 1..Len(job), content : Content])
  /\ launched \in Seq(1..Len(job))
  /\ stepFailed \in BOOLEAN /\ jobFailed \in BOOLEAN

-----------------------------------------------------------------------------
Clean(c) == c.left = <<>> /\ Failed(c.results) = {}

Delivered(f) ==
  \/ args[f] = "off"
  \/ args[f] = "stdout" /\ stdout = <<f>>
  \/ f = "markdown" /\ args[f] = "summary" /\ summary # <<>>
       /\ Last(summary) = Doc(f, Len(calls), results)
  \/ f # "markdown" /\ args[f] \in Paths /\ files[args[f]] = Doc(f, Len(calls), results)

\* "0: every guard that ran passed". A guard command only exits 0 after every
\* guard of the command answered and none failed, and after every document the
\* command line names was delivered with exactly these results: a document that
\* was asked for is never silently left out of a green run. (Two documents that are
\* given one file overwrite each other: two may not share stdout, lines 140-151,
\* but nothing looks at the names of files.)
GreenCallDelivers ==
  pc = "exited" /\ code = 0 /\ ~Inform /\ GuardsOf(args.cmd) # <<>> =>
    /\ results # <<>> /\ Clean(Last(calls))
    /\ Len(results) = Len(GuardsOf(args.cmd))
    /\ args.json # args.sarif \/ args.json \notin Paths => \A f \in Formats : Delivered(f)

\* "Anything written to stdout as data means the human report has to get out of
\* the way": one process puts one thing on its stdout, the report or one document.
OneVoice == Len(stdout) <= 1

\* "--markdown appends, because its destination is a shared file": nothing an
\* earlier step wrote to the run summary is ever lost.
SummaryKept == [][IsPrefix(summary, summary')]_vars

\* A job that ends green: every step that may fail it ran a process that exited
\* 0, with every guard answered and none failed, however the process ended; and
\* no step, blocking or not, was a usage error.
GreenJobIsClean ==
  Over /\ ~jobFailed =>
    \A k \in 1..Len(calls) :
      LET s == job[launched[k]]
      IN  /\ s.kind = "shell" \/ s.failOnError => calls[k].code = 0 /\ Clean(calls[k])
          /\ calls[k].code # 2

\* "Namespaced by the action instance so two invocations in the same job don't
\* overwrite each other's artifacts": what a step uploads is the complete report
\* of its own process, never the file of an earlier step whose own run died.
UploadIsOwn ==
  \A u \in ToSet(uploads) :
    /\ u.content.kind = "sarif"
    /\ launched[u.content.call] = u.step
    /\ u.content.results = calls[u.content.call].results
    /\ calls[u.content.call].left = <<>>

Uploaded(k) == \E u \in ToSet(uploads) : u.content.call = k
Uploads(k) == job[launched[k]].kind = "action" /\ job[launched[k]].upload

\* "A guard failure is an expected outcome that still has to reach the SARIF
\* upload": when nothing around it fails, the report of every process that heard
\* all its guards is uploaded before the job's verdict, failures included.
FindingsUploaded ==
  Over /\ faults = 0 =>
    \A k \in 1..Len(calls) :
      Uploads(k) /\ calls[k].left = <<>> /\ calls[k].results # <<>> => Uploaded(k)

-----------------------------------------------------------------------------
(* A statement of the documentation that the code does not keep.           *)

\* The same sentence, of every guard failure: once a guard has answered "fail",
\* the failure reaches the upload.
FailureReachesUpload ==
  Over /\ faults = 0 =>
    \A k \in 1..Len(calls) : Uploads(k) /\ Failed(calls[k].results) # {} => Uploaded(k)
=============================================================================
