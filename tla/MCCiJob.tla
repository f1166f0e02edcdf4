------------------------------- MODULE MCCiJob -------------------------------
(***************************************************************************)
(* Small jobs for checking CiJob with TLC.                                 *)
(***************************************************************************)
EXTENDS CiJobProperties

MCStatic  == <<"collisions", "grants">>
MCRuntime == <<"prove", "drift">>
MCPaths   == {"json1", "json2", "sarif1", "sarif2"}
MCJson    == <<"json1", "json2">>
MCSarif   == <<"sarif1", "sarif2">>

Plain == [cmd |-> "prove", json |-> "off", sarif |-> "off", markdown |-> "off",
          quiet |-> FALSE, help |-> FALSE, version |-> FALSE, unknown |-> FALSE]

Action == [kind |-> "action", args |-> Plain, command |-> "all", summary |-> TRUE,
           upload |-> TRUE, failOnError |-> TRUE, always |-> FALSE]
Shell(a) == [Action EXCEPT !.kind = "shell", !.args = a]

Lines ==
  {Plain, [Plain EXCEPT !.cmd = "bogus"], [Plain EXCEPT !.cmd = "help"],
   [Plain EXCEPT !.cmd = "init"], [Plain EXCEPT !.cmd = "list"],
   [Plain EXCEPT !.cmd = "list", !.json = "json1"], [Plain EXCEPT !.cmd = "list", !.json = "stdout"],
   [Plain EXCEPT !.version = TRUE], [Plain EXCEPT !.help = TRUE], [Plain EXCEPT !.unknown = TRUE],
   [Plain EXCEPT !.json = "blank"], [Plain EXCEPT !.json = "stdout"],
   [Plain EXCEPT !.json = "stdout", !.sarif = "stdout"],
   [Plain EXCEPT !.json = "json1", !.sarif = "stdout", !.quiet = TRUE],
   [Plain EXCEPT !.json = "json1", !.sarif = "json1"],
   [Plain EXCEPT !.cmd = "run", !.json = "json1", !.sarif = "sarif1", !.markdown = "summary"],
   [Plain EXCEPT !.cmd = "all", !.markdown = "stdout"]}

SmallJobs ==
  {<<Shell(a)>> : a \in Lines}
  \cup {<<Action>>, <<[Action EXCEPT !.upload = FALSE, !.summary = FALSE]>>,
        <<[Action EXCEPT !.command = "bogus", !.failOnError = FALSE]>>, <<[Action EXCEPT !.command = "list"]>>,
        <<[Action EXCEPT !.command = "run"], [Action EXCEPT !.command = "prove", !.always = TRUE]>>,
        <<[Action EXCEPT !.command = "prove", !.failOnError = FALSE], [Action EXCEPT !.command = "drift"]>>,
        <<Shell([Plain EXCEPT !.cmd = "init"]), [Action EXCEPT !.command = "run"]>>,
        <<[Action EXCEPT !.command = "prove"], Shell([Plain EXCEPT !.cmd = "run", !.sarif = "sarif1"])>>}

OneAction == {<<Action>>}
=============================================================================
