---------------------------- MODULE MCDevHarness ----------------------------
(* Instances of DevHarness for model checking.                               *)
EXTENDS DevHarness, TLC

CONSTANTS w, edit, cmd, task

\* One call of each of three tools.
Tools == edit :> "write_file" @@ cmd :> "run_command" @@ task :> "Task"
=============================================================================
