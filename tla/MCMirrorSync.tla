---------------------------- MODULE MCMirrorSync ----------------------------
(* Mirror mode with one directory and a file in it. *)
EXTENDS MirrorSync

MCPaths == {"d", "d/f"}
MCPosition == [p \in MCPaths |-> IF p = "d" THEN 1 ELSE 2]
MCDirs == {"d"}
MCDirOf == [p \in {"d/f"} |-> "d"]

\* All of them; serve has no --dry-run.
MCCommands ==
  [op : {"pull", "push", "sync"}, delete : BOOLEAN, dry : BOOLEAN]
    \cup [op : {"serve"}, delete : BOOLEAN, dry : {FALSE}]
=============================================================================
