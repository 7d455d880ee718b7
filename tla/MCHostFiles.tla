---------------------------- MODULE MCHostFiles ----------------------------
(* A target for TLC to run HostFiles on. *)
EXTENDS HostFiles

CONSTANTS d1

Unit == [unit |-> TRUE, guard |-> "open"]
Config(guard) == [unit |-> FALSE, guard |-> guard]

\* A unit file, a configuration only root may read, one in a directory only
\* root may search.
MCPaths == <<Unit, Config("owned"), Config("hidden")>>

MCKeeps == {NoKeep, 0, 1, 2}
=============================================================================
