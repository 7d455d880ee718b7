---------------------------- MODULE MCSupervisor ----------------------------
(* Command lines for TLC to run Supervisor on. *)
EXTENDS Supervisor

MCConditions == {"port", "url", "file"}
MCDeclared == {{}, {"port"}, {"port", "url"}, {"port", "url", "file"}}
=============================================================================
