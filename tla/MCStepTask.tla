----------------------------- MODULE MCStepTask -----------------------------
(* Instances of StepTask for TLC. *)
EXTENDS StepTask

\* Every kind of step.
AllJobs == DOMAIN First
Wait == {"wait"}
=============================================================================
