--------------------------- MODULE MCMuxySession ---------------------------
(* Instances of MuxySession for TLC. *)
EXTENDS MuxySession

\* One step per payload file, as at_step names them.
OwnIds == [s \in Steps |-> s]
\* The name every @remote step of a run is given: the run-wide native state
\* still carries step number 0 (remote.rs:544).
SharedIds == [s \in Steps |-> 1]
NoSteps == {}
AllSteps == Steps
FirstStep == {1}
=============================================================================
