--------------------------- MODULE MCRunScheduler ---------------------------
(* Playbooks for TLC to run RunScheduler on. *)
EXTENDS RunScheduler

CONSTANTS h1, h2, ctl

On(kind, hosts) == [kind |-> kind, hosts |-> hosts, bad |-> "no",
                    stage |-> FALSE, transfers |-> 1]
Bad(step, how) == [step EXCEPT !.bad = how]
Copy(hosts, transfers) == [On("copy", hosts) EXCEPT !.stage = TRUE,
                                                    !.transfers = transfers]

MCHosts == {h1, h2}

\* Stage files on both hosts, then work on them.
DeployPlans == {<<Copy({h1, h2}, 1), On("remote", {h1, h2})>>}

\* The other kinds of step, and steps whose texts do not resolve.
MixedPlans == {
  <<On("local", {ctl}), On("command", {h1, h2})>>,
  <<On("helper", {h1}), On("wait", {h1, h2})>>,
  <<Copy({h1, h2}, 1), Bad(On("command", {h1}), "unset"), On("local", {ctl})>>,
  <<Copy({h1}, 2), Bad(On("assert", {h1}), "unset"), On("local", {ctl})>>,
  <<On("assert", {h1}), Bad(On("remote", {h1}), "target")>>,
  <<[On("localcopy", {ctl}) EXCEPT !.transfers = 2], On("local", {ctl})>>}
=============================================================================
