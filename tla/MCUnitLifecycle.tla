-------------------------- MODULE MCUnitLifecycle --------------------------
(* Command lines for TLC to run UnitLifecycle on. *)
EXTENDS UnitLifecycle

Plain == [kind |-> "service", verify |-> FALSE, enable |-> FALSE,
          restart |-> FALSE, reload |-> FALSE, wait |-> TRUE, force |-> FALSE,
          want |-> "ready", signal |-> FALSE]
Of(kind) == [Plain EXCEPT !.kind = kind]

MCVerbs ==
  {[Plain EXCEPT !.verify = v, !.restart = TRUE, !.force = f, !.enable = f] :
     v \in BOOLEAN, f \in BOOLEAN}
  \union {[Plain EXCEPT !.reload = TRUE, !.wait = w] : w \in BOOLEAN}
  \union {[Of("wait") EXCEPT !.want = w] : w \in {"ready", "running"}}
  \union {[Of("reload") EXCEPT !.signal = s] : s \in BOOLEAN}
  \union {Of("status"), Of("watch")}
=============================================================================
