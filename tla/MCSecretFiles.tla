--------------------------- MODULE MCSecretFiles ---------------------------
(* Files, operators and playbooks for TLC to run SecretFiles on. *)
EXTENDS SecretFiles, TLC

CONSTANTS p1, p2, ann, bob

MCHosts == <<"h1", "h2">>
MCPlains == {<<>>, [k \in {"K"} |-> "v"]}
MCFirst == {[k \in {"K"} |-> "v"]}
MCMissing == {{}, {"h2"}}
MCPlaybooks == {<<"own", "all">>}
MCSymmetry == Permutations({p1, p2}) \union Permutations({ann, bob})
=============================================================================
