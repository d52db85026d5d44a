-------------------------------- MODULE MCMcp --------------------------------
(* One process: the history of each depends on its own samples only.  Two   *)
(* calls of an enforcing server, which cannot tell their evidence apart.    *)
EXTENDS Mcp, TLC

CONSTANTS p1, c1, c2

MCTargets == [c \in Callers |-> "mcp-target"]

Enforcing ==
    [mode |-> "enforce", signal_quorum |-> 2, breach_required_samples |-> 3,
     breach_window_samples |-> 5, per_target_per_hour |-> 3, per_day |-> 5]

MCConfigs == [c \in Callers |-> Enforcing]
(* The calls are alike, and every property is one of states. *)
Alike == Permutations(Callers)
=============================================================================
