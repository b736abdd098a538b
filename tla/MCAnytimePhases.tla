--------------------------- MODULE MCAnytimePhases ---------------------------
EXTENDS AnytimePhases, TLC

Symmetry == Permutations(Requests)

(* The default expression: one engine, repeated as long as it improves.    *)
RepeatLast ==
    {[engines |-> 1, pass_bound |-> TRUE, repeat_last |-> TRUE,
      continue_on_solve |-> TRUE, continue_on_fail |-> FALSE,
      exact |-> TRUE, trivial |-> FALSE]}

(* A plain search, as a run of one phase.                                  *)
Single ==
    {[engines |-> 1, pass_bound |-> FALSE, repeat_last |-> FALSE,
      continue_on_solve |-> FALSE, continue_on_fail |-> FALSE,
      exact |-> TRUE, trivial |-> FALSE]}
=============================================================================
