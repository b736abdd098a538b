-------------------------- MODULE MCIteratedSearch --------------------------
EXTENDS IteratedSearch

(* Every expression with one or two engines.                               *)
MCConfigs == [engines : {1, 2}, pass_bound : BOOLEAN, repeat_last : BOOLEAN,
              continue_on_solve : BOOLEAN, continue_on_fail : BOOLEAN,
              exact : BOOLEAN, trivial : BOOLEAN]
=============================================================================
