--------------------------- MODULE IteratedSearch ---------------------------
(***************************************************************************)
(* IteratedSearch (search_engines/iterated_search.cc): one child search    *)
(* after the other, each bounded by the cost of the best plan so far, all  *)
(* under one deadline.  A child is what HybridSearch shows of it: it ends, *)
(* with a plan or without one, and where the costs are exact its plan is   *)
(* below its bound.                                                        *)
(***************************************************************************)
EXTENDS Integers, Sequences

CONSTANTS
    Configs,    \* the search expressions to run
    MaxCost,    \* bound: plan costs are 0..MaxCost
    MaxPhases   \* bound: phases of a run

(* engines: length of engine_configs.  exact: a child's plan is below its  *)
(* bound (PlanBeatsBound of HybridSearch), as with integer costs.          *)
(* trivial: the initial state is a goal; the bound is tested only for      *)
(* successors, so a child may return the empty plan under any bound.       *)
Config == [engines : Nat \ {0}, pass_bound : BOOLEAN, repeat_last : BOOLEAN,
           continue_on_solve : BOOLEAN, continue_on_fail : BOOLEAN,
           exact : BOOLEAN, trivial : BOOLEAN]

ASSUME IteratedAssumption ==
    /\ Configs \subseteq Config
    /\ MaxCost \in Nat
    /\ MaxPhases \in Nat \ {0}

VARIABLES
    config,
    ppc,            \* where step() is
    phase, best_bound, last_phase_found_solution,
    plan_cost, phase_timed_out, \* of the child that has just ended
    incumbents,     \* costs of the plans saved
    expired,        \* the deadline has passed
    killed,         \* the process was killed from outside
    found           \* history: costs of all plans the children returned

plannerVars == <<config, ppc, phase, best_bound, last_phase_found_solution,
                 plan_cost, phase_timed_out, incumbents, expired, killed,
                 found>>

Infinity == MaxCost + 1     \* no plan, no bound
Points == {"next", "search", "save", "cleanup", "decide", "exited"}

PlannerInit ==
    /\ config \in Configs
    /\ ppc = "next" /\ phase = 0 /\ best_bound = Infinity
    /\ last_phase_found_solution = FALSE
    /\ plan_cost = Infinity /\ phase_timed_out = FALSE
    /\ incumbents = <<>> /\ found = {}
    /\ expired = FALSE /\ killed = FALSE

----------------------------------------------------------------------------
(* Variant: the last engine is repeated whatever it returned.              *)
HasEngineAlways == phase < config.engines \/ config.repeat_last

(* create_phase: an engine of its own for the phase, or the last one again *)
(* if it has just found a solution.                                        *)
HasEngine ==
    \/ phase < config.engines
    \/ config.repeat_last /\ last_phase_found_solution

(* Variant: a child starts without the bound.                              *)
UnboundedChild == Infinity

(* What the child's plan has to beat.                                      *)
ChildBound == IF config.pass_bound THEN best_bound ELSE Infinity

StartPhase ==
    /\ ppc = "next" /\ ~killed
    /\ HasEngine /\ ~expired
    /\ phase < MaxPhases
    /\ phase' = phase + 1
    /\ ppc' = "search"
    /\ UNCHANGED <<config, best_bound, last_phase_found_solution, plan_cost,
                   phase_timed_out, incumbents, expired, killed, found>>

(* No engine is left, or the deadline has passed between two phases.       *)
NoPhase ==
    /\ ppc = "next" /\ ~killed
    /\ ~HasEngine \/ expired
    /\ ppc' = "exited"
    /\ UNCHANGED <<config, phase, best_bound, last_phase_found_solution,
                   plan_cost, phase_timed_out, incumbents, expired, killed,
                   found>>

(* The child's search() returns.  A plan set in the very step during which *)
(* time runs out, the shared or the child's own, comes with the status     *)
(* TIMEOUT.                                                                *)
EndPhase ==
    /\ ppc = "search" /\ ~killed
    /\ \E cost \in 0..Infinity, timed_out \in BOOLEAN :
          /\ config.exact => \/ cost < ChildBound \/ cost = Infinity
                             \/ config.trivial /\ cost = 0
          /\ plan_cost' = cost
          /\ last_phase_found_solution' = (cost # Infinity)
          /\ found' = IF cost = Infinity THEN found ELSE found \cup {cost}
          /\ phase_timed_out' = timed_out
    /\ ppc' = "save"
    /\ UNCHANGED <<config, phase, best_bound, incumbents, expired, killed>>

(* Variant: the plan is saved whether or not it is better.                 *)
ImprovesAlways == last_phase_found_solution

(* Variant: every phase saves what its child returned.                     *)
ImprovesByEnding == TRUE

(* Variant: a phase that ran out of time is taken for one without a plan.  *)
ImprovesInTime ==
    last_phase_found_solution /\ ~phase_timed_out /\ plan_cost < best_bound

Improves == last_phase_found_solution /\ plan_cost < best_bound

SavePlan ==
    /\ ppc = "save" /\ ~killed
    /\ IF Improves
       THEN /\ incumbents' = Append(incumbents, plan_cost)
            /\ best_bound' = plan_cost
       ELSE UNCHANGED <<incumbents, best_bound>>
    /\ ppc' = "cleanup"
    /\ UNCHANGED <<config, phase, last_phase_found_solution, plan_cost,
                   phase_timed_out, expired, killed, found>>

(* print_statistics of the child, which stops its bridge.                  *)
Cleanup ==
    /\ ppc = "cleanup" /\ ~killed
    /\ ppc' = "decide"
    /\ UNCHANGED <<config, phase, best_bound, last_phase_found_solution,
                   plan_cost, phase_timed_out, incumbents, expired, killed,
                   found>>

(* The early return when time is up, and step_return_value.                *)
Continues ==
    /\ ~(phase_timed_out /\ expired)
    /\ IF last_phase_found_solution THEN config.continue_on_solve
                                    ELSE config.continue_on_fail

(* SearchEngine::search tests the deadline before the next step, too.      *)
Decide ==
    /\ ppc = "decide" /\ ~killed
    /\ ppc' = IF Continues /\ ~expired THEN "next" ELSE "exited"
    /\ UNCHANGED <<config, phase, best_bound, last_phase_found_solution,
                   plan_cost, phase_timed_out, incumbents, expired, killed,
                   found>>

Expire ==
    /\ ppc # "exited" /\ ~expired
    /\ expired' = TRUE
    /\ UNCHANGED <<config, ppc, phase, best_bound, last_phase_found_solution,
                   plan_cost, phase_timed_out, incumbents, killed, found>>

Kill ==
    /\ ppc # "exited" /\ ~killed
    /\ killed' = TRUE
    /\ UNCHANGED <<config, ppc, phase, best_bound, last_phase_found_solution,
                   plan_cost, phase_timed_out, incumbents, expired, found>>

(* The run is over, or has used up the bound on its phases.                *)
Over ==
    /\ \/ ppc = "exited" \/ killed
       \/ ppc = "next" /\ phase = MaxPhases
    /\ UNCHANGED plannerVars

PlannerStep ==
    StartPhase \/ NoPhase \/ EndPhase \/ SavePlan \/ Cleanup \/ Decide

PlannerNext == PlannerStep \/ Expire \/ Kill \/ Over

PlannerSpec == PlannerInit /\ [][PlannerNext]_plannerVars

(* A child search ends (SearchEnds of HybridSearch) and the code between   *)
(* two searches runs on; the deadline and a kill are never owed.           *)
PlannerFairSpec == PlannerSpec /\ WF_plannerVars(PlannerStep)

----------------------------------------------------------------------------
PlannerTypeOK ==
    /\ config \in Configs
    /\ ppc \in Points
    /\ phase \in 0..MaxPhases
    /\ best_bound \in 0..Infinity
    /\ last_phase_found_solution \in BOOLEAN
    /\ plan_cost \in 0..Infinity
    /\ phase_timed_out \in BOOLEAN
    /\ incumbents \in Seq(0..MaxCost)
    /\ expired \in BOOLEAN /\ killed \in BOOLEAN
    /\ found \subseteq 0..MaxCost

(* The saved plans get cheaper and cheaper, even when a child does not     *)
(* respect its bound (fractional costs) or is not given one, and the bound *)
(* of the next phase is the cost of the last saved plan.                   *)
IncumbentsImprove ==
    /\ \A i, j \in 1..Len(incumbents) :
          i < j => incumbents[j] < incumbents[i]
    /\ incumbents # <<>> => best_bound = incumbents[Len(incumbents)]

(* No plan a phase found is lost: outside of the few lines between the     *)
(* child's return and save_plan, the best of all plans found is saved,     *)
(* also after a kill, and when the child's status is TIMEOUT.              *)
BestPlanKept ==
    ppc # "save" =>
        /\ \A c \in found : best_bound <= c
        /\ best_bound # Infinity => best_bound \in found

(* Passing the bound pays: where costs are exact a solved phase always     *)
(* improves on the phases before it, so no phase repeats a search in vain. *)
(* Only the empty plan may be found again.                                 *)
SolvedPhaseImproves ==
    /\ config.exact /\ config.pass_bound
    /\ ppc \in {"cleanup", "decide"} /\ last_phase_found_solution
    => Len(incumbents) > 0 /\ incumbents[Len(incumbents)] = plan_cost

(* repeat_last goes on only after a solution, and with exact costs every   *)
(* solution is better than the last: the run ends without a deadline,      *)
(* unless the initial state is a goal.                                     *)
RunEnds ==
    config.exact /\ config.pass_bound /\ ~config.trivial
        ~> (ppc = "exited" \/ killed)
=============================================================================
