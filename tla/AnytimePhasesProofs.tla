------------------------- MODULE AnytimePhasesProofs -------------------------
(***************************************************************************)
(* What IteratedSearch promises, for every set of search expressions and   *)
(* every range of costs: the saved plans improve, no plan is lost, and     *)
(* with exact costs every solved phase improves on the ones before.  Then  *)
(* what AnytimePhases promises, for every number of phases, requests and   *)
(* search expressions: the planner's side is a run of IteratedSearch, a    *)
(* wait for the model is always within reach of its cancellation, and the  *)
(* records agree with what the planner made of its answers.                *)
(***************************************************************************)
EXTENDS AnytimePhases, SequenceTheorems, TLAPS

(* What the code between two searches leaves in its variables.             *)
PlanOK ==
    /\ last_phase_found_solution => plan_cost \in 0..MaxCost
    /\ (/\ ppc = "save" /\ last_phase_found_solution
        /\ config.exact /\ config.pass_bound)
       => plan_cost < best_bound \/ (plan_cost = 0 /\ best_bound = 0)

(* Every plan found is saved or dearer than a saved one, but for the plan  *)
(* at hand before it is compared.                                          *)
FoundOK ==
    /\ \A c \in found :
          \/ best_bound <= c
          \/ ppc = "save" /\ last_phase_found_solution /\ c = plan_cost
    /\ ppc = "save" /\ last_phase_found_solution => plan_cost \in found
    /\ best_bound # Infinity => best_bound \in found

(* No saved cost is below the bound.                                       *)
SavedOK ==
    /\ incumbents = <<>> => best_bound = Infinity
    /\ \A i \in 1..Len(incumbents) : best_bound <= incumbents[i]

IInv ==
    /\ PlannerTypeOK
    /\ PlanOK
    /\ FoundOK
    /\ SavedOK
    /\ IncumbentsImprove
    /\ SolvedPhaseImproves

(* The cost of nothing is above every cost.                                *)
LEMMA CostFacts ==
    /\ Infinity \in Nat
    /\ Infinity \notin 0..MaxCost
    /\ 0..MaxCost \subseteq 0..Infinity
    /\ \A c \in 0..Infinity : c # Infinity => c \in 0..MaxCost
    /\ \A c \in 0..MaxCost : c \in Nat /\ c < Infinity
BY IteratedAssumption DEF Infinity

(* IInv holds initially.                                                   *)
LEMMA InitIInv == PlannerInit => IInv
<1> SUFFICES ASSUME PlannerInit PROVE IInv
  OBVIOUS
<1>1. incumbents = <<>> /\ best_bound = Infinity
  BY DEF PlannerInit
<1>2. incumbents \in Seq(0..MaxCost) /\ Len(incumbents) = 0
  BY <1>1, EmptySeq, Zenon
<1>3. PlannerTypeOK
  <2>1. phase \in 0..MaxPhases
    BY IteratedAssumption DEF PlannerInit
  <2>2. best_bound \in 0..Infinity /\ plan_cost \in 0..Infinity
    BY CostFacts DEF PlannerInit
  <2> QED
    BY <1>2, <2>1, <2>2 DEF PlannerInit, PlannerTypeOK, Points
<1>4. PlanOK /\ FoundOK /\ SolvedPhaseImproves
  BY DEF PlannerInit, PlanOK, FoundOK, SolvedPhaseImproves
<1>5. SavedOK /\ IncumbentsImprove
  BY <1>1, <1>2 DEF SavedOK, IncumbentsImprove
<1> QED
  BY <1>3, <1>4, <1>5 DEF IInv

(* A child's plan meets its bound, and the plan at hand enters found.      *)
LEMMA EndPhaseIInv == IInv /\ EndPhase => IInv'
<1> SUFFICES ASSUME IInv, EndPhase PROVE IInv'
  OBVIOUS
<1> USE CostFacts DEF IInv
<1>1. PICK cost \in 0..Infinity, timed_out \in BOOLEAN :
          /\ config.exact => \/ cost < ChildBound \/ cost = Infinity
                             \/ config.trivial /\ cost = 0
          /\ plan_cost' = cost
          /\ last_phase_found_solution' = (cost # Infinity)
          /\ found' = IF cost = Infinity THEN found ELSE found \cup {cost}
          /\ phase_timed_out' = timed_out
  BY DEF EndPhase
<1>2. PlannerTypeOK'
  BY <1>1 DEF EndPhase, PlannerTypeOK, Points
<1>3. PlanOK'
  <2>1. config \in Config
    BY IteratedAssumption DEF PlannerTypeOK
  <2>2. cost # Infinity => cost \in 0..MaxCost
    OBVIOUS
  <2>3. config.exact /\ config.pass_bound /\ cost # Infinity
        => cost < best_bound \/ (cost = 0 /\ best_bound = 0)
    <3>1. config.exact /\ config.pass_bound /\ cost # Infinity
          => cost < best_bound \/ cost = 0
      BY <1>1, <2>1 DEF ChildBound
    <3>2. best_bound \in Nat
      BY DEF PlannerTypeOK
    <3> QED
      BY <3>1, <3>2
  <2> QED
    BY <1>1, <2>2, <2>3 DEF EndPhase, PlanOK
<1>4. FoundOK'
  <2>1. ppc = "search" /\ ppc' = "save" /\ best_bound' = best_bound
    BY DEF EndPhase
  <2>2. \A c \in found : best_bound <= c
    BY <2>1 DEF FoundOK
  <2>3. best_bound # Infinity => best_bound \in found
    BY DEF FoundOK
  <2>4. CASE cost = Infinity
    <3>1. found' = found /\ ~last_phase_found_solution'
      BY <1>1, <2>4
    <3> QED
      BY <2>1, <2>2, <2>3, <3>1 DEF FoundOK
  <2>5. CASE cost # Infinity
    <3>1. found' = found \cup {cost} /\ plan_cost' = cost
      BY <1>1, <2>5
    <3>2. last_phase_found_solution'
      BY <1>1, <2>5
    <3> QED
      BY <2>1, <2>2, <2>3, <3>1, <3>2 DEF FoundOK
  <2> QED
    BY <2>4, <2>5
<1>5. SavedOK' /\ IncumbentsImprove' /\ SolvedPhaseImproves'
  BY DEF EndPhase, SavedOK, IncumbentsImprove, SolvedPhaseImproves
<1> QED
  BY <1>2, <1>3, <1>4, <1>5

(* A plan is saved only if it is cheaper than the bound, which then is its *)
(* cost.                                                                   *)
LEMMA SavePlanIInv == IInv /\ SavePlan => IInv'
<1> SUFFICES ASSUME IInv, SavePlan PROVE IInv'
  OBVIOUS
<1> USE CostFacts DEF IInv
<1>1. CASE Improves
  <2>1. /\ incumbents' = Append(incumbents, plan_cost)
        /\ best_bound' = plan_cost
        /\ plan_cost < best_bound
        /\ plan_cost \in 0..MaxCost
        /\ last_phase_found_solution
    BY <1>1 DEF SavePlan, Improves, PlanOK
  <2>2. /\ incumbents \in Seq(0..MaxCost)
        /\ best_bound \in 0..Infinity /\ best_bound \in Int
        /\ plan_cost \in Int
    BY <2>1 DEF PlannerTypeOK
  <2>3. /\ incumbents' \in Seq(0..MaxCost)
        /\ Len(incumbents') = Len(incumbents) + 1
        /\ Len(incumbents) \in Nat
        /\ incumbents'[Len(incumbents) + 1] = plan_cost
        /\ \A i \in 1..Len(incumbents) :
              /\ incumbents'[i] = incumbents[i]
              /\ incumbents[i] \in 0..MaxCost
    <3> DEFINE S == 0..MaxCost
    <3>4. plan_cost \in S /\ incumbents \in Seq(S)
      BY <2>1, <2>2
    <3>1. /\ incumbents' \in Seq(S)
          /\ Len(incumbents') = Len(incumbents) + 1
          /\ incumbents'[Len(incumbents) + 1] = plan_cost
          /\ \A i \in 1..Len(incumbents) : incumbents'[i] = incumbents[i]
      <4>1. incumbents' = Append(incumbents, plan_cost)
        BY <2>1
      <4> HIDE DEF S
      <4>2. /\ Append(incumbents, plan_cost) \in Seq(S)
            /\ Len(Append(incumbents, plan_cost)) = Len(incumbents) + 1
            /\ Append(incumbents, plan_cost)[Len(incumbents) + 1]
               = plan_cost
            /\ \A i \in 1..Len(incumbents) :
                  Append(incumbents, plan_cost)[i] = incumbents[i]
        BY <3>4, AppendProperties
      <4> QED
        BY <4>1, <4>2, Zenon
    <3>2. Len(incumbents) \in Nat
      BY <2>2, LenProperties, Zenon
    <3>3. \A i \in 1..Len(incumbents) : incumbents[i] \in 0..MaxCost
      BY <2>2, ElementOfSeq, Zenon
    <3> QED
      BY <3>1, <3>2, <3>3
  <2>4. PlannerTypeOK'
    BY <2>1, <2>3 DEF SavePlan, PlannerTypeOK, Points
  <2>5. PlanOK'
    BY <2>1 DEF SavePlan, PlanOK
  <2>6. FoundOK'
    <3>1. \A c \in found : c \in Int
      BY DEF PlannerTypeOK
    <3>2. plan_cost \in found
      BY <2>1 DEF SavePlan, FoundOK
    <3>3. \A c \in found : plan_cost <= c
      BY <2>1, <2>2, <3>1 DEF FoundOK
    <3> QED
      BY <2>1, <3>2, <3>3 DEF SavePlan, FoundOK
  <2>7. SavedOK'
    <3>1. ASSUME NEW i \in 1..Len(incumbents')
          PROVE  best_bound' <= incumbents'[i]
      <4>1. CASE i = Len(incumbents) + 1
        BY <2>1, <2>2, <2>3, <4>1
      <4>2. CASE i \in 1..Len(incumbents)
        BY <2>1, <2>2, <2>3, <4>2 DEF SavedOK
      <4> QED
        BY <2>3, <4>1, <4>2
    <3>2. incumbents' # <<>>
      BY <2>3
    <3> QED
      BY <3>1, <3>2 DEF SavedOK
  <2>8. IncumbentsImprove'
    <3>1. ASSUME NEW i \in 1..Len(incumbents'),
                 NEW j \in 1..Len(incumbents'), i < j
          PROVE  incumbents'[j] < incumbents'[i]
      <4>1. i \in 1..Len(incumbents)
        BY <2>3, <3>1
      <4>2. CASE j = Len(incumbents) + 1
        BY <2>1, <2>2, <2>3, <4>1, <4>2 DEF SavedOK
      <4>3. CASE j \in 1..Len(incumbents)
        BY <2>3, <3>1, <4>1, <4>3 DEF IncumbentsImprove
      <4> QED
        BY <2>3, <4>2, <4>3
    <3>2. best_bound' = incumbents'[Len(incumbents')]
      BY <2>1, <2>3
    <3> QED
      BY <3>1, <3>2 DEF IncumbentsImprove
  <2>9. SolvedPhaseImproves'
    BY <2>1, <2>3 DEF SavePlan, SolvedPhaseImproves
  <2> QED
    BY <2>4, <2>5, <2>6, <2>7, <2>8, <2>9
<1>2. CASE ~Improves
  <2>1. UNCHANGED <<incumbents, best_bound>>
    BY <1>2 DEF SavePlan
  <2>2. PlannerTypeOK' /\ PlanOK' /\ SavedOK' /\ IncumbentsImprove'
    BY <2>1
    DEF SavePlan, PlannerTypeOK, PlanOK, SavedOK, IncumbentsImprove, Points
  <2>3. FoundOK'
    <3>1. \A c \in found : best_bound <= c
      BY <1>2 DEF FoundOK, PlannerTypeOK, Improves, PlanOK, SavePlan
    <3> QED
      BY <2>1, <3>1 DEF SavePlan, FoundOK
  <2>4. SolvedPhaseImproves'
    <3>1. SUFFICES ASSUME config.exact, config.pass_bound,
                          last_phase_found_solution
                   PROVE  /\ incumbents # <<>>
                          /\ best_bound = plan_cost
      BY <2>1, EmptySeq, LenProperties
      DEF SavePlan, SolvedPhaseImproves, IncumbentsImprove, PlannerTypeOK
    <3>2. plan_cost = 0 /\ best_bound = 0
      BY <1>2, <3>1 DEF SavePlan, PlanOK, Improves
    <3>3. Infinity # 0
      BY IteratedAssumption DEF Infinity
    <3> QED
      BY <3>2, <3>3 DEF SavedOK
  <2> QED
    BY <2>2, <2>3, <2>4
<1> QED
  BY <1>1, <1>2

(* The other steps leave the plans alone.                                  *)
LEMMA StepIInv == IInv /\ [PlannerNext]_plannerVars => IInv'
<1> SUFFICES ASSUME IInv, [PlannerNext]_plannerVars PROVE IInv'
  OBVIOUS
<1> USE DEF IInv, PlannerTypeOK, PlanOK, FoundOK, SavedOK,
            IncumbentsImprove, SolvedPhaseImproves, Points
<1>1. CASE StartPhase
  BY <1>1, IteratedAssumption DEF StartPhase
<1>2. CASE NoPhase
  BY <1>2 DEF NoPhase
<1>3. CASE EndPhase
  BY <1>3, EndPhaseIInv
<1>4. CASE SavePlan
  BY <1>4, SavePlanIInv
<1>5. CASE Cleanup
  BY <1>5 DEF Cleanup
<1>6. CASE Decide
  BY <1>6 DEF Decide
<1>7. CASE Expire
  BY <1>7 DEF Expire
<1>8. CASE Kill
  BY <1>8 DEF Kill
<1>9. CASE UNCHANGED plannerVars
  BY <1>9 DEF plannerVars
<1> QED
  BY <1>1, <1>2, <1>3, <1>4, <1>5, <1>6, <1>7, <1>8, <1>9
  DEF PlannerNext, PlannerStep, Over

(* The inductive invariant holds in every run.                             *)
THEOREM Invariance == PlannerSpec => []IInv
BY InitIInv, StepIInv, PTL DEF PlannerSpec

(* Every variable of IteratedSearch keeps its type.                        *)
THEOREM PlannerTypeCorrect == PlannerSpec => []PlannerTypeOK
<1>1. IInv => PlannerTypeOK
  BY DEF IInv
<1> QED
  BY <1>1, Invariance, PTL

(* IteratedSearch::step saves cheaper and cheaper plans, whether or not    *)
(* the children respect their bounds.                                      *)
THEOREM SavedPlansImprove == PlannerSpec => []IncumbentsImprove
<1>1. IInv => IncumbentsImprove
  BY DEF IInv
<1> QED
  BY <1>1, Invariance, PTL

(* The best plan any phase has found is saved, timeouts and kills between  *)
(* two statements included.                                                *)
THEOREM NoPlanLost == PlannerSpec => []BestPlanKept
<1>1. IInv => BestPlanKept
  BY DEF IInv, FoundOK, BestPlanKept
<1> QED
  BY <1>1, Invariance, PTL

(* Where costs are exact and the bound is passed, no phase repeats a       *)
(* search in vain.                                                         *)
THEOREM PassedBoundImproves == PlannerSpec => []SolvedPhaseImproves
<1>1. IInv => SolvedPhaseImproves
  BY DEF IInv
<1> QED
  BY <1>1, Invariance, PTL

----------------------------------------------------------------------------
(* The inductive invariant.                                                *)

(* The planner has left phase i.                                           *)
Ended(i) == killed \/ i < phase \/ ppc # "search"

Lines == {stdout[k] : k \in 1..Len(stdout)}

(* A request has a handler only once it was dispatched, one handler only,  *)
(* and a live place in the bridge only during its own phase.               *)
RequestOK(r) ==
    /\ life[r] # "new" => iteration[r] \in 1..phase
    /\ life[r] \in {"queued", "sent", "answered"} =>
          iteration[r] = phase /\ ppc \in {"search", "save", "cleanup"} /\ ~killed
    /\ life[r] \in {"dropped", "discarded"} => Ended(iteration[r])
    /\ life[r] \in {"new", "queued", "dropped"} =>
          hpc[r] = "none" /\ r \notin wire /\ row[r] = "none"
    /\ r \in wire => hpc[r] = "none"

(* The lines at a point of a phase; that of a completed exchange may stand *)
(* anywhere within it, and names no phase.                                 *)
Placed(line) == line.kind # "completed"

(* The order in which the planner writes them, and how far it is.          *)
Key(line) ==
    3 * line.iteration + (CASE line.kind = "phase_start" -> 0
                            [] line.kind = "phase_end"   -> 1
                            [] line.kind = "discarded"   -> 2)

Now == 3 * phase + (IF ppc = "search" THEN 0
                    ELSE IF ppc \in {"save", "cleanup"} THEN 1 ELSE 2)

PhaseCounts == ppc \notin {"next", "exited"} => phase # 0

Ordered == \A k \in 1..Len(stdout) : \A m \in 1..(k - 1) :
              Placed(stdout[m]) /\ Placed(stdout[k])
              => Key(stdout[m]) < Key(stdout[k])

(* The planner has taken the answer of an exchange that succeeded.         *)
Taken(r) == life[r] = "delivered" /\ answer[r] # "none"

SaysTrue(line) ==
    /\ Placed(line) => Key(line) <= Now /\ line.iteration # None
    /\ line.kind \in {"phase_start", "phase_end"} => line.requests = {}
    /\ \A r \in line.requests :
          /\ line.kind = "discarded" =>
                life[r] = "discarded" /\ iteration[r] = line.iteration
          /\ line.kind = "completed" => Taken(r)

LinesTrue == \A line \in Lines : SaysTrue(line)

LinesOK == PhaseCounts /\ Ordered /\ LinesTrue

(* Where the main thread is after the planner's end, and what it marks.    *)
ReaderOK ==
    /\ rpc = "mark" => marking <= phase /\ Ended(marking)
    /\ rpc \in {"stop", "joining", "closed"} =>
          stdout = <<>> /\ (ppc = "exited" \/ killed)
    /\ rpc = "closed" => HandlersGone

(* A row is stale because the phase has ended or because its handler found *)
(* it so; it is ok only by its handler, and an ok answer has such a row    *)
(* as long as the planner may still poll it.                               *)
RowOK(r) ==
    /\ row[r] \in Stale =>
          \/ Ended(iteration[r])
          \/ hpc[r] \in {"respond", "gone"} /\ hstatus[r] = "stale_iteration"
    /\ hpc[r] \in {"respond", "gone"} => row[r] \in {hstatus[r]} \cup Stale
    /\ row[r] = "ok" => hpc[r] \in {"respond", "gone"} /\ hstatus[r] = "ok"
    /\ answer[r] # "none" =>
          /\ hpc[r] = "gone" /\ answer[r] = hstatus[r]
          /\ life[r] \in {"answered", "delivered", "discarded"}
    /\ answer[r] = "ok" =>
          /\ life[r] = "delivered" => row[r] = "ok"
          /\ life[r] = "answered" => row[r] = "ok" \/ ppc # "search"

(* The end of phase i is still to be read.                                 *)
Awaited(i) ==
    killed \/ (i = phase /\ ppc = "search") \/ Line("phase_end", i, {}) \in Lines

(* The first line read is that of a start, and a phase is active only      *)
(* until the line of its end is read.                                      *)
NotYetSeen ==
    ~lifecycle_seen =>
        /\ stdout = <<>> => phase = 0
        /\ stdout # <<>> => Head(stdout).kind = "phase_start"
        /\ \A i \in 1..phase : Awaited(i)

StartsAwaited ==
    \A line \in Lines : line.kind = "phase_start" => Awaited(line.iteration)

ActiveAwaited ==
    /\ active_iteration # None => Awaited(active_iteration)
    /\ rpc \in {"stop", "joining", "closed"} => active_iteration = None

PhasesOK == NotYetSeen /\ StartsAwaited /\ ActiveAwaited

(* The line that tells of a discarded request is still to be read, or the  *)
(* request cannot become ok.                                               *)
CannotBecomeOk(r) ==
    \/ hpc[r] \in {"none", "received"} \/ row[r] \in Stale
    \/ hpc[r] \in {"record", "respond", "gone"} /\ hstatus[r] = "stale_iteration"

DiscardTold(r) ==
    life[r] = "discarded" /\ ~killed =>
        \/ \E line \in Lines : line.kind = "discarded" /\ r \in line.requests
        \/ /\ lifecycle_seen /\ CannotBecomeOk(r)
           /\ Line("phase_end", iteration[r], {}) \notin Lines

(* What the planner has taken is written in the row, or in a line still to *)
(* be read.                                                                *)
CompletedTold(r) ==
    Taken(r) => \/ r \in transport_ok
                \/ \E line \in Lines : line.kind = "completed"
                                       /\ r \in line.requests

AnswersOK ==
    /\ \A r \in transport_ok : Taken(r)
    /\ \A r \in Requests : CompletedTold(r)

RequestsOK == \A r \in Requests : RequestOK(r)
RowsOK == \A r \in Requests : RowOK(r)
DiscardsOK == \A r \in Requests : DiscardTold(r)

(* What rests on the lines of the phases, which a direct search does not   *)
(* write.                                                                  *)
LinesTell == PhasesOK /\ DiscardsOK /\ WaitersAreReached

AInv == /\ TypeOK /\ RequestsOK /\ LinesOK /\ ReaderOK /\ RowsOK
        /\ AnswersOK
        /\ ~Direct => LinesTell

----------------------------------------------------------------------------
(* The planner's side.                                                     *)

(* Every step is a step of IteratedSearch, or leaves its variables alone.  *)
LEMMA PlannerSteps == [Next]_vars => [PlannerNext]_plannerVars
<1> SUFFICES ASSUME [Next]_vars PROVE [PlannerNext]_plannerVars
  OBVIOUS
<1> USE DEF PlannerNext, PlannerStep
<1>1. CASE Planner
  BY <1>1, Zenon DEF Planner, PhaseStarts, BetweenPhases, PhaseEnds, StopBridge
<1>2. CASE KillPlanner
  BY <1>2, Zenon DEF KillPlanner
<1>3. CASE ExpireDeadline
  BY <1>3, Zenon DEF ExpireDeadline
<1>4. CASE Poll
  BY <1>4, Zenon DEF Poll
<1>5. CASE MainThread
  BY <1>5, Zenon DEF MainThread, ReadStart, ReadCompleted, ReadEnd, MarkStale,
                     ReadDiscarded, CloseRegistry, ShutDown, CloseRecords, Reading
<1>6. CASE Done \/ UNCHANGED vars
  BY <1>6, Zenon DEF Done, vars
<1>7. ASSUME NEW r \in Requests,
             Submit(r) \/ Dispatch(r) \/ Fail(r) \/ Receive(r)
      PROVE  UNCHANGED plannerVars
  BY <1>7, Zenon DEF Submit, Dispatch, Fail, Receive
<1>8. ASSUME NEW r \in Requests, Handler(r) \/ ModelDone(r)
      PROVE  UNCHANGED plannerVars
  BY <1>8, Zenon DEF Handler, Accept, BuildPrompt, RegisterFuture, Collect,
                     Process, FinalCheck, Record, Respond, ModelDone, Handling
<1> QED
  BY <1>1, <1>2, <1>3, <1>4, <1>5, <1>6, <1>7, <1>8, Zenon DEF Next

(* An anytime run is a run of the planner: reading lines, answering        *)
(* requests and stopping the bridge add nothing to what the loop of        *)
(* IteratedSearch::step does, so what is shown above of the saved plans    *)
(* holds here, too.                                                        *)
THEOREM PhasesRunTheSearch == Spec => PlannerSpec
<1>1. Init => PlannerInit
  BY DEF Init
<1> QED
  BY <1>1, PlannerSteps, PTL DEF Spec, PlannerSpec

----------------------------------------------------------------------------
(* Types.                                                                  *)

LineSet == [kind : {"phase_start", "completed", "phase_end", "discarded"},
            iteration : 0..MaxPhases, requests : SUBSET Requests]

(* A line is what it says.                                                 *)
LEMMA LineType ==
    ASSUME NEW kind \in {"phase_start", "completed", "phase_end", "discarded"},
           NEW i \in 0..MaxPhases, NEW rs \in SUBSET Requests
    PROVE  /\ Line(kind, i, rs) \in LineSet
           /\ Line(kind, i, rs).kind = kind
           /\ Line(kind, i, rs).iteration = i
           /\ Line(kind, i, rs).requests = rs
BY DEF Line, LineSet

(* A line with no requests is told by its kind and its iteration.          *)
LEMMA LineIs ==
    ASSUME NEW line \in LineSet, line.requests = {}
    PROVE  line = Line(line.kind, line.iteration, {})
BY DEF Line, LineSet

(* Writing a line adds it to those on the way.                             *)
LEMMA LinesAppend ==
    ASSUME stdout \in Seq(LineSet), NEW line \in LineSet, Write(line)
    PROVE  /\ stdout' \in Seq(LineSet) /\ stdout' # <<>>
           /\ Len(stdout') = Len(stdout) + 1
           /\ \A k \in 1..Len(stdout) : stdout'[k] = stdout[k]
           /\ stdout'[Len(stdout) + 1] = line
           /\ Lines' = Lines \cup {line}
           /\ Head(stdout') = IF stdout = <<>> THEN line ELSE Head(stdout)
<1>0. stdout' = Append(stdout, line)
  BY DEF Write
<1>1. /\ stdout' \in Seq(LineSet) /\ Len(stdout') = Len(stdout) + 1
      /\ \A k \in 1..Len(stdout) : stdout'[k] = stdout[k]
      /\ stdout'[Len(stdout) + 1] = line
      /\ Len(stdout) \in Nat
  BY <1>0, AppendProperties, LenProperties
<1>2. stdout' # <<>>
  BY <1>1, EmptySeq
<1>3. Lines' = Lines \cup {line}
  BY <1>1 DEF Lines
<1>4. Head(stdout') = IF stdout = <<>> THEN line ELSE Head(stdout)
  <2>1. Head(stdout') = stdout'[1]
    BY <1>1, <1>2, HeadTailProperties
  <2>2. CASE stdout = <<>>
    BY <1>1, <2>1, <2>2, EmptySeq
  <2>3. CASE stdout # <<>>
    <3>1. Head(stdout) = stdout[1] /\ Len(stdout) # 0
      BY <2>3, HeadTailProperties, EmptySeq
    <3> QED
      BY <1>1, <2>1, <2>3, <3>1
  <2> QED
    BY <2>2, <2>3
<1> QED
  BY <1>1, <1>2, <1>3, <1>4

(* Reading a line takes the first one away.                                *)
LEMMA LinesTail ==
    ASSUME stdout \in Seq(LineSet), NEW kind, NextLine(kind)
    PROVE  /\ stdout # <<>> /\ stdout' \in Seq(LineSet)
           /\ Len(stdout) \in Nat \ {0} /\ Len(stdout') = Len(stdout) - 1
           /\ \A k \in 1..Len(stdout') : stdout'[k] = stdout[k + 1]
           /\ Head(stdout) = stdout[1] /\ Head(stdout) \in LineSet
           /\ Head(stdout).kind = kind
           /\ Lines = Lines' \cup {Head(stdout)}
<1>0. stdout' = Tail(stdout) /\ stdout # <<>> /\ Head(stdout).kind = kind
  BY DEF NextLine
<1>1. /\ stdout' \in Seq(LineSet) /\ Len(stdout') = Len(stdout) - 1
      /\ \A k \in 1..Len(stdout') : stdout'[k] = stdout[k + 1]
      /\ Head(stdout) = stdout[1] /\ Head(stdout) \in LineSet
  BY <1>0, HeadTailProperties
<1>2. Len(stdout) \in Nat \ {0}
  BY <1>0, LenProperties, EmptySeq
<1>3. Lines = Lines' \cup {Head(stdout)}
  <2>1. ASSUME NEW k \in 1..Len(stdout), k # 1
        PROVE  k - 1 \in 1..Len(stdout') /\ stdout'[k - 1] = stdout[k]
    BY <1>1, <1>2, <2>1
  <2>2. Lines \subseteq Lines' \cup {Head(stdout)}
    BY <1>1, <2>1 DEF Lines
  <2>3. Lines' \subseteq Lines
    BY <1>1, <1>2 DEF Lines
  <2>4. Head(stdout) \in Lines
    BY <1>1, <1>2 DEF Lines
  <2> QED
    BY <2>2, <2>3, <2>4
<1> QED
  BY <1>0, <1>1, <1>2, <1>3

(* A line on the way is one.                                               *)
LEMMA LinesType == stdout \in Seq(LineSet) => Lines \subseteq LineSet
BY ElementOfSeq DEF Lines

Lives == {"new", "queued", "sent", "answered", "delivered", "dropped",
          "discarded"}
Handlings == {"none", "received", "prompt", "register", "wait", "process",
              "final", "record", "respond", "gone"}
Statuses == {"none", "ok", "unusable", "error", "stale_iteration"}
Futures == {"none", "running", "done", "cancelled"}
RowStatuses == {"none", "received", "ok", "unusable", "error"} \cup Stale

(* TypeOK in three parts, by who changes the variables.                    *)
BridgeTypes ==
    /\ stdout \in Seq(LineSet)
    /\ life \in [Requests -> Lives]
    /\ iteration \in [Requests -> 0..MaxPhases]
    /\ answer \in [Requests -> Statuses]
    /\ wire \subseteq Requests
HandlerTypes ==
    /\ active_iteration \in 0..MaxPhases /\ lifecycle_seen \in BOOLEAN
    /\ futures \subseteq Requests
    /\ hpc \in [Requests -> Handlings]
    /\ hstatus \in [Requests -> Statuses]
    /\ future \in [Requests -> Futures]
RecordTypes ==
    /\ row \in [Requests -> RowStatuses]
    /\ rpc \in {"read", "mark", "stop", "joining", "closed"}
    /\ marking \in 0..MaxPhases
    /\ transport_ok \subseteq Requests

(* The parts make up TypeOK.                                               *)
LEMMA TypeParts ==
    TypeOK <=> PlannerTypeOK /\ BridgeTypes /\ HandlerTypes /\ RecordTypes
BY Zenon DEF TypeOK, BridgeTypes, HandlerTypes, RecordTypes, LineSet, Lives,
             Handlings, Statuses, Futures, RowStatuses

(* The types hold initially.                                               *)
LEMMA TypeInitially == Init => TypeOK
<1> SUFFICES ASSUME Init PROVE TypeOK
  OBVIOUS
<1>1. None \in 0..MaxPhases
  BY IteratedAssumption DEF None
<1>2. PlannerTypeOK
  BY InitIInv DEF Init, IInv
<1>3. stdout \in Seq(LineSet)
  BY EmptySeq DEF Init
<1>4. BridgeTypes
  BY <1>1, <1>3 DEF Init, BridgeTypes, Lives, Statuses
<1>5. HandlerTypes
  BY <1>1 DEF Init, HandlerTypes, Handlings, Statuses, Futures
<1>6. RecordTypes
  BY <1>1 DEF Init, RecordTypes, RowStatuses
<1> QED
  BY <1>2, <1>4, <1>5, <1>6, TypeParts

(* Where a handler goes.                                                   *)
LEMMA GoToType ==
    ASSUME hpc \in [Requests -> Handlings], hstatus \in [Requests -> Statuses],
           NEW r \in Requests, NEW point \in Handlings, NEW status \in Statuses,
           GoTo(r, point, status)
    PROVE  /\ hpc' \in [Requests -> Handlings] /\ hpc'[r] = point
           /\ hstatus' \in [Requests -> Statuses] /\ hstatus'[r] = status
           /\ \A q \in Requests \ {r} : hpc'[q] = hpc[q] /\ hstatus'[q] = hstatus[q]
BY DEF GoTo

(* Cancelled futures are futures, and no longer running.                   *)
LEMMA CancelType ==
    ASSUME future \in [Requests -> Futures], NEW rs, Cancel(rs)
    PROVE  /\ future' \in [Requests -> Futures]
           /\ \A r \in Requests : future'[r] = "running" =>
                 future[r] = "running" /\ r \notin rs
BY DEF Cancel, Futures

(* What Marked does to a row.                                              *)
LEMMA MarkedType ==
    ASSUME row \in [Requests -> RowStatuses], NEW i
    PROVE  /\ Marked(i) \in [Requests -> RowStatuses]
           /\ \A r \in Requests :
                 Marked(i)[r] = row[r]
                 \/ /\ Marked(i)[r] = "stale_iteration" /\ iteration[r] = i
                    /\ hpc[r] # "none" /\ row[r] \notin {"ok", "error"}
BY DEF Marked, RowStatuses, Stale

(* The planner writes lines of its current phase.                          *)
LEMMA PlannerType ==
    TypeOK /\ PlannerTypeOK' /\ (Planner \/ KillPlanner \/ ExpireDeadline) =>
        BridgeTypes' /\ HandlerTypes' /\ RecordTypes'
<1> SUFFICES ASSUME TypeOK, PlannerTypeOK',
                    Planner \/ KillPlanner \/ ExpireDeadline
             PROVE  BridgeTypes' /\ HandlerTypes' /\ RecordTypes'
  OBVIOUS
<1>0. /\ BridgeTypes /\ HandlerTypes /\ RecordTypes
      /\ phase \in 0..MaxPhases /\ phase' \in 0..MaxPhases
  BY TypeParts, Zenon DEF TypeOK, PlannerTypeOK
<1>1. HandlerTypes' /\ RecordTypes' /\ UNCHANGED <<iteration, answer>>
  <2>1. UNCHANGED <<iteration, answer, registryVars, handlerVars, row, readerVars>>
    BY Zenon DEF Planner, PhaseStarts, BetweenPhases, PhaseEnds, StopBridge,
                 KillPlanner, ExpireDeadline, bridgeVars
  <2> QED
    BY <1>0, <2>1, Zenon
    DEF HandlerTypes, RecordTypes, registryVars, handlerVars, readerVars
<1>2. life' \in [Requests -> Lives]
  <2>1. CASE life' = life
    BY <1>0, <2>1 DEF BridgeTypes
  <2>2. CASE StopBridge
    <3>1. \A S : [r \in Requests |->
                    CASE life[r] = "queued" -> "dropped"
                      [] r \in S            -> "discarded"
                      [] OTHER              -> life[r]] \in [Requests -> Lives]
      BY <1>0 DEF BridgeTypes, Lives
    <3> QED
      BY <2>2, <3>1 DEF StopBridge
  <2>3. CASE KillPlanner
    BY <1>0, <2>3 DEF KillPlanner, Moved, BridgeTypes, Lives
  <2> QED
    BY <2>1, <2>2, <2>3, Zenon
    DEF Planner, PhaseStarts, BetweenPhases, PhaseEnds, ExpireDeadline, bridgeVars
<1>3. wire' \subseteq Requests
  <2>1. wire' \subseteq wire
    BY Zenon DEF Planner, PhaseStarts, BetweenPhases, PhaseEnds, StopBridge,
                 KillPlanner, ExpireDeadline, bridgeVars
  <2> QED
    BY <1>0, <2>1 DEF BridgeTypes
<1>4. stdout' \in Seq(LineSet)
  <2>0. stdout \in Seq(LineSet)
    BY <1>0 DEF BridgeTypes
  <2>1. CASE UNCHANGED stdout
    BY <2>0, <2>1
  <2>2. ASSUME NEW line \in LineSet, Write(line) PROVE stdout' \in Seq(LineSet)
    BY <2>0, <2>2, LinesAppend
  <2>3. CASE PhaseStarts
    <3>1. Line("phase_start", phase', {}) \in LineSet
      BY <1>0, LineType
    <3> QED
      BY <2>1, <2>2, <2>3, <3>1 DEF PhaseStarts, WritePhase
  <2>4. CASE PhaseEnds
    <3>1. Line("phase_end", phase, {}) \in LineSet
      BY <1>0, LineType
    <3> QED
      BY <2>1, <2>2, <2>4, <3>1 DEF PhaseEnds, WritePhase
  <2>5. CASE StopBridge
    <3>1. \A S \in SUBSET Requests : Line("discarded", phase, S) \in LineSet
      BY <1>0, LineType
    <3>2. PICK S \in SUBSET Requests :
             UNCHANGED stdout \/ Write(Line("discarded", phase, S))
      BY <2>5 DEF StopBridge
    <3> QED
      BY <2>1, <2>2, <3>1, <3>2
  <2> QED
    BY <2>1, <2>3, <2>4, <2>5, Zenon
    DEF Planner, BetweenPhases, KillPlanner, ExpireDeadline
<1> QED
  BY <1>0, <1>1, <1>2, <1>3, <1>4, Zenon DEF BridgeTypes

(* The bridge moves requests on.                                           *)
LEMMA BridgeType ==
    TypeOK /\ (Poll \/ \E r \in Requests : Submit(r) \/ Dispatch(r) \/ Fail(r)) =>
        BridgeTypes' /\ HandlerTypes' /\ RecordTypes'
<1> SUFFICES ASSUME TypeOK,
                    Poll \/ \E r \in Requests : Submit(r) \/ Dispatch(r) \/ Fail(r)
             PROVE  BridgeTypes' /\ HandlerTypes' /\ RecordTypes'
  OBVIOUS
<1>0. /\ BridgeTypes /\ HandlerTypes /\ RecordTypes /\ phase \in 0..MaxPhases
  BY TypeParts, Zenon DEF TypeOK, PlannerTypeOK
<1>1. /\ HandlerTypes' /\ RecordTypes' /\ UNCHANGED answer
  BY <1>0, Zenon DEF Poll, Submit, Dispatch, Fail, HandlerTypes, RecordTypes,
                     registryVars, handlerVars, readerVars
<1>2. life' \in [Requests -> Lives]
  BY <1>0 DEF Poll, Submit, Dispatch, Fail, Moved, BridgeTypes, Lives
<1>3. iteration' \in [Requests -> 0..MaxPhases]
  BY <1>0 DEF Poll, Submit, Dispatch, Fail, BridgeTypes
<1>4. wire' \subseteq Requests
  BY <1>0 DEF Poll, Submit, Dispatch, Fail, BridgeTypes
<1>5. stdout' \in Seq(LineSet)
  <2>1. stdout \in Seq(LineSet) /\ None \in 0..MaxPhases
    BY <1>0, IteratedAssumption DEF BridgeTypes, None
  <2>2. stdout' = stdout
        \/ \E S \in SUBSET Requests : Write(Line("completed", None, S))
    BY DEF Poll, Submit, Dispatch, Fail
  <2>3. \A S \in SUBSET Requests : Line("completed", None, S) \in LineSet
    BY <2>1, LineType
  <2> QED
    BY <2>1, <2>2, <2>3, LinesAppend
<1> QED
  BY <1>0, <1>1, <1>2, <1>3, <1>4, <1>5, Zenon DEF BridgeTypes

(* The handlers move on.                                                   *)
LEMMA HandlerType ==
    ASSUME TypeOK, NEW r \in Requests, Receive(r) \/ Handler(r) \/ ModelDone(r)
    PROVE  BridgeTypes' /\ HandlerTypes' /\ RecordTypes'
<1>0. BridgeTypes /\ HandlerTypes /\ RecordTypes
  BY TypeParts, Zenon
<1>1. /\ hpc \in [Requests -> Handlings] /\ hstatus \in [Requests -> Statuses]
      /\ futures \subseteq Requests /\ active_iteration \in 0..MaxPhases
      /\ future \in [Requests -> Futures]
  BY <1>0, Zenon DEF HandlerTypes
<1>g. ASSUME NEW point \in Handlings, NEW status \in Statuses, GoTo(r, point, status)
      PROVE  /\ hpc' \in [Requests -> Handlings]
             /\ hstatus' \in [Requests -> Statuses]
  BY <1>1, <1>g, GoToType
<1> USE DEF Handlings, Statuses
<1>2. hpc' \in [Requests -> Handlings] /\ hstatus' \in [Requests -> Statuses]
  <2>1. CASE Receive(r)
    BY <1>g, <2>1 DEF Receive
  <2>2. CASE Accept(r)
    BY <1>g, <2>2 DEF Accept
  <2>3. CASE BuildPrompt(r)
    BY <1>g, <2>3 DEF BuildPrompt
  <2>4. CASE RegisterFuture(r)
    BY <1>g, <2>4 DEF RegisterFuture
  <2>5. CASE Collect(r)
    BY <1>g, <2>5 DEF Collect
  <2>6. CASE Process(r)
    BY <1>g, <2>6 DEF Process
  <2>7. CASE FinalCheck(r)
    <3>1. hstatus[r] \in Statuses
      BY <1>1
    <3> QED
      BY <1>g, <2>7, <3>1 DEF FinalCheck
  <2>8. CASE Record(r) \/ Respond(r)
    <3>1. \A point \in Handlings : [hpc EXCEPT ![r] = point] \in [Requests -> Handlings]
      BY <1>1
    <3>2. hstatus' = hstatus
      BY <2>8, Zenon DEF Record, Respond
    <3>3. hpc' = [hpc EXCEPT ![r] = "respond"] \/ hpc' = [hpc EXCEPT ![r] = "gone"]
      BY <2>8, Zenon DEF Record, Respond
    <3> QED
      BY <1>1, <3>1, <3>2, <3>3
  <2>9. CASE ModelDone(r)
    BY <1>1, <2>9 DEF ModelDone
  <2> QED
    BY <2>1, <2>2, <2>3, <2>4, <2>5, <2>6, <2>7, <2>8, <2>9, Zenon DEF Handler
<1>3. future' \in [Requests -> Futures]
  <2>1. \A x \in Futures : [future EXCEPT ![r] = x] \in [Requests -> Futures]
    BY <1>1
  <2>2. future[r] \in Futures
    BY <1>1
  <2>3. \/ future' = future
        \/ \E x \in Futures : future' = [future EXCEPT ![r] = x]
    BY <1>1, <2>2 DEF Receive, Handler, Accept, BuildPrompt, RegisterFuture,
         Collect, Process, FinalCheck, Record, Respond, ModelDone, Futures
  <2> QED
    BY <1>1, <2>1, <2>3
<1>4. futures' \subseteq Requests
  <2>1. futures' \subseteq futures \cup {r}
    BY DEF Receive, Handler, Accept, BuildPrompt, RegisterFuture, Collect,
           Process, FinalCheck, Record, Respond, ModelDone, registryVars
  <2> QED
    BY <1>1, <2>1
<1>5. active_iteration' \in 0..MaxPhases
  <2>1. active_iteration' \in {active_iteration, iteration[r]}
    BY DEF Receive, Handler, Accept, BuildPrompt, RegisterFuture, Collect,
           Process, FinalCheck, Record, Respond, ModelDone, registryVars
  <2>2. iteration[r] \in 0..MaxPhases
    BY <1>0 DEF BridgeTypes
  <2> QED
    BY <1>1, <2>1, <2>2
<1>6. HandlerTypes'
  <2>1. lifecycle_seen' = lifecycle_seen
    BY Zenon DEF Receive, Handler, Accept, BuildPrompt, RegisterFuture, Collect,
           Process, FinalCheck, Record, Respond, ModelDone, registryVars
  <2> QED
    BY <1>0, <1>2, <1>3, <1>4, <1>5, <2>1, Zenon DEF HandlerTypes
<1>7. BridgeTypes'
  <2>1. UNCHANGED <<stdout, iteration>> /\ wire' \subseteq wire
    BY Zenon DEF Receive, Handler, Accept, BuildPrompt, RegisterFuture, Collect,
       Process, FinalCheck, Record, Respond, ModelDone, bridgeVars, Handling
  <2>2. \/ UNCHANGED <<life, answer>>
        \/ /\ life' = [life EXCEPT ![r] = "answered"]
           /\ answer' = [answer EXCEPT ![r] = hstatus[r]]
    BY Zenon DEF Receive, Handler, Accept, BuildPrompt, RegisterFuture, Collect,
       Process, FinalCheck, Record, Respond, ModelDone, bridgeVars, Handling
  <2>3. life' \in [Requests -> Lives]
    BY <1>0, <2>2 DEF BridgeTypes, Lives
  <2>4. answer' \in [Requests -> Statuses]
    <3>1. answer \in [Requests -> Statuses] /\ hstatus[r] \in Statuses
      BY <1>0, <1>1, Zenon DEF BridgeTypes
    <3> QED
      BY <2>2, <3>1
  <2>5. wire' \subseteq Requests
    BY <1>0, <2>1 DEF BridgeTypes
  <2> QED
    BY <1>0, <2>1, <2>3, <2>4, <2>5, Zenon DEF BridgeTypes
<1>8. RecordTypes'
  <2>1. UNCHANGED readerVars
    BY Zenon DEF Receive, Handler, Accept, BuildPrompt, RegisterFuture, Collect,
       Process, FinalCheck, Record, Respond, ModelDone, Handling
  <2>2. \/ row' = row \/ row' = [row EXCEPT ![r] = "received"]
        \/ row' = [row EXCEPT ![r] = Finished(r)]
    BY Zenon DEF Receive, Handler, Accept, BuildPrompt, RegisterFuture, Collect,
       Process, FinalCheck, Record, Respond, ModelDone
  <2>3. hstatus[r] \in RowStatuses
    BY <1>1 DEF RowStatuses, Stale
  <2>4. Finished(r) \in RowStatuses /\ "received" \in RowStatuses
    BY <2>3 DEF Finished, RowStatuses
  <2>5. row' \in [Requests -> RowStatuses]
    BY <1>0, <2>2, <2>4 DEF RecordTypes
  <2> QED
    BY <1>0, <2>1, <2>5, Zenon DEF RecordTypes, readerVars
<1> QED
  BY <1>6, <1>7, <1>8

(* The main thread reads, marks and closes.                                *)
LEMMA MainThreadType ==
    TypeOK /\ MainThread => BridgeTypes' /\ HandlerTypes' /\ RecordTypes'
<1> SUFFICES ASSUME TypeOK, MainThread
             PROVE  BridgeTypes' /\ HandlerTypes' /\ RecordTypes'
  OBVIOUS
<1>0. BridgeTypes /\ HandlerTypes /\ RecordTypes
  BY TypeParts, Zenon
<1>1. stdout \in Seq(LineSet) /\ None \in 0..MaxPhases
  BY <1>0, IteratedAssumption DEF BridgeTypes, None
<1>2. ASSUME NEW kind, NextLine(kind)
      PROVE  /\ stdout' \in Seq(LineSet)
             /\ Head(stdout).iteration \in 0..MaxPhases
  <2>1. stdout' \in Seq(LineSet) /\ Head(stdout) \in LineSet
    BY <1>1, <1>2, LinesTail
  <2> QED
    BY <2>1 DEF LineSet
<1>3. BridgeTypes'
  <2>1. UNCHANGED bridgeVars
    BY Zenon DEF MainThread, ReadStart, ReadCompleted, ReadEnd, MarkStale,
                 ReadDiscarded, CloseRegistry, ShutDown, CloseRecords, Reading
  <2>2. stdout' = stdout \/ \E kind : NextLine(kind)
    BY Zenon DEF MainThread, ReadStart, ReadCompleted, ReadEnd, MarkStale,
                 ReadDiscarded, CloseRegistry, ShutDown, CloseRecords
  <2>3. stdout' \in Seq(LineSet)
    BY <1>1, <1>2, <2>2
  <2> QED
    BY <1>0, <2>1, <2>3, Zenon DEF BridgeTypes, bridgeVars
<1>4. /\ active_iteration' \in 0..MaxPhases /\ marking' \in 0..MaxPhases
      /\ futures' \subseteq futures
      /\ rpc' \in {"read", "mark", "stop", "joining", "closed"}
  <2>1. /\ active_iteration \in 0..MaxPhases /\ marking \in 0..MaxPhases
        /\ rpc \in {"read", "mark", "stop", "joining", "closed"}
    BY <1>0, Zenon DEF HandlerTypes, RecordTypes
  <2>2. CASE ReadStart
    BY <1>2, <2>1, <2>2, Zenon DEF ReadStart, readerVars
  <2>3. CASE ReadEnd
    <3>1. Head(stdout).iteration \in 0..MaxPhases
      BY <1>2, <2>3 DEF ReadEnd
    <3> QED
      BY <1>1, <2>1, <2>3, <3>1 DEF ReadEnd, EndIteration
  <2>4. CASE MarkStale \/ ReadCompleted \/ ReadDiscarded \/ ShutDown
    BY <1>1, <2>1, <2>4
    DEF MarkStale, ReadCompleted, ReadDiscarded, ShutDown, readerVars, registryVars
  <2>5. CASE CloseRegistry \/ CloseRecords
    BY <1>1, <2>1, <2>5 DEF CloseRegistry, CloseRecords
  <2> QED
    BY <2>2, <2>3, <2>4, <2>5, Zenon DEF MainThread
<1>5. future' \in [Requests -> Futures]
  <2>1. future \in [Requests -> Futures]
    BY <1>0, Zenon DEF HandlerTypes
  <2>2. future' = future \/ \E rs : Cancel(rs)
    BY Zenon DEF MainThread, ReadStart, ReadCompleted, ReadEnd, MarkStale,
                 ReadDiscarded, CloseRegistry, ShutDown, CloseRecords, EndIteration
  <2> QED
    BY <2>1, <2>2, CancelType
<1>6. HandlerTypes'
  <2>1. UNCHANGED <<hpc, hstatus>>
    BY Zenon DEF MainThread, ReadStart, ReadCompleted, ReadEnd, MarkStale,
                 ReadDiscarded, CloseRegistry, ShutDown, CloseRecords, Reading
  <2>2. lifecycle_seen' = lifecycle_seen \/ lifecycle_seen' = TRUE
    BY Zenon DEF MainThread, ReadStart, ReadCompleted, ReadEnd, MarkStale,
                 ReadDiscarded, CloseRegistry, ShutDown, CloseRecords, registryVars
  <2>3. futures' \subseteq Requests
    BY <1>0, <1>4, Zenon DEF HandlerTypes
  <2>4. lifecycle_seen' \in BOOLEAN
    BY <1>0, <2>2, Zenon DEF HandlerTypes
  <2> QED
    BY <1>0, <1>4, <1>5, <2>1, <2>3, <2>4, Zenon DEF HandlerTypes
<1>7. RecordTypes'
  <2>0. row \in [Requests -> RowStatuses]
    BY <1>0, Zenon DEF RecordTypes
  <2>1. \A i : Marked(i) \in [Requests -> RowStatuses]
    BY <2>0, MarkedType
  <2>2. ReadDiscarded => row' \in [Requests -> RowStatuses]
    BY <2>0 DEF ReadDiscarded, DiscardedStatus, RowStatuses, Stale
  <2>3. row' \in [Requests -> RowStatuses]
    BY <2>0, <2>1, <2>2, Zenon DEF MainThread, ReadStart, ReadCompleted, ReadEnd,
                              MarkStale, CloseRegistry, ShutDown, CloseRecords
  <2>4. transport_ok' \subseteq Requests
    <3>1. transport_ok \subseteq Requests
      BY <1>0, Zenon DEF RecordTypes
    <3>2. CASE ReadCompleted
      <4>1. Head(stdout).requests \subseteq Requests
        BY <1>1, <3>2, LinesTail DEF ReadCompleted, LineSet
      <4> QED
        BY <3>1, <3>2, <4>1 DEF ReadCompleted
    <3>3. CASE ~ReadCompleted
      BY <3>1, <3>3, Zenon DEF MainThread, ReadStart, ReadCompleted, ReadEnd,
         MarkStale, ReadDiscarded, CloseRegistry, ShutDown, CloseRecords, readerVars
    <3> QED
      BY <3>2, <3>3
  <2> QED
    BY <1>4, <2>3, <2>4, Zenon DEF RecordTypes
<1> QED
  BY <1>3, <1>6, <1>7

(* Every step keeps the types.                                             *)
LEMMA TypeStep == TypeOK /\ PlannerTypeOK' /\ [Next]_vars => TypeOK'
<1> SUFFICES ASSUME TypeOK, PlannerTypeOK', [Next]_vars
             PROVE  BridgeTypes' /\ HandlerTypes' /\ RecordTypes'
  BY TypeParts, PTL
<1>1. CASE Planner \/ KillPlanner \/ ExpireDeadline
  BY <1>1, PlannerType
<1>2. CASE Poll \/ \E r \in Requests : Submit(r) \/ Dispatch(r) \/ Fail(r)
  BY <1>2, BridgeType
<1>3. CASE MainThread
  BY <1>3, MainThreadType
<1>4. CASE \E r \in Requests : Receive(r) \/ Handler(r) \/ ModelDone(r)
  BY <1>4, HandlerType
<1>5. CASE Done \/ UNCHANGED vars
  <2>1. UNCHANGED <<stdout, bridgeVars, registryVars, handlerVars, row, readerVars>>
    BY <1>5, Zenon DEF Done, vars
  <2> QED
    BY <2>1, TypeParts, Zenon DEF BridgeTypes, HandlerTypes, RecordTypes, vars,
        bridgeVars, registryVars, handlerVars, readerVars
<1> QED
  BY <1>1, <1>2, <1>3, <1>4, <1>5, Zenon DEF Next

(* Every variable of the run keeps its type: a line names a phase the      *)
(* planner has begun, a registered future is a request's, and the handler  *)
(* writes into its row only statuses request_finished knows.               *)
THEOREM AnytimeTypeCorrect == Spec => []TypeOK
<1>1. PlannerSpec => []PlannerTypeOK
  BY PlannerTypeCorrect
<1> QED
  BY <1>1, PhasesRunTheSearch, TypeInitially, TypeStep, PTL DEF Spec

----------------------------------------------------------------------------
(* Requests, their handlers and the phases.                                *)

(* What is typed for one request.                                          *)
LEMMA OneRequest ==
    ASSUME TypeOK, NEW r \in Requests
    PROVE  /\ iteration[r] \in Nat /\ phase \in Nat
           /\ life[r] \in Lives /\ hpc[r] \in Handlings
           /\ row[r] \in RowStatuses /\ hstatus[r] \in Statuses
           /\ future[r] \in Futures /\ answer[r] \in Statuses
<1>0. BridgeTypes /\ HandlerTypes /\ RecordTypes /\ phase \in 0..MaxPhases
  BY TypeParts, Zenon DEF TypeOK, PlannerTypeOK
<1>1. iteration[r] \in 0..MaxPhases /\ life[r] \in Lives /\ answer[r] \in Statuses
  BY <1>0 DEF BridgeTypes
<1>2. hpc[r] \in Handlings /\ hstatus[r] \in Statuses /\ future[r] \in Futures
  BY <1>0 DEF HandlerTypes
<1>3. row[r] \in RowStatuses
  BY <1>0 DEF RecordTypes
<1> QED
  BY <1>0, <1>1, <1>2, <1>3, IteratedAssumption

(* A request other than new belongs to a phase that has begun.             *)
LEMMA BegunPhase ==
    ASSUME TypeOK, RequestsOK, NEW r \in Requests
    PROVE  /\ life[r] # "new" => iteration[r] \in 1..phase
           /\ hpc[r] # "none" \/ row[r] # "none" \/ r \in wire => life[r] # "new"
BY DEF RequestsOK, RequestOK

(* A phase that has ended stays ended.                                     *)
LEMMA EndedStable ==
    ASSUME TypeOK, [Next]_vars, NEW i \in Nat, i <= phase, Ended(i)
    PROVE  Ended(i)'
<1>0. phase \in Nat
  BY IteratedAssumption DEF TypeOK, PlannerTypeOK
<1>1. [PlannerNext]_plannerVars
  BY PlannerSteps
<1>2. CASE StartPhase
  BY <1>0, <1>2 DEF StartPhase, Ended
<1>3. CASE NoPhase \/ EndPhase \/ SavePlan \/ Cleanup \/ Decide
  BY <1>0, <1>3 DEF NoPhase, EndPhase, SavePlan, Cleanup, Decide, Ended
<1>4. CASE Expire \/ Kill \/ UNCHANGED plannerVars
  BY <1>4 DEF Expire, Kill, plannerVars, Ended
<1> QED
  BY <1>1, <1>2, <1>3, <1>4, Zenon DEF PlannerNext, PlannerStep, Over

(* While a request is in the bridge its phase goes on, or is being wound   *)
(* up.                                                                     *)
LEMMA PlannerRequests ==
    TypeOK /\ RequestsOK /\ (Planner \/ KillPlanner \/ ExpireDeadline) => RequestsOK'
<1> SUFFICES ASSUME TypeOK, RequestsOK, Planner \/ KillPlanner \/ ExpireDeadline,
                    NEW r \in Requests
             PROVE  RequestOK(r)'
  BY DEF RequestsOK
<1>0. RequestOK(r) /\ iteration[r] \in Nat /\ phase \in Nat
  BY OneRequest DEF RequestsOK
<1>1. /\ UNCHANGED <<iteration, hpc, row>>
      /\ wire' \subseteq wire
  BY Zenon DEF Planner, PhaseStarts, BetweenPhases, PhaseEnds, StopBridge,
               KillPlanner, ExpireDeadline, bridgeVars, handlerVars
<1>2. CASE PhaseStarts
  BY <1>0, <1>1, <1>2 DEF PhaseStarts, StartPhase, bridgeVars, RequestOK, Ended
<1>3. CASE PhaseEnds
  BY <1>0, <1>1, <1>3 DEF PhaseEnds, EndPhase, bridgeVars, RequestOK, Ended
<1>4. CASE BetweenPhases
  BY <1>0, <1>1, <1>4 DEF BetweenPhases, NoPhase, SavePlan, Decide, bridgeVars,
                          RequestOK, Ended
<1>5. CASE StopBridge
  <2>1. life'[r] = CASE life[r] = "queued" -> "dropped"
                     [] life[r] \in {"sent", "answered"} -> "discarded"
                     [] OTHER -> life[r]
    BY <1>5 DEF StopBridge
  <2>2. ppc = "cleanup" /\ ppc' = "decide" /\ phase' = phase /\ killed' = killed
    BY <1>5 DEF StopBridge, Cleanup
  <2> QED
    BY <1>0, <1>1, <2>1, <2>2 DEF RequestOK, Ended
<1>6. CASE KillPlanner
  <2>1. life'[r] = IF life[r] \in {"queued", "sent", "answered"}
                   THEN "discarded" ELSE life[r]
    BY <1>6 DEF KillPlanner, Moved
  <2>2. killed' = TRUE /\ phase' = phase
    BY <1>6 DEF KillPlanner, Kill
  <2> QED
    BY <1>0, <1>1, <2>1, <2>2 DEF RequestOK, Ended
<1>7. CASE ExpireDeadline
  BY <1>0, <1>1, <1>7 DEF ExpireDeadline, Expire, bridgeVars, RequestOK, Ended
<1> QED
  BY <1>2, <1>3, <1>4, <1>5, <1>6, <1>7 DEF Planner

(* A request that moves on is in a live place, in its own phase.           *)
LEMMA BridgeRequests ==
    TypeOK /\ RequestsOK /\ LinesOK
    /\ (Poll \/ \E r \in Requests : Submit(r) \/ Dispatch(r) \/ Fail(r)) => RequestsOK'
<1> SUFFICES ASSUME TypeOK, RequestsOK, LinesOK, NEW r \in Requests,
                    Poll \/ \E q \in Requests : Submit(q) \/ Dispatch(q) \/ Fail(q)
             PROVE  RequestOK(r)'
  BY DEF RequestsOK
<1>0. RequestOK(r) /\ iteration[r] \in Nat /\ phase \in Nat
  BY OneRequest DEF RequestsOK
<1>1. /\ UNCHANGED <<hpc, row, phase, ppc, killed>>
      /\ life \in [Requests -> Lives] /\ iteration \in [Requests -> 0..MaxPhases]
  BY TypeParts, Zenon DEF Poll, Submit, Dispatch, Fail, plannerVars, handlerVars,
                          BridgeTypes
<1>2. CASE Poll
  BY <1>0, <1>1, <1>2 DEF Poll, Moved, RequestOK, Ended
<1>3. ASSUME NEW q \in Requests, Submit(q) PROVE RequestOK(r)'
  <2>1. /\ life'[r] = IF r = q THEN "queued" ELSE life[r]
        /\ iteration'[r] = IF r = q THEN phase ELSE iteration[r]
        /\ ppc = "search" /\ ~killed /\ wire' = wire /\ life[q] = "new"
    BY <1>1, <1>3 DEF Submit, Searching
  <2>2. phase # 0
    BY <2>1 DEF LinesOK, PhaseCounts
  <2> QED
    BY <1>0, <1>1, <2>1, <2>2 DEF RequestOK, Ended
<1>4. ASSUME NEW q \in Requests, Dispatch(q) \/ Fail(q) PROVE RequestOK(r)'
  <2>1. /\ life'[r] = IF r = q THEN (IF life[q] = "queued" THEN "sent" ELSE "answered")
                      ELSE life[r]
        /\ iteration' = iteration /\ life[q] \in {"queued", "sent"}
        /\ r \in wire' => r \in wire \/ (r = q /\ life[q] = "queued")
    <3>1. CASE Dispatch(q)
      BY <1>1, <3>1 DEF Dispatch
    <3>2. CASE Fail(q)
      <4>1. wire' \subseteq wire /\ life[q] = "sent" /\ iteration' = iteration
        BY <3>2, Zenon DEF Fail
      <4>2. life' = [life EXCEPT ![q] = "answered"]
        BY <3>2, Zenon DEF Fail
      <4>3. life'[r] = IF r = q THEN "answered" ELSE life[r]
        BY <1>1, <4>2
      <4> QED
        BY <4>1, <4>3
    <3> QED
      BY <1>4, <3>1, <3>2
  <2> QED
    BY <1>0, <1>1, <2>1 DEF RequestOK, Ended
<1> QED
  BY <1>2, <1>3, <1>4

(* A request has a handler once it was received, and no other one.         *)
LEMMA HandlerRequests ==
    ASSUME TypeOK, RequestsOK, NEW q \in Requests,
           Receive(q) \/ Handler(q) \/ ModelDone(q)
    PROVE  RequestsOK'
<1> SUFFICES ASSUME NEW r \in Requests PROVE RequestOK(r)'
  BY DEF RequestsOK
<1>0. RequestOK(r) /\ RequestOK(q) /\ iteration[r] \in Nat /\ phase \in Nat
  BY OneRequest DEF RequestsOK
<1>1. /\ UNCHANGED <<iteration, phase, ppc, killed>> /\ wire' \subseteq wire
      /\ hpc \in [Requests -> Handlings] /\ row \in [Requests -> RowStatuses]
      /\ life \in [Requests -> Lives]
  BY TypeParts, Zenon DEF Receive, Handler, Accept, BuildPrompt, RegisterFuture,
       Collect, Process, FinalCheck, Record, Respond, ModelDone, bridgeVars,
       Handling, plannerVars, BridgeTypes, HandlerTypes, RecordTypes
<1>2. CASE Receive(q)
  BY <1>0, <1>1, <1>2 DEF Receive, GoTo, RequestOK, Ended
<1>3. CASE Handler(q) \/ ModelDone(q)
  <2>1. /\ life'[r] = life[r] \/ (r = q /\ life[q] = "sent" /\ life'[q] = "answered")
        /\ r # q => hpc'[r] = hpc[r] /\ row'[r] = row[r]
    BY <1>1, <1>3 DEF Handler, Accept, BuildPrompt, RegisterFuture, Collect,
       Process, FinalCheck, Record, Respond, ModelDone, bridgeVars, Handling, GoTo
  <2>2. hpc[q] # "none" \/ UNCHANGED <<hpc, row>>
    BY <1>3, Zenon DEF Handler, Accept, BuildPrompt, RegisterFuture, Collect,
       Process, FinalCheck, Record, Respond, ModelDone
  <2> QED
    BY <1>0, <1>1, <2>1, <2>2 DEF RequestOK, Ended
<1> QED
  BY <1>2, <1>3

(* The main thread marks rows of requests that were received, and of those *)
(* the planner says it discarded.                                          *)
LEMMA MainThreadRequests ==
    TypeOK /\ RequestsOK /\ LinesOK /\ MainThread => RequestsOK'
<1> SUFFICES ASSUME TypeOK, RequestsOK, LinesOK, MainThread, NEW r \in Requests
             PROVE  RequestOK(r)'
  BY DEF RequestsOK
<1>0. RequestOK(r) /\ row \in [Requests -> RowStatuses] /\ stdout \in Seq(LineSet)
  BY TypeParts, Zenon DEF RequestsOK, RecordTypes, BridgeTypes
<1>1. UNCHANGED <<life, iteration, wire, hpc, phase, ppc, killed>>
  BY Zenon DEF MainThread, ReadStart, ReadCompleted, ReadEnd, MarkStale,
     ReadDiscarded, CloseRegistry, ShutDown, CloseRecords, Reading, bridgeVars,
       plannerVars
<1>2. hpc[r] = "none" /\ row[r] = "none" => row'[r] = "none" \/ life[r] = "discarded"
  <2>1. \A i : hpc[r] = "none" => Marked(i)[r] = row[r]
    BY <1>0, MarkedType
  <2>2. ReadDiscarded => row'[r] = row[r] \/ life[r] = "discarded"
    <3> SUFFICES ASSUME ReadDiscarded PROVE row'[r] = row[r] \/ life[r] = "discarded"
      OBVIOUS
    <3>1. Head(stdout) \in Lines
      BY <1>0, LinesTail DEF ReadDiscarded
    <3>2. r \in Head(stdout).requests => life[r] = "discarded"
      BY <3>1, Zenon DEF LinesOK, LinesTrue, SaysTrue, ReadDiscarded, NextLine
    <3> QED
      BY <3>2 DEF ReadDiscarded
  <2> QED
    BY <2>1, <2>2, Zenon DEF MainThread, ReadStart, ReadCompleted, ReadEnd,
       MarkStale, CloseRegistry, ShutDown, CloseRecords, Reading
<1> QED
  BY <1>0, <1>1, <1>2 DEF RequestOK, Ended

----------------------------------------------------------------------------
(* The lines and who reads them.                                           *)

(* The key of a line lies within its phase.                                *)
LEMMA KeyType ==
    ASSUME NEW line \in LineSet
    PROVE  /\ line.iteration \in Nat /\ (Placed(line) => Key(line) \in Int)
           /\ line.kind = "phase_start" => Key(line) = 3 * line.iteration
           /\ line.kind = "phase_end" => Key(line) = 3 * line.iteration + 1
           /\ line.kind = "discarded" => Key(line) = 3 * line.iteration + 2
           /\ line.kind \in {"phase_start", "completed", "phase_end", "discarded"}
           /\ line.requests \subseteq Requests
<1>1. line.iteration \in 0..MaxPhases
  BY DEF LineSet
<1>2. /\ line.kind \in {"phase_start", "completed", "phase_end", "discarded"}
      /\ line.requests \subseteq Requests
  BY DEF LineSet
<1> QED
  BY <1>1, <1>2, IteratedAssumption DEF Key, Placed

(* A request that has left the bridge stays where it went.                 *)
LEMMA LeftStays ==
    ASSUME TypeOK, [Next]_vars, NEW r \in Requests,
           life[r] \in {"delivered", "discarded"}
    PROVE  life'[r] = life[r] /\ iteration'[r] = iteration[r] /\ answer'[r] = answer[r]
<1>0. /\ life \in [Requests -> Lives] /\ iteration \in [Requests -> 0..MaxPhases]
      /\ answer \in [Requests -> Statuses]
  BY TypeParts, Zenon DEF BridgeTypes
<1>1. CASE UNCHANGED <<life, iteration, answer>>
  BY <1>1
<1>2. CASE StopBridge \/ KillPlanner \/ Poll
  BY <1>2 DEF StopBridge, KillPlanner, Poll, Moved
<1>3. ASSUME NEW q \in Requests, Submit(q) \/ Dispatch(q)
      PROVE  life'[r] = life[r] /\ iteration'[r] = iteration[r] /\ answer'[r] = answer[r]
  BY <1>0, <1>3 DEF Submit, Dispatch
<1>4. ASSUME NEW q \in Requests, Fail(q) \/ Respond(q)
      PROVE  life'[r] = life[r] /\ iteration'[r] = iteration[r] /\ answer'[r] = answer[r]
  <2>1. \/ UNCHANGED <<life, iteration, answer>>
        \/ /\ life' = [life EXCEPT ![q] = "answered"] /\ life[q] = "sent"
           /\ iteration' = iteration
           /\ answer' = answer \/ answer' = [answer EXCEPT ![q] = hstatus[q]]
    BY <1>4, Zenon DEF Fail, Respond
  <2> QED
    BY <1>0, <2>1
<1> QED
  BY <1>1, <1>2, <1>3, <1>4, Zenon
  DEF Next, Planner, PhaseStarts, BetweenPhases, PhaseEnds, ExpireDeadline,
      MainThread, ReadStart, ReadCompleted, ReadEnd, MarkStale, ReadDiscarded,
      CloseRegistry, ShutDown, CloseRecords, Reading, Done, vars, bridgeVars,
      Handler, Accept, BuildPrompt, RegisterFuture, Collect, Process, FinalCheck,
      Record, ModelDone, Handling, Receive

(* Lines are written in order, each with a key of its own.                 *)
LEMMA WriteOrdered ==
    ASSUME stdout \in Seq(LineSet), Ordered, NEW line \in LineSet, Write(line),
           Placed(line) => \A old \in Lines : Placed(old) => Key(old) < Key(line)
    PROVE  Ordered'
<1>1. /\ Len(stdout) \in Nat /\ Len(stdout') = Len(stdout) + 1
      /\ \A k \in 1..Len(stdout) : stdout'[k] = stdout[k] /\ stdout[k] \in Lines
      /\ stdout'[Len(stdout) + 1] = line
  BY LinesAppend, LenProperties DEF Lines
<1>2. SUFFICES ASSUME NEW k \in 1..Len(stdout'), NEW m \in 1..(k - 1)
               PROVE  Placed(stdout'[m]) /\ Placed(stdout'[k])
                      => Key(stdout'[m]) < Key(stdout'[k])
  BY DEF Ordered, Key, Placed
<1>3. m \in 1..Len(stdout) /\ stdout'[m] = stdout[m]
  BY <1>1, <1>2
<1>4. CASE k = Len(stdout) + 1
  BY <1>1, <1>3, <1>4
<1>5. CASE k \in 1..Len(stdout)
  BY <1>1, <1>3, <1>5 DEF Ordered
<1> QED
  BY <1>1, <1>2, <1>4, <1>5

(* The first line comes before all others.                                 *)
LEMMA HeadIsFirst ==
    ASSUME TypeOK, LinesOK, NEW kind, NextLine(kind)
    PROVE  /\ stdout # <<>> /\ Head(stdout).kind = kind
           /\ Head(stdout) \in Lines /\ Head(stdout) \in LineSet
           /\ Lines \subseteq LineSet
           /\ Lines = Lines' \cup {Head(stdout)}
           /\ \A line \in Lines' : Placed(Head(stdout)) /\ Placed(line)
                                   => Key(Head(stdout)) < Key(line)
           /\ Ordered'
<1>0. stdout \in Seq(LineSet) /\ Ordered
  BY TypeParts DEF BridgeTypes, LinesOK
<1>1. /\ stdout # <<>> /\ Head(stdout) \in LineSet
      /\ Len(stdout) \in Nat \ {0} /\ Len(stdout') = Len(stdout) - 1
      /\ \A k \in 1..Len(stdout') : stdout'[k] = stdout[k + 1]
      /\ Head(stdout) = stdout[1] /\ Head(stdout).kind = kind
      /\ Lines = Lines' \cup {Head(stdout)}
  BY <1>0, LinesTail
<1>2. \A line \in Lines' : Placed(Head(stdout)) /\ Placed(line)
                          => Key(Head(stdout)) < Key(line)
  <2>1. SUFFICES ASSUME NEW k \in 1..Len(stdout')
                 PROVE  Placed(Head(stdout)) /\ Placed(stdout'[k])
                        => Key(Head(stdout)) < Key(stdout'[k])
    BY DEF Lines
  <2>2. k + 1 \in 1..Len(stdout) /\ 1 \in 1..((k + 1) - 1)
    BY <1>1
  <2> QED
    BY <1>0, <1>1, <2>2 DEF Ordered
<1>3. Ordered'
  <2>1. SUFFICES ASSUME NEW k \in 1..Len(stdout'), NEW m \in 1..(k - 1)
                 PROVE  Placed(stdout'[m]) /\ Placed(stdout'[k])
                        => Key(stdout'[m]) < Key(stdout'[k])
    BY DEF Ordered, Key, Placed
  <2>2. /\ k + 1 \in 1..Len(stdout) /\ m + 1 \in 1..((k + 1) - 1)
        /\ m \in 1..Len(stdout')
    BY <1>1
  <2> QED
    BY <1>0, <1>1, <2>2 DEF Ordered
<1> QED
  BY <1>0, <1>1, <1>2, <1>3, LinesType

(* What a line says stays true.                                            *)
LEMMA TrueStays ==
    ASSUME TypeOK, TypeOK', [Next]_vars, NEW line \in LineSet, SaysTrue(line)
    PROVE  SaysTrue(line)'
<1>0. phase \in Nat /\ phase' \in Nat /\ ppc \in Points
  BY IteratedAssumption DEF TypeOK, PlannerTypeOK
<1>1. Now <= Now' /\ Now \in Int /\ Now' \in Int
  <2>1. [PlannerNext]_plannerVars
    BY PlannerSteps
  <2>2. CASE StartPhase
    BY <1>0, <2>2 DEF StartPhase, Now
  <2>3. CASE NoPhase \/ EndPhase \/ SavePlan \/ Cleanup \/ Decide
    <3>1. /\ phase' = phase
          /\ \/ ppc = "search" /\ ppc' = "save"
             \/ ppc = "save" /\ ppc' = "cleanup"
             \/ ppc = "cleanup" /\ ppc' = "decide"
             \/ ppc \in {"next", "decide"} /\ ppc' \in {"next", "exited"}
      BY <2>3 DEF NoPhase, EndPhase, SavePlan, Cleanup, Decide
    <3> QED
      BY <1>0, <3>1 DEF Now
  <2>4. CASE Expire \/ Kill \/ UNCHANGED plannerVars
    <3>1. UNCHANGED <<ppc, phase>>
      BY <2>4, Zenon DEF Expire, Kill, plannerVars
    <3> QED
      BY <1>0, <3>1 DEF Now
  <2> QED
    BY <2>1, <2>2, <2>3, <2>4, Zenon DEF PlannerNext, PlannerStep, Over
<1>2. (Placed(line) => Key(line) \in Int) /\ line.requests \subseteq Requests
  BY KeyType
<1>3. Key(line)' = Key(line) /\ Placed(line)' = Placed(line)
  BY DEF Key, Placed
<1>4. Placed(line) => Key(line) <= Now' /\ line.iteration # None
  BY <1>1, <1>2 DEF SaysTrue
<1>5. \A r \in line.requests :
         /\ line.kind = "discarded" =>
               life'[r] = "discarded" /\ iteration'[r] = line.iteration
         /\ line.kind = "completed" => life'[r] = "delivered" /\ answer'[r] # "none"
  BY <1>2, LeftStays DEF SaysTrue, Taken
<1>6. line.kind \in {"phase_start", "phase_end"} => line.requests = {}
  BY DEF SaysTrue
<1> QED
  BY <1>3, <1>4, <1>5, <1>6, Zenon DEF SaysTrue, Taken

(* The lines on the way are in order and true.                             *)
LEMMA LinesStep ==
    TypeOK /\ TypeOK' /\ RequestsOK /\ LinesOK /\ [Next]_vars => LinesOK'
<1> SUFFICES ASSUME TypeOK, TypeOK', RequestsOK, LinesOK, [Next]_vars
             PROVE  LinesOK'
  OBVIOUS
<1>0. /\ phase \in 0..MaxPhases /\ phase' \in 0..MaxPhases /\ phase \in Nat
      /\ stdout \in Seq(LineSet) /\ Lines \subseteq LineSet
      /\ Ordered /\ \A line \in Lines : SaysTrue(line)
  <2>1. phase \in 0..MaxPhases /\ phase' \in 0..MaxPhases /\ stdout \in Seq(LineSet)
    BY TypeParts DEF TypeOK, PlannerTypeOK, BridgeTypes
  <2> QED
    BY <2>1, LinesType, IteratedAssumption DEF LinesOK, LinesTrue
<1>1. PhaseCounts'
  <2>1. [PlannerNext]_plannerVars
    BY PlannerSteps
  <2>2. CASE StartPhase
    BY <1>0, <2>2 DEF StartPhase, PhaseCounts
  <2>3. CASE ~StartPhase
    <3>1. phase' = phase /\ (ppc' \notin {"next", "exited"} => ppc \notin {"next", "exited"})
      BY <2>1, <2>3 DEF PlannerNext, PlannerStep, NoPhase, EndPhase, SavePlan,
         Cleanup, Decide, Expire, Kill, Over, plannerVars
    <3> QED
      BY <3>1 DEF LinesOK, PhaseCounts
  <2> QED
    BY <2>2, <2>3
<1>2. \A line \in Lines : SaysTrue(line)'
  BY <1>0, TrueStays
<1>3. CASE UNCHANGED stdout
  <2>1. Ordered' /\ Lines' = Lines
    BY <1>0, <1>3 DEF Ordered, Lines, Key, Placed
  <2> QED
    BY <1>1, <1>2, <2>1 DEF LinesOK, LinesTrue
<1>4. ASSUME NEW line \in LineSet, Write(line), SaysTrue(line)',
             Placed(line) => \A old \in Lines : Placed(old) => Key(old) < Key(line)
      PROVE  LinesOK'
  <2>1. Ordered' /\ Lines' = Lines \cup {line}
    BY <1>0, <1>4, WriteOrdered, LinesAppend
  <2>2. \A l \in Lines' : SaysTrue(l)'
    BY <1>2, <1>4, <2>1
  <2> QED
    BY <1>1, <2>1, <2>2 DEF LinesOK, LinesTrue
<1>5. ASSUME NEW kind, NextLine(kind) PROVE LinesOK'
  <2>1. Ordered' /\ Lines' \subseteq Lines
    BY <1>5, HeadIsFirst
  <2>2. \A l \in Lines' : SaysTrue(l)'
    BY <1>2, <2>1
  <2> QED
    BY <1>1, <2>1, <2>2 DEF LinesOK, LinesTrue
<1>6. CASE PhaseStarts
  <2>1. /\ ppc = "next" /\ ppc' = "search" /\ phase' = phase + 1
        /\ UNCHANGED stdout \/ Write(Line("phase_start", phase', {}))
    BY <1>6 DEF PhaseStarts, StartPhase, WritePhase
  <2>2. SUFFICES ASSUME NEW line, line = Line("phase_start", phase', {}), Write(line)
                 PROVE  LinesOK'
    BY <1>3, <2>1
  <2>3. /\ line \in LineSet /\ line.kind = "phase_start"
        /\ line.iteration = phase' /\ line.requests = {}
    BY <1>0, <2>2, LineType
  <2>4. Key(line) = 3 * phase' /\ Key(line)' = Key(line)
    BY <2>3, KeyType DEF Key
  <2>5. Now = 3 * phase + 2 /\ Now' = 3 * phase'
    BY <2>1 DEF Now
  <2>6. SaysTrue(line)'
    BY <1>0, <2>1, <2>3, <2>4, <2>5 DEF SaysTrue, None
  <2>7. \A old \in Lines : Placed(old) => Key(old) < Key(line)
    BY <1>0, <2>1, <2>4, <2>5, KeyType DEF SaysTrue
  <2> QED
    BY <1>4, <2>2, <2>3, <2>6, <2>7
<1>7. CASE PhaseEnds
  <2>1. /\ ppc = "search" /\ ppc' = "save" /\ phase' = phase
        /\ UNCHANGED stdout \/ Write(Line("phase_end", phase, {}))
    BY <1>7 DEF PhaseEnds, EndPhase, WritePhase
  <2>2. SUFFICES ASSUME NEW line, line = Line("phase_end", phase, {}), Write(line)
                 PROVE  LinesOK'
    BY <1>3, <2>1
  <2>3. /\ line \in LineSet /\ line.kind = "phase_end"
        /\ line.iteration = phase /\ line.requests = {}
    BY <1>0, <2>2, LineType
  <2>4. Key(line) = 3 * phase + 1 /\ Key(line)' = Key(line)
    BY <2>3, KeyType DEF Key
  <2>5. phase # None /\ Now = 3 * phase /\ Now' = 3 * phase + 1
    BY <1>0, <1>1, <2>1 DEF Now, None, PhaseCounts
  <2>6. SaysTrue(line)'
    BY <1>0, <2>1, <2>3, <2>4, <2>5 DEF SaysTrue
  <2>7. \A old \in Lines : Placed(old) => Key(old) < Key(line)
    BY <1>0, <2>4, <2>5, KeyType DEF SaysTrue
  <2> QED
    BY <1>4, <2>2, <2>3, <2>6, <2>7
<1>8. CASE StopBridge
  <2> DEFINE S == {r \in Requests : life[r] \in {"sent", "answered"}}
  <2>1. /\ ppc = "cleanup" /\ ppc' = "decide" /\ phase' = phase /\ iteration' = iteration
        /\ UNCHANGED stdout \/ Write(Line("discarded", phase, S))
        /\ \A r \in S : life'[r] = "discarded"
    BY <1>8 DEF StopBridge, Cleanup
  <2>2. \A r \in S : iteration[r] = phase
    BY DEF RequestsOK, RequestOK
  <2>3. S \subseteq Requests
    OBVIOUS
  <2> HIDE DEF S
  <2>4. SUFFICES ASSUME NEW line, line = Line("discarded", phase, S), Write(line)
                 PROVE  LinesOK'
    BY <1>3, <2>1
  <2>5. /\ line \in LineSet /\ line.kind = "discarded"
        /\ line.iteration = phase /\ line.requests = S
    BY <1>0, <2>3, <2>4, LineType
  <2>6. Key(line) = 3 * phase + 2 /\ Key(line)' = Key(line)
    BY <2>5, KeyType DEF Key
  <2>7. phase # None /\ Now = 3 * phase + 1 /\ Now' = 3 * phase + 2
    BY <1>0, <1>1, <2>1 DEF Now, None, PhaseCounts
  <2>8. SaysTrue(line)'
    BY <1>0, <2>1, <2>2, <2>5, <2>6, <2>7 DEF SaysTrue
  <2>9. \A old \in Lines : Placed(old) => Key(old) < Key(line)
    BY <1>0, <2>6, <2>7, KeyType DEF SaysTrue
  <2> QED
    BY <1>4, <2>4, <2>5, <2>8, <2>9
<1>9. CASE Poll
  <2> DEFINE S == {r \in Requests : life[r] = "answered" /\ answer[r] # "none"}
  <2>1. Write(Line("completed", None, S)) /\ None \in 0..MaxPhases
    BY <1>9, IteratedAssumption DEF Poll, None
  <2>2. \A r \in S : life'[r] = "delivered" /\ answer'[r] # "none"
    BY <1>9 DEF Poll, Moved
  <2>3. S \subseteq Requests
    OBVIOUS
  <2> HIDE DEF S
  <2>4. SUFFICES ASSUME NEW line, line = Line("completed", None, S), Write(line)
                 PROVE  LinesOK'
    BY <2>1
  <2>5. line \in LineSet /\ line.kind = "completed" /\ line.requests = S
    BY <2>1, <2>3, <2>4, LineType
  <2>6. SaysTrue(line)' /\ ~Placed(line)
    BY <2>2, <2>5 DEF SaysTrue, Placed, Taken
  <2> QED
    BY <1>4, <2>4, <2>5, <2>6
<1> QED
  BY <1>3, <1>5, <1>6, <1>7, <1>8, <1>9, Zenon
  DEF Next, Planner, BetweenPhases, KillPlanner, ExpireDeadline, MainThread,
      ReadStart, ReadCompleted, ReadEnd, MarkStale, ReadDiscarded, CloseRegistry,
      ShutDown, CloseRecords, Done, vars, Submit, Dispatch, Fail, Receive,
      Handler, Accept, BuildPrompt, RegisterFuture, Collect, Process, FinalCheck,
      Record, Respond, ModelDone, Handling

(* The lines of the head's phase tell how far the planner is.              *)
LEMMA EndLineEnded ==
    ASSUME TypeOK, NEW line \in LineSet, SaysTrue(line), Placed(line)
    PROVE  /\ line.iteration \in Nat /\ line.iteration <= phase
           /\ line.kind # "phase_start" => Ended(line.iteration)
<1>0. phase \in Nat
  BY IteratedAssumption DEF TypeOK, PlannerTypeOK
<1>1. Key(line) <= Now
  BY DEF SaysTrue
<1> QED
  BY <1>0, <1>1, KeyType DEF Now, Ended, Placed

(* The planner's end is the end of its lines, and then nobody is left who  *)
(* handles a request.                                                      *)
LEMMA ReaderStep ==
    TypeOK /\ TypeOK' /\ LinesOK /\ ReaderOK /\ [Next]_vars => ReaderOK'
<1> SUFFICES ASSUME TypeOK, TypeOK', LinesOK, ReaderOK, [Next]_vars
             PROVE  ReaderOK'
  OBVIOUS
<1>0. marking \in Nat /\ phase \in Nat /\ phase' \in Nat
  BY TypeParts, IteratedAssumption DEF RecordTypes, TypeOK, PlannerTypeOK
<1>1. [PlannerNext]_plannerVars
  BY PlannerSteps
<1>2. phase <= phase' /\ ((ppc = "exited" \/ killed) => (ppc' = "exited" \/ killed'))
  BY <1>0, <1>1 DEF PlannerNext, PlannerStep, StartPhase, NoPhase, EndPhase,
     SavePlan, Cleanup, Decide, Expire, Kill, Over, plannerVars
<1>3. rpc' = "mark" => marking' <= phase' /\ Ended(marking)'
  <2>1. CASE ReadEnd
    <3>1. Head(stdout) \in LineSet /\ SaysTrue(Head(stdout))
          /\ Head(stdout).kind = "phase_end"
      BY <2>1, HeadIsFirst DEF ReadEnd, LinesOK, LinesTrue
    <3>2. /\ Head(stdout).iteration <= phase /\ Ended(Head(stdout).iteration)
      BY <3>1, EndLineEnded DEF Placed
    <3>3. marking' = Head(stdout).iteration /\ UNCHANGED <<phase, ppc, killed>>
      BY <2>1, Zenon DEF ReadEnd, Reading, plannerVars
    <3> QED
      BY <3>2, <3>3 DEF Ended
  <2>2. CASE UNCHANGED <<rpc, marking>>
    <3>1. SUFFICES ASSUME rpc = "mark" PROVE marking <= phase' /\ Ended(marking)'
      BY <2>2 DEF Ended
    <3>2. marking <= phase /\ Ended(marking)
      BY <3>1 DEF ReaderOK
    <3>3. PICK i \in Nat : i = marking
      BY <1>0
    <3>4. Ended(i)'
      BY <3>2, <3>3, EndedStable
    <3> QED
      BY <1>0, <1>2, <2>2, <3>2, <3>3, <3>4 DEF Ended
  <2>3. rpc' = "mark" => ReadEnd \/ UNCHANGED <<rpc, marking>>
    BY DEF Next, Planner, PhaseStarts, PhaseEnds, BetweenPhases, StopBridge,
      KillPlanner, ExpireDeadline, Poll, MainThread,
      ReadStart, ReadCompleted, ReadEnd, MarkStale, ReadDiscarded, CloseRegistry,
      ShutDown, CloseRecords, Done, vars, Submit, Dispatch, Fail, Receive,
      Handler, Accept, BuildPrompt, RegisterFuture, Collect, Process, FinalCheck,
      Record, Respond, ModelDone, Handling, readerVars
  <2> QED
    BY <2>1, <2>2, <2>3
<1>4. rpc' \in {"stop", "joining", "closed"} =>
         stdout' = <<>> /\ (ppc' = "exited" \/ killed')
  <2>1. CASE CloseRegistry
    BY <1>2, <2>1 DEF CloseRegistry
  <2>2. CASE rpc \in {"stop", "joining", "closed"}
    <3>1. stdout = <<>> /\ (ppc = "exited" \/ killed)
      BY <2>2 DEF ReaderOK
    <3>2. ~(Planner \/ KillPlanner) \/ UNCHANGED stdout
      BY <3>1, Zenon DEF Planner, PhaseStarts, StartPhase, BetweenPhases, PhaseEnds,
                         EndPhase, StopBridge, Cleanup, KillPlanner
    <3>3. UNCHANGED stdout
      BY <2>2, <3>1, <3>2
      DEF Next, ExpireDeadline, Poll, Searching, MainThread, NextLine,
        ReadStart, ReadCompleted, ReadEnd, MarkStale, ReadDiscarded,
        CloseRegistry, ShutDown, CloseRecords, Done, vars, Submit, Dispatch,
        Fail, Receive, Handler, Accept, BuildPrompt, RegisterFuture, Collect,
        Process, FinalCheck, Record, Respond, ModelDone, Handling, KillPlanner
    <3> QED
      BY <1>2, <3>1, <3>3
  <2>3. CASE UNCHANGED rpc
    BY <2>2, <2>3
  <2>4. \/ CloseRegistry \/ UNCHANGED rpc \/ rpc \in {"stop", "joining", "closed"}
        \/ rpc' \in {"read", "mark"}
    BY DEF Next, Planner, PhaseStarts, PhaseEnds, BetweenPhases, StopBridge,
      KillPlanner, ExpireDeadline, Poll, MainThread,
      ReadStart, ReadCompleted, ReadEnd, MarkStale, ReadDiscarded, ShutDown,
      CloseRecords, Done, vars, Submit, Dispatch, Fail, Receive, Handler, Accept,
      BuildPrompt, RegisterFuture, Collect, Process, FinalCheck, Record, Respond,
      ModelDone, Handling, readerVars
  <2> QED
    BY <2>1, <2>2, <2>3, <2>4
<1>5. rpc' = "closed" => HandlersGone'
  <2>1. CASE CloseRecords
    BY <2>1 DEF CloseRecords, HandlersGone, Reading
  <2>2. CASE rpc = "closed"
    <3>1. \A r \in Requests : hpc[r] \in {"none", "gone"}
      BY <2>2 DEF ReaderOK, HandlersGone
    <3>2. \A r \in Requests : ~Handler(r) /\ ~Receive(r)
      BY <2>2, <3>1 DEF Handler, Accept, BuildPrompt, RegisterFuture, Collect,
         Process, FinalCheck, Record, Respond, Receive, ServerUp
    <3>3. UNCHANGED hpc
      BY <3>2, Zenon DEF Next, Planner, PhaseStarts, PhaseEnds, BetweenPhases,
        StopBridge, KillPlanner, ExpireDeadline, Poll, MainThread,
        ReadStart, ReadCompleted, ReadEnd, MarkStale, ReadDiscarded,
        CloseRegistry, ShutDown, CloseRecords, Done, vars, Submit, Dispatch,
        Fail, ModelDone, handlerVars, Reading
    <3> QED
      BY <3>1, <3>3 DEF HandlersGone
  <2>3. rpc' = "closed" => CloseRecords \/ rpc = "closed"
    BY DEF Next, Planner, PhaseStarts, PhaseEnds, BetweenPhases, StopBridge,
      KillPlanner, ExpireDeadline, Poll, MainThread,
      ReadStart, ReadCompleted, ReadEnd, MarkStale, ReadDiscarded, CloseRegistry,
      ShutDown, Done, vars, Submit, Dispatch, Fail, Receive, Handler, Accept,
      BuildPrompt, RegisterFuture, Collect, Process, FinalCheck, Record, Respond,
      ModelDone, Handling, readerVars
  <2> QED
    BY <2>1, <2>2, <2>3
<1> QED
  BY <1>3, <1>4, <1>5 DEF ReaderOK

----------------------------------------------------------------------------
(* The rows.                                                               *)

(* Nothing the planner and its bridge do changes a row.                    *)
LEMMA PlannerRows ==
    /\ TypeOK /\ RequestsOK /\ RowsOK /\ [Next]_vars
    /\ Planner \/ KillPlanner \/ ExpireDeadline
    => RowsOK'
<1> SUFFICES ASSUME TypeOK, RequestsOK, RowsOK, [Next]_vars,
                    Planner \/ KillPlanner \/ ExpireDeadline, NEW r \in Requests
             PROVE  RowOK(r)'
  BY DEF RowsOK
<1>0. /\ RowOK(r) /\ RequestOK(r) /\ UNCHANGED <<iteration, hpc, hstatus, row, answer>>
      /\ iteration[r] \in Nat /\ phase \in Nat
  BY OneRequest DEF RowsOK, RequestsOK, Planner, PhaseStarts, BetweenPhases, PhaseEnds,
     StopBridge, KillPlanner, ExpireDeadline, bridgeVars, handlerVars
<1>1. row[r] \in Stale =>
         \/ Ended(iteration[r])'
         \/ hpc[r] \in {"respond", "gone"} /\ hstatus[r] = "stale_iteration"
  <2>1. SUFFICES ASSUME row[r] \in Stale, Ended(iteration[r]) PROVE Ended(iteration[r])'
    BY <1>0 DEF RowOK
  <2>2. row[r] # "none"
    BY <2>1 DEF Stale
  <2>3. iteration[r] <= phase
    BY <1>0, <2>2 DEF RequestOK
  <2>4. PICK i \in Nat : i = iteration[r]
    BY <1>0
  <2>5. Ended(i)'
    BY <2>1, <2>3, <2>4, EndedStable
  <2> QED
    BY <1>0, <2>4, <2>5 DEF Ended
<1>2. /\ answer[r] # "none" => life'[r] \in {"answered", "delivered", "discarded"}
      /\ answer[r] = "ok" =>
            /\ life'[r] = "delivered" => row[r] = "ok"
            /\ life'[r] = "answered" => row[r] = "ok" \/ ppc' # "search"
  <2>1. life'[r] = life[r] \/ (life[r] # "delivered" /\ life'[r] \in {"dropped", "discarded"})
    BY DEF Planner, PhaseStarts, BetweenPhases, PhaseEnds, StopBridge, KillPlanner,
           ExpireDeadline, bridgeVars, Moved
  <2>2. life[r] = "answered" /\ life'[r] = "dropped" => FALSE
    BY DEF Planner, PhaseStarts, BetweenPhases, PhaseEnds, StopBridge, KillPlanner,
           ExpireDeadline, bridgeVars, Moved
  <2>3. life[r] = "answered" => ppc # "next"
    BY <1>0 DEF RequestOK
  <2>4. ppc # "next" /\ ppc # "search" => ppc' # "search"
    BY DEF Planner, PhaseStarts, StartPhase, BetweenPhases, NoPhase, SavePlan, Decide,
       PhaseEnds, EndPhase, StopBridge, Cleanup, KillPlanner, Kill,
         ExpireDeadline, Expire
  <2>5. life[r] = "discarded" => life'[r] = "discarded"
    BY DEF Planner, PhaseStarts, BetweenPhases, PhaseEnds, StopBridge, KillPlanner,
           ExpireDeadline, bridgeVars, Moved
  <2> QED
    BY <1>0, <2>1, <2>2, <2>3, <2>4, <2>5 DEF RowOK
<1> QED
  BY <1>0, <1>1, <1>2 DEF RowOK

(* What is polled while the phase is searched has its row.                 *)
LEMMA BridgeRows ==
    /\ TypeOK /\ RequestsOK /\ RowsOK
    /\ Poll \/ \E r \in Requests : Submit(r) \/ Dispatch(r) \/ Fail(r)
    => RowsOK'
<1> SUFFICES ASSUME TypeOK, RequestsOK, RowsOK, NEW r \in Requests,
                    Poll \/ \E q \in Requests : Submit(q) \/ Dispatch(q) \/ Fail(q)
             PROVE  RowOK(r)'
  BY DEF RowsOK
<1>0. /\ RowOK(r) /\ RequestOK(r)
      /\ UNCHANGED <<hpc, hstatus, row, answer, phase, ppc, killed>>
  BY Zenon DEF RowsOK, RequestsOK, Poll, Submit, Dispatch, Fail, plannerVars, handlerVars
<1>1. life \in [Requests -> Lives] /\ iteration \in [Requests -> 0..MaxPhases]
  BY TypeParts, Zenon DEF BridgeTypes
<1>2. CASE Poll
  <2>1. /\ life'[r] = IF life[r] = "answered" THEN "delivered" ELSE life[r]
        /\ ppc = "search" /\ iteration' = iteration
    BY <1>2 DEF Poll, Moved, Searching
  <2> QED
    BY <1>0, <2>1 DEF RowOK, Ended
<1>3. ASSUME NEW q \in Requests, Submit(q) \/ Dispatch(q) \/ Fail(q)
      PROVE  RowOK(r)'
  <2>1. /\ life'[r] = life[r] \/ (life[r] \in {"new", "queued", "sent"} /\ life'[r] # "delivered")
        /\ iteration'[r] = iteration[r] \/ life[r] = "new"
    BY <1>1, <1>3 DEF Submit, Dispatch, Fail
  <2>2. life[r] = "new" => row[r] = "none" /\ hpc[r] = "none"
    BY <1>0 DEF RequestOK
  <2>3. life[r] \in {"new", "queued", "sent"} => answer[r] = "none"
    BY <1>0 DEF RowOK
  <2> QED
    BY <1>0, <2>1, <2>2, <2>3 DEF RowOK, Ended, Stale
<1> QED
  BY <1>2, <1>3

(* A handler writes its row once, and its response tells what it found.    *)
LEMMA HandlerRows ==
    ASSUME TypeOK, RequestsOK, RowsOK, NEW q \in Requests,
           Receive(q) \/ Handler(q) \/ ModelDone(q)
    PROVE  RowsOK'
<1> SUFFICES ASSUME NEW r \in Requests PROVE RowOK(r)'
  BY DEF RowsOK
<1>0. RowOK(r) /\ RequestOK(r) /\ UNCHANGED <<iteration, phase, ppc, killed>>
  BY Zenon DEF RowsOK, RequestsOK, Receive, Handler, Accept, BuildPrompt,
     RegisterFuture, Collect, Process, FinalCheck, Record, Respond, ModelDone,
     Handling, bridgeVars, plannerVars
<1>1. /\ hpc \in [Requests -> Handlings] /\ hstatus \in [Requests -> Statuses]
      /\ row \in [Requests -> RowStatuses] /\ life \in [Requests -> Lives]
      /\ answer \in [Requests -> Statuses]
  BY TypeParts, Zenon DEF HandlerTypes, RecordTypes, BridgeTypes
<1>2. CASE r # q
  <2>1. /\ hpc'[r] = hpc[r] /\ hstatus'[r] = hstatus[r]
        /\ row'[r] = row[r] /\ life'[r] = life[r]
    BY <1>1, <1>2 DEF Receive, Handler, Accept, BuildPrompt, RegisterFuture, Collect,
       Process, FinalCheck, Record, Respond, ModelDone, bridgeVars, Handling, GoTo
  <2>2. answer'[r] = answer[r]
    <3>1. answer' = answer \/ answer' = [answer EXCEPT ![q] = hstatus[q]]
      BY Zenon DEF Receive, Handler, Accept, BuildPrompt, RegisterFuture, Collect,
       Process, FinalCheck, Record, Respond, ModelDone, bridgeVars, Handling
    <3> QED
      BY <1>1, <1>2, <3>1
  <2> QED
    BY <1>0, <2>1, <2>2 DEF RowOK, Ended
<1>3. CASE Receive(r)
  <2>1. /\ hpc'[r] = "received" /\ row'[r] = "received"
        /\ answer' = answer
    BY <1>1, <1>3 DEF Receive, GoTo
  <2>2. answer[r] = "none"
    BY <1>0, <1>3 DEF Receive, RequestOK, RowOK
  <2> QED
    BY <2>1, <2>2 DEF RowOK, Stale
<1>4. CASE \/ Accept(r) \/ BuildPrompt(r) \/ RegisterFuture(r) \/ Collect(r)
           \/ Process(r) \/ FinalCheck(r)
  <2>1. /\ hpc[r] \notin {"respond", "gone"} /\ hpc'[r] \notin {"respond", "gone"}
        /\ UNCHANGED <<row, life, answer>>
    BY <1>1, <1>4 DEF Accept, BuildPrompt, RegisterFuture, Collect, Process,
                      FinalCheck, Handling, bridgeVars, GoTo
  <2> QED
    BY <1>0, <2>1 DEF RowOK, Ended
<1>5. CASE Record(r)
  <2>1. /\ hpc[r] = "record" /\ hpc'[r] = "respond" /\ hstatus' = hstatus
        /\ row'[r] = IF row[r] \in Stale THEN row[r] ELSE hstatus[r]
        /\ UNCHANGED <<life, answer>>
    BY <1>1, <1>5 DEF Record, Finished, Handling, bridgeVars
  <2>2. hstatus[r] \in Stale => hstatus[r] = "stale_iteration"
    <3>1. hstatus[r] \in Statuses
      BY <1>1
    <3> QED
      BY <3>1 DEF Statuses, Stale
  <2> QED
    BY <1>0, <2>1, <2>2 DEF RowOK, Ended, Stale
<1>6. CASE Respond(r)
  <2>1. /\ hpc[r] = "respond" /\ hpc'[r] = "gone" /\ hstatus' = hstatus
        /\ row' = row
    BY <1>1, <1>6 DEF Respond
  <2>2. CASE life[r] = "sent"
    <3>1. life'[r] = "answered" /\ answer' = [answer EXCEPT ![r] = hstatus[r]]
      BY <1>1, <1>6, <2>2 DEF Respond
    <3>2. answer'[r] = hstatus[r]
      BY <1>1, <3>1
    <3>3. /\ ~killed /\ iteration[r] = phase
      BY <1>0, <2>2 DEF RequestOK
    <3>4. iteration[r] \in Nat
      BY OneRequest
    <3>5. hstatus[r] = "ok" => row[r] = "ok" \/ ppc # "search"
      BY <1>0, <2>1, <3>3, <3>4 DEF RowOK, Ended
    <3> QED
      BY <1>0, <2>1, <3>1, <3>2, <3>5 DEF RowOK, Ended
  <2>3. CASE life[r] # "sent"
    <3>1. UNCHANGED <<life, answer>>
      BY <1>6, <2>3, Zenon DEF Respond
    <3>2. answer[r] = "none"
      BY <1>0, <2>1 DEF RowOK
    <3> QED
      BY <1>0, <2>1, <3>1, <3>2 DEF RowOK, Ended
  <2> QED
    BY <2>2, <2>3
<1>7. CASE ModelDone(r)
  BY <1>0, <1>7 DEF ModelDone, Handling, bridgeVars, RowOK, Ended
<1> QED
  BY <1>2, <1>3, <1>4, <1>5, <1>6, <1>7 DEF Handler

(* The main thread makes rows stale, of phases that have ended.            *)
LEMMA MainThreadRows ==
    TypeOK /\ RequestsOK /\ LinesOK /\ ReaderOK /\ RowsOK /\ MainThread => RowsOK'
<1> SUFFICES ASSUME TypeOK, RequestsOK, LinesOK, ReaderOK, RowsOK, MainThread,
                    NEW r \in Requests
             PROVE  RowOK(r)'
  BY DEF RowsOK
<1>0. RowOK(r) /\ RequestOK(r)
      /\ UNCHANGED <<iteration, phase, ppc, killed, hpc, hstatus, life, answer>>
  BY Zenon DEF RowsOK, RequestsOK, MainThread, ReadStart, ReadCompleted, ReadEnd,
     MarkStale, ReadDiscarded, CloseRegistry, ShutDown, CloseRecords, Reading,
     bridgeVars, plannerVars
<1>1. row \in [Requests -> RowStatuses]
  BY TypeParts, Zenon DEF RecordTypes
<1>2. \/ row'[r] = row[r]
      \/ /\ row'[r] \in Stale
         /\ row[r] # "ok" \/ life[r] = "discarded"
         /\ Ended(iteration[r])
  <2>1. ASSUME NEW i, row' = Marked(i), Ended(i)
        PROVE  \/ row'[r] = row[r]
               \/ row'[r] \in Stale /\ row[r] # "ok" /\ Ended(iteration[r])
    BY <1>1, <2>1, MarkedType DEF Stale
  <2>2. CASE MarkStale
    <3>1. Ended(marking) /\ row' = Marked(marking)
      BY <2>2 DEF MarkStale, ReaderOK
    <3> QED
      BY <2>1, <3>1
  <2>3. CASE ShutDown \/ CloseRecords
    <3>1. ppc = "exited" \/ killed
      BY <2>3 DEF ShutDown, CloseRecords, ReaderOK
    <3>2. \A i : Ended(i)
      BY <3>1 DEF Ended
    <3>3. row' = row \/ \E i : row' = Marked(i)
      BY <2>3, Zenon DEF ShutDown, CloseRecords
    <3> QED
      BY <2>1, <3>2, <3>3
  <2>4. CASE ReadDiscarded
    <3>1. /\ Head(stdout) \in LineSet /\ SaysTrue(Head(stdout))
          /\ Head(stdout).kind = "discarded"
      BY <2>4, HeadIsFirst DEF ReadDiscarded, LinesOK, LinesTrue
    <3>2. Ended(Head(stdout).iteration)
      BY <3>1, EndLineEnded DEF Placed
    <3>3. r \in Head(stdout).requests =>
             life[r] = "discarded" /\ iteration[r] = Head(stdout).iteration
      BY <3>1 DEF SaysTrue
    <3>4. row'[r] = IF r \in Head(stdout).requests THEN DiscardedStatus(row[r]) ELSE row[r]
      BY <2>4 DEF ReadDiscarded
    <3> QED
      BY <3>2, <3>3, <3>4 DEF DiscardedStatus, Stale
  <2>5. CASE ReadStart \/ ReadCompleted \/ ReadEnd \/ CloseRegistry
    BY <2>5, Zenon DEF ReadStart, ReadCompleted, ReadEnd, CloseRegistry
  <2> QED
    BY <2>2, <2>3, <2>4, <2>5 DEF MainThread
<1>3. Ended(iteration[r])' <=> Ended(iteration[r])
  BY <1>0 DEF Ended
<1> QED
  BY <1>0, <1>2, <1>3 DEF RowOK, Stale

----------------------------------------------------------------------------
(* What the lines of the phases tell.                                      *)

(* Who writes and who reads.                                               *)
LEMMA StdoutMoves ==
    ASSUME ~Direct, [Next]_vars
    PROVE  \/ UNCHANGED <<stdout, phase>>
           \/ PhaseStarts /\ Write(Line("phase_start", phase', {}))
           \/ PhaseEnds /\ Write(Line("phase_end", phase, {}))
           \/ StopBridge /\ \E S \in SUBSET Requests : Write(Line("discarded", phase, S))
           \/ Poll /\ \E S \in SUBSET Requests : Write(Line("completed", None, S))
           \/ ReadStart \/ ReadCompleted \/ ReadEnd \/ ReadDiscarded
<1>1. PhaseStarts => Write(Line("phase_start", phase', {}))
  BY DEF PhaseStarts, WritePhase
<1>2. PhaseEnds => Write(Line("phase_end", phase, {}))
  BY DEF PhaseEnds, WritePhase
<1>3. StopBridge => \/ UNCHANGED <<stdout, phase>>
                    \/ \E S \in SUBSET Requests : Write(Line("discarded", phase, S))
  BY DEF StopBridge, Cleanup
<1>4. CASE BetweenPhases \/ KillPlanner \/ ExpireDeadline
  BY <1>4, Zenon DEF BetweenPhases, NoPhase, SavePlan, Decide, KillPlanner, Kill,
                     ExpireDeadline, Expire
<1>5. CASE MainThread
  BY <1>5, Zenon DEF MainThread, MarkStale, CloseRegistry, ShutDown, CloseRecords,
                     Reading, plannerVars
<1>6. ASSUME NEW r \in Requests,
             Submit(r) \/ Dispatch(r) \/ Fail(r) \/ Receive(r) \/ Handler(r) \/ ModelDone(r)
      PROVE  UNCHANGED <<stdout, phase>>
  BY <1>6, Zenon DEF Submit, Dispatch, Fail, Receive, Handler, Accept, BuildPrompt,
     RegisterFuture, Collect, Process, FinalCheck, Record, Respond, ModelDone,
     Handling, plannerVars
<1>7. CASE Done \/ UNCHANGED vars
  BY <1>7, Zenon DEF Done, vars, plannerVars
<1>8. Poll => \E S \in SUBSET Requests : Write(Line("completed", None, S))
  BY DEF Poll
<1> QED
  BY <1>1, <1>2, <1>3, <1>4, <1>5, <1>6, <1>7, <1>8, Zenon DEF Next, Planner

(* Writing takes no line away, and reading only the first one.             *)
LEMMA LinesKept ==
    ASSUME TypeOK, TypeOK', LinesOK, ~Direct, [Next]_vars, NEW line \in Lines
    PROVE  \/ line \in Lines'
           \/ /\ line = Head(stdout)
              /\ \/ ReadStart /\ line.kind = "phase_start"
                 \/ ReadCompleted /\ line.kind = "completed"
                 \/ ReadEnd /\ line.kind = "phase_end"
                 \/ ReadDiscarded /\ line.kind = "discarded"
<1>0. /\ stdout \in Seq(LineSet) /\ phase \in 0..MaxPhases /\ phase' \in 0..MaxPhases
      /\ None \in 0..MaxPhases
  <2>1. stdout \in Seq(LineSet) /\ phase \in 0..MaxPhases /\ phase' \in 0..MaxPhases
    BY TypeParts, Zenon DEF BridgeTypes, TypeOK, PlannerTypeOK
  <2> QED
    BY <2>1, IteratedAssumption DEF None
<1>1. ASSUME NEW l \in LineSet, Write(l) PROVE line \in Lines'
  BY <1>0, <1>1, LinesAppend
<1>2. CASE UNCHANGED stdout
  BY <1>2 DEF Lines
<1>3. CASE Write(Line("phase_start", phase', {}))
  BY <1>0, <1>1, <1>3, LineType
<1>4. CASE Write(Line("phase_end", phase, {}))
  BY <1>0, <1>1, <1>4, LineType
<1>5. CASE \E S \in SUBSET Requests : \/ Write(Line("discarded", phase, S))
                                      \/ Write(Line("completed", None, S))
  BY <1>0, <1>1, <1>5, LineType
<1>6. ASSUME NEW kind, NextLine(kind)
      PROVE  line \in Lines' \/ (line = Head(stdout) /\ line.kind = kind)
  BY <1>6, HeadIsFirst
<1>7. CASE ReadStart \/ ReadCompleted \/ ReadEnd \/ ReadDiscarded
  BY <1>6, <1>7 DEF ReadStart, ReadCompleted, ReadEnd, ReadDiscarded
<1> QED
  BY <1>2, <1>3, <1>4, <1>5, <1>7, StdoutMoves

(* The end of a phase is awaited until its line is read.                   *)
LEMMA AwaitedStable ==
    ASSUME TypeOK, TypeOK', LinesOK, ~Direct, [Next]_vars,
           NEW i \in 0..MaxPhases, Awaited(i),
           ReadEnd => Head(stdout).iteration # i
    PROVE  Awaited(i)'
<1> DEFINE line == Line("phase_end", i, {})
<1>0. line \in LineSet /\ line.kind = "phase_end" /\ line.iteration = i
  BY LineType
<1> SUFFICES killed' \/ (i = phase' /\ ppc' = "search") \/ line \in Lines'
  BY DEF Awaited, Line
<1>1. CASE line \in Lines
  <2>1. line \in Lines' \/ (ReadEnd /\ line = Head(stdout)) \/ line.kind # "phase_end"
    BY <1>1, LinesKept
  <2> QED
    BY <1>0, <2>1
<1> HIDE DEF line
<1>2. CASE killed
  BY <1>2, PlannerSteps DEF PlannerNext, PlannerStep, StartPhase, NoPhase, EndPhase,
     SavePlan, Cleanup, Decide, Expire, Kill, Over, plannerVars
<1>3. CASE i = phase /\ ppc = "search"
  <2>1. CASE PhaseEnds
    <3>1. Write(line)
      BY <1>3, <2>1 DEF PhaseEnds, WritePhase, line
    <3>2. stdout \in Seq(LineSet)
      BY TypeParts DEF BridgeTypes
    <3> QED
      BY <1>0, <3>1, <3>2, LinesAppend
  <2>2. CASE ~PhaseEnds
    <3>1. UNCHANGED <<phase, ppc>>
      BY <1>3, <2>2
      DEF Next, Planner, PhaseStarts, StartPhase, BetweenPhases, NoPhase, SavePlan,
        Decide, StopBridge, Cleanup, KillPlanner, Kill, ExpireDeadline, Expire,
        Poll, MainThread, ReadStart, ReadCompleted, ReadEnd, MarkStale,
        ReadDiscarded, CloseRegistry, ShutDown, CloseRecords, Reading, Done,
        vars, plannerVars, Submit, Dispatch, Fail, Receive, Handler, Accept,
        BuildPrompt, RegisterFuture, Collect, Process, FinalCheck, Record,
          Respond, ModelDone, Handling
    <3> QED
      BY <1>3, <3>1
  <2> QED
    BY <2>1, <2>2
<1> QED
  BY <1>1, <1>2, <1>3 DEF Awaited, line

(* Until the reader has seen a line, every phase begun is awaited.         *)
LEMMA NotYetSeenStep ==
    ASSUME TypeOK, TypeOK', LinesOK, NotYetSeen, ~Direct, [Next]_vars
    PROVE  NotYetSeen'
<1> SUFFICES ASSUME ~lifecycle_seen' PROVE NotYetSeen'
  BY DEF NotYetSeen
<1>0. /\ stdout \in Seq(LineSet) /\ phase \in 0..MaxPhases /\ phase' \in 0..MaxPhases
      /\ phase \in Nat /\ phase' \in Nat /\ None \in 0..MaxPhases
  <2>1. stdout \in Seq(LineSet) /\ phase \in 0..MaxPhases /\ phase' \in 0..MaxPhases
    BY TypeParts, Zenon DEF BridgeTypes, TypeOK, PlannerTypeOK
  <2> QED
    BY <2>1, IteratedAssumption DEF None
<1>1. ~lifecycle_seen
  BY Zenon DEF Next, Planner, PhaseStarts, BetweenPhases, PhaseEnds, StopBridge,
    KillPlanner, ExpireDeadline, Poll, MainThread, ReadStart, ReadCompleted,
    ReadEnd, MarkStale, ReadDiscarded, CloseRegistry, ShutDown, CloseRecords,
    Done, vars, Submit, Dispatch, Fail, Receive, Handler, Accept, BuildPrompt,
    RegisterFuture, Collect, Process, FinalCheck, Record, Respond, ModelDone,
      registryVars
<1>2. /\ stdout = <<>> => phase = 0
      /\ stdout # <<>> => Head(stdout).kind = "phase_start"
      /\ \A i \in 1..phase : Awaited(i)
  BY <1>1 DEF NotYetSeen
<1>3. ~ReadStart /\ ~ReadCompleted /\ ~ReadEnd /\ ~ReadDiscarded
  <2>1. ~ReadStart
    BY DEF ReadStart
  <2> QED
    BY <1>2, <2>1 DEF ReadCompleted, ReadEnd, ReadDiscarded, NextLine
<1>4. ASSUME NEW i \in 1..phase PROVE Awaited(i)'
  BY <1>0, <1>2, <1>3, <1>4, AwaitedStable, IteratedAssumption
<1>5. CASE UNCHANGED <<stdout, phase>>
  BY <1>2, <1>4, <1>5 DEF NotYetSeen
<1>6. ASSUME NEW line \in LineSet, Write(line),
             stdout = <<>> => line.kind = "phase_start",
             \A i \in 1..phase' : Awaited(i)'
      PROVE  NotYetSeen'
  <2>1. /\ stdout' # <<>>
        /\ Head(stdout') = IF stdout = <<>> THEN line ELSE Head(stdout)
    BY <1>0, <1>6, LinesAppend
  <2>2. Head(stdout').kind = "phase_start"
    BY <1>2, <1>6, <2>1
  <2> QED
    BY <1>6, <2>1, <2>2 DEF NotYetSeen
<1>7. CASE PhaseStarts /\ Write(Line("phase_start", phase', {}))
  <2>1. ppc' = "search" /\ phase' = phase + 1
    BY <1>7 DEF PhaseStarts, StartPhase
  <2>2. ASSUME NEW i \in 1..phase' PROVE Awaited(i)'
    BY <1>0, <1>4, <2>1 DEF Awaited
  <2> QED
    BY <1>0, <1>6, <1>7, <2>2, LineType
<1>8. CASE \/ PhaseEnds /\ Write(Line("phase_end", phase, {}))
           \/ StopBridge /\ \E S \in SUBSET Requests : Write(Line("discarded", phase, S))
           \/ Poll /\ \E S \in SUBSET Requests : Write(Line("completed", None, S))
  <2>1. ppc \in {"search", "cleanup"} /\ phase' = phase
    BY <1>8, Zenon DEF PhaseEnds, EndPhase, StopBridge, Cleanup, Poll, Searching,
                       plannerVars
  <2>2. stdout # <<>>
    BY <1>2, <2>1 DEF LinesOK, PhaseCounts
  <2>3. PICK line \in LineSet : Write(line)
    BY <1>0, <1>8, LineType
  <2> QED
    BY <1>4, <1>6, <2>1, <2>2, <2>3
<1> QED
  BY <1>3, <1>5, <1>7, <1>8, StdoutMoves

(* The start of a phase is read before its end.                            *)
LEMMA StartsStep ==
    ASSUME TypeOK, TypeOK', LinesOK, LinesOK', StartsAwaited, ~Direct, [Next]_vars
    PROVE  StartsAwaited'
<1>0. /\ stdout \in Seq(LineSet) /\ phase \in 0..MaxPhases /\ phase' \in 0..MaxPhases
      /\ Lines \subseteq LineSet /\ None \in 0..MaxPhases
  <2>1. stdout \in Seq(LineSet) /\ phase \in 0..MaxPhases /\ phase' \in 0..MaxPhases
    BY TypeParts, Zenon DEF BridgeTypes, TypeOK, PlannerTypeOK
  <2> QED
    BY <2>1, LinesType, IteratedAssumption DEF None
<1>1. ASSUME NEW line \in Lines, line \in Lines', line.kind = "phase_start"
      PROVE  Awaited(line.iteration)'
  <2>1. line \in LineSet /\ Awaited(line.iteration)
    BY <1>0, <1>1 DEF StartsAwaited
  <2>2. ReadEnd => Head(stdout).iteration # line.iteration
    <3> SUFFICES ASSUME ReadEnd PROVE Head(stdout).iteration # line.iteration
      OBVIOUS
    <3>1. /\ Head(stdout) \in LineSet /\ Head(stdout).kind = "phase_end"
          /\ Key(Head(stdout)) < Key(line)
      BY <1>1, HeadIsFirst DEF ReadEnd, Placed
    <3> QED
      BY <1>1, <2>1, <3>1, KeyType
  <2>3. PICK i \in 0..MaxPhases : i = line.iteration
    BY <2>1 DEF LineSet
  <2>4. Awaited(i)'
    BY <2>1, <2>2, <2>3, AwaitedStable
  <2> QED
    BY <2>3, <2>4
<1>2. CASE Lines' \subseteq Lines
  BY <1>1, <1>2 DEF StartsAwaited
<1>3. ASSUME NEW line \in LineSet, Write(line),
             line.kind = "phase_start" => Awaited(line.iteration)'
      PROVE  StartsAwaited'
  <2>1. Lines' = Lines \cup {line}
    BY <1>0, <1>3, LinesAppend
  <2>2. ASSUME NEW l \in Lines', l.kind = "phase_start" PROVE Awaited(l.iteration)'
    BY <1>1, <1>3, <2>1, <2>2
  <2> QED
    BY <2>2 DEF StartsAwaited
<1>4. CASE PhaseStarts /\ Write(Line("phase_start", phase', {}))
  <2>1. SUFFICES ASSUME NEW line \in LineSet, line = Line("phase_start", phase', {})
                 PROVE  StartsAwaited'
    BY <1>0, LineType
  <2>2. line.iteration = phase' /\ ppc' = "search"
    BY <1>0, <1>4, <2>1, LineType DEF PhaseStarts, StartPhase
  <2>3. Awaited(line.iteration)'
    BY <2>2 DEF Awaited
  <2> QED
    BY <1>3, <1>4, <2>1, <2>3
<1>5. CASE \/ PhaseEnds /\ Write(Line("phase_end", phase, {}))
           \/ StopBridge /\ \E S \in SUBSET Requests : Write(Line("discarded", phase, S))
           \/ Poll /\ \E S \in SUBSET Requests : Write(Line("completed", None, S))
  <2>1. PICK line \in LineSet : Write(line) /\ line.kind # "phase_start"
    BY <1>0, <1>5, LineType
  <2> QED
    BY <1>3, <2>1
<1>6. CASE ReadStart \/ ReadCompleted \/ ReadEnd \/ ReadDiscarded
  <2>1. PICK kind : NextLine(kind)
    BY <1>6 DEF ReadStart, ReadCompleted, ReadEnd, ReadDiscarded
  <2> QED
    BY <1>2, <2>1, HeadIsFirst
<1>7. CASE UNCHANGED <<stdout, phase>>
  BY <1>2, <1>7 DEF Lines
<1> QED
  BY <1>4, <1>5, <1>6, <1>7, StdoutMoves

(* A phase is active only from its start to the line of its end.           *)
LEMMA ActiveStep ==
    ASSUME TypeOK, TypeOK', RequestsOK, LinesOK, ReaderOK, PhasesOK, ~Direct, [Next]_vars
    PROVE  ActiveAwaited'
<1>0. /\ active_iteration \in 0..MaxPhases /\ active_iteration' \in 0..MaxPhases
      /\ phase \in 0..MaxPhases /\ phase \in Nat
  <2>1. /\ active_iteration \in 0..MaxPhases /\ active_iteration' \in 0..MaxPhases
        /\ phase \in 0..MaxPhases
    BY TypeParts, Zenon DEF HandlerTypes, TypeOK, PlannerTypeOK
  <2> QED
    BY <2>1, IteratedAssumption
<1>1. ASSUME NEW i \in 0..MaxPhases, active_iteration' = i, Awaited(i),
             ReadEnd => Head(stdout).iteration # i
      PROVE  active_iteration' # None => Awaited(active_iteration)'
  BY <1>1, AwaitedStable
<1>2. CASE active_iteration' = active_iteration
  <2>1. /\ active_iteration # None => Awaited(active_iteration)
        /\ ReadEnd /\ active_iteration # None => Head(stdout).iteration # active_iteration
    BY <1>2 DEF PhasesOK, ActiveAwaited, ReadEnd, EndIteration
  <2>2. active_iteration' # None => Awaited(active_iteration)'
    BY <1>0, <1>1, <1>2, <2>1
  <2>3. rpc' \in {"stop", "joining", "closed"} => active_iteration' = None
    <3>1. CASE rpc \in {"stop", "joining", "closed"}
      BY <1>2, <3>1 DEF PhasesOK, ActiveAwaited
    <3>2. CASE CloseRegistry
      BY <3>2 DEF CloseRegistry
    <3>3. rpc' = rpc \/ CloseRegistry \/ rpc' \in {"read", "mark"}
             \/ rpc \in {"stop", "joining", "closed"}
      BY DEF Next, Planner, PhaseStarts, PhaseEnds, BetweenPhases, StopBridge,
        KillPlanner, ExpireDeadline, Poll, MainThread, ReadStart, ReadCompleted,
        ReadEnd, MarkStale, ReadDiscarded, ShutDown, CloseRecords, Done, vars,
        Submit, Dispatch, Fail, Receive, Handler, Accept, BuildPrompt,
        RegisterFuture, Collect, Process, FinalCheck, Record, Respond, ModelDone,
          Handling, readerVars
    <3> QED
      BY <3>1, <3>2, <3>3
  <2> QED
    BY <2>2, <2>3 DEF ActiveAwaited
<1>3. CASE active_iteration' = None
  BY <1>3 DEF ActiveAwaited
<1>4. CASE ReadStart
  <2>1. /\ Head(stdout) \in Lines /\ Head(stdout).kind = "phase_start"
        /\ active_iteration' = Head(stdout).iteration /\ ~ReadEnd
        /\ rpc' = "read"
    BY <1>4, HeadIsFirst DEF ReadStart, ReadEnd, NextLine, readerVars
  <2>2. Awaited(active_iteration')
    BY <2>1 DEF PhasesOK, StartsAwaited
  <2> QED
    BY <1>0, <1>1, <2>1, <2>2 DEF ActiveAwaited
<1>5. ASSUME NEW r \in Requests, Accept(r), active_iteration' # active_iteration
      PROVE  ActiveAwaited'
  <2>1. /\ active_iteration' = iteration[r] /\ ~lifecycle_seen /\ hpc[r] = "received"
        /\ rpc' = rpc /\ ~ReadEnd
    <3>1. /\ active_iteration' = iteration[r] /\ ~lifecycle_seen /\ hpc[r] = "received"
          /\ rpc' = rpc /\ stdout' = stdout
      BY <1>5 DEF Accept, Handling, readerVars
    <3>2. ~ReadEnd
      <4>1. ReadEnd => UNCHANGED hpc
        BY Zenon DEF ReadEnd, Reading
      <4>2. hpc' # hpc
        <5>1. hpc' = [hpc EXCEPT ![r] = "prompt"] \/ hpc' = [hpc EXCEPT ![r] = "record"]
          BY <1>5 DEF Accept, GoTo
        <5>2. hpc \in [Requests -> Handlings]
          BY TypeParts, Zenon DEF HandlerTypes
        <5> QED
          BY <3>1, <5>1, <5>2
      <4> QED
        BY <4>1, <4>2
    <3> QED
      BY <3>1, <3>2
  <2>2. iteration[r] \in 1..phase
    BY <2>1 DEF RequestsOK, RequestOK
  <2>3. Awaited(iteration[r])
    BY <2>1, <2>2 DEF PhasesOK, NotYetSeen
  <2>4. rpc \notin {"stop", "joining", "closed"}
    BY <1>0, <2>1, <2>2 DEF PhasesOK, NotYetSeen, ReaderOK
  <2> QED
    BY <1>0, <1>1, <2>1, <2>3, <2>4 DEF ActiveAwaited
<1>6. \/ active_iteration' \in {active_iteration, None} \/ ReadStart
      \/ \E r \in Requests : Accept(r)
  BY DEF Next, Planner, PhaseStarts, PhaseEnds, BetweenPhases, StopBridge,
    KillPlanner, ExpireDeadline, Poll, MainThread, ReadCompleted, ReadEnd,
    EndIteration, MarkStale, ReadDiscarded, CloseRegistry, ShutDown,
    CloseRecords, Done, vars, Submit, Dispatch, Fail, Receive, Handler,
    BuildPrompt, RegisterFuture, Collect, Process, FinalCheck, Record, Respond,
      ModelDone, registryVars
<1> QED
  BY <1>2, <1>3, <1>4, <1>5, <1>6

(* What cannot become ok stays so, once its phase is not active again.     *)
LEMMA NeverOkAgain ==
    ASSUME TypeOK, NEW r \in Requests, [Next]_vars, CannotBecomeOk(r),
           Accept(r) => active_iteration' # iteration[r]
    PROVE  CannotBecomeOk(r)'
<1>0. /\ hpc \in [Requests -> Handlings] /\ hstatus \in [Requests -> Statuses]
      /\ row \in [Requests -> RowStatuses]
  BY TypeParts, Zenon DEF HandlerTypes, RecordTypes
<1>1. CASE UNCHANGED <<hpc, hstatus>>
           /\ (row[r] \in Stale => row'[r] \in Stale)
  BY <1>1 DEF CannotBecomeOk
<1>2. CASE Planner \/ KillPlanner \/ ExpireDeadline \/ Poll \/ Done \/ UNCHANGED vars
  <2>1. UNCHANGED <<hpc, hstatus, row>>
    BY <1>2, Zenon DEF Planner, PhaseStarts, BetweenPhases, PhaseEnds, StopBridge,
      KillPlanner, ExpireDeadline, Poll, Done, vars, handlerVars
  <2> QED
    BY <1>1, <2>1
<1>3. CASE MainThread
  <2>1. UNCHANGED <<hpc, hstatus>>
    BY <1>3, Zenon DEF MainThread, ReadStart, ReadCompleted, ReadEnd, MarkStale,
      ReadDiscarded, CloseRegistry, ShutDown, CloseRecords, Reading
  <2>2. \A i : row[r] \in Stale => Marked(i)[r] \in Stale
    BY <1>0, MarkedType DEF Stale
  <2>3. ReadDiscarded /\ row[r] \in Stale => row'[r] \in Stale
    BY DEF ReadDiscarded, DiscardedStatus, Stale
  <2>4. row[r] \in Stale => row'[r] \in Stale
    BY <1>3, <2>2, <2>3, Zenon DEF MainThread, ReadStart, ReadCompleted, ReadEnd,
      MarkStale, CloseRegistry, ShutDown, CloseRecords
  <2> QED
    BY <1>1, <2>1, <2>4
<1>4. ASSUME NEW q \in Requests,
             \/ Submit(q) \/ Dispatch(q) \/ Fail(q) \/ ModelDone(q)
             \/ (q # r /\ (Receive(q) \/ Handler(q)))
      PROVE  CannotBecomeOk(r)'
  <2>1. hpc'[r] = hpc[r] /\ hstatus'[r] = hstatus[r] /\ row'[r] = row[r]
    BY <1>0, <1>4 DEF Submit, Dispatch, Fail, ModelDone, Receive, Handler, Accept,
       BuildPrompt, RegisterFuture, Collect, Process, FinalCheck, Record, Respond,
       handlerVars, GoTo
  <2> QED
    BY <2>1 DEF CannotBecomeOk
<1>5. CASE Receive(r)
  BY <1>0, <1>5 DEF Receive, GoTo, CannotBecomeOk
<1>6. CASE Accept(r)
  BY <1>0, <1>6 DEF Accept, GoTo, CannotBecomeOk
<1>7. CASE \/ BuildPrompt(r) \/ RegisterFuture(r) \/ Collect(r)
           \/ Process(r) \/ FinalCheck(r)
  <2>1. /\ row' = row
        /\ hpc[r] \in {"prompt", "register", "wait", "process", "final"}
    BY <1>7 DEF BuildPrompt, RegisterFuture, Collect, Process, FinalCheck
  <2> QED
    BY <2>1 DEF CannotBecomeOk
<1>8. CASE Record(r)
  <2>1. /\ hpc[r] = "record" /\ hpc'[r] = "respond" /\ hstatus' = hstatus
        /\ row'[r] = IF row[r] \in Stale THEN row[r] ELSE hstatus[r]
    BY <1>0, <1>8 DEF Record, Finished
  <2> QED
    BY <2>1 DEF CannotBecomeOk, Stale
<1>9. CASE Respond(r)
  BY <1>0, <1>9 DEF Respond, CannotBecomeOk
<1> QED
  BY <1>2, <1>3, <1>4, <1>5, <1>6, <1>7, <1>8, <1>9 DEF Next, Handler

(* A discarded request does not become ok, although the line that tells of *)
(* it may be read long after its answer has come.                          *)
LEMMA DiscardsStep ==
    ASSUME TypeOK, TypeOK', RequestsOK, LinesOK, LinesOK', PhasesOK, DiscardsOK,
           ~Direct, [Next]_vars
    PROVE  DiscardsOK'
<1> SUFFICES ASSUME NEW r \in Requests, life'[r] = "discarded", ~killed'
             PROVE  \/ \E line \in Lines' : line.kind = "discarded" /\ r \in line.requests
                    \/ /\ lifecycle_seen' /\ CannotBecomeOk(r)'
                       /\ Line("phase_end", iteration'[r], {}) \notin Lines'
  BY DEF DiscardsOK, DiscardTold, Line
<1>0. /\ stdout \in Seq(LineSet) /\ phase \in 0..MaxPhases /\ Lines \subseteq LineSet
      /\ phase \in Nat /\ iteration[r] \in Nat /\ None \in 0..MaxPhases
  <2>1. stdout \in Seq(LineSet) /\ phase \in 0..MaxPhases
    BY TypeParts, Zenon DEF BridgeTypes, TypeOK, PlannerTypeOK
  <2> QED
    BY <2>1, LinesType, IteratedAssumption, OneRequest DEF None
<1>1. ~killed
  BY PlannerSteps DEF PlannerNext, PlannerStep, StartPhase, NoPhase, EndPhase,
     SavePlan, Cleanup, Decide, Expire, Kill, Over, plannerVars
<1>2. CASE life[r] # "discarded"
  <2>1. StopBridge /\ life[r] \in {"sent", "answered"}
    <3>1. StopBridge \/ life'[r] = life[r] \/ life'[r] # "discarded"
      <4>1. life \in [Requests -> Lives]
        BY TypeParts, Zenon DEF BridgeTypes
      <4>2. CASE UNCHANGED life
        BY <4>2
      <4>3. CASE Poll
        BY <4>3 DEF Poll, Moved
      <4>4. ASSUME NEW q \in Requests, Submit(q) \/ Dispatch(q) \/ Fail(q) \/ Respond(q)
            PROVE  life'[r] = life[r] \/ life'[r] # "discarded"
        <5>1. \/ UNCHANGED life \/ life' = [life EXCEPT ![q] = "queued"]
              \/ life' = [life EXCEPT ![q] = "sent"]
              \/ life' = [life EXCEPT ![q] = "answered"]
          BY <4>4, Zenon DEF Submit, Dispatch, Fail, Respond
        <5> QED
          BY <4>1, <5>1
      <4>5. ~KillPlanner
        BY <1>1 DEF KillPlanner, Kill
      <4> QED
        BY <4>2, <4>3, <4>4, <4>5, Zenon
        DEF Next, Planner, PhaseStarts, BetweenPhases, PhaseEnds, ExpireDeadline,
          MainThread, ReadStart, ReadCompleted, ReadEnd, MarkStale,
          ReadDiscarded, CloseRegistry, ShutDown, CloseRecords, Reading, Done,
          vars, bridgeVars, Handler, Accept, BuildPrompt, RegisterFuture,
          Collect, Process, FinalCheck, Record, ModelDone, Handling, Receive
    <3>2. StopBridge
      BY <1>2, <3>1
    <3> QED
      BY <1>2, <3>2 DEF StopBridge
  <2>2. PICK S : /\ r \in S /\ S \subseteq Requests
                 /\ Write(Line("discarded", phase, S))
    BY <2>1 DEF StopBridge
  <2>3. /\ Line("discarded", phase, S) \in LineSet
        /\ Line("discarded", phase, S).kind = "discarded"
        /\ Line("discarded", phase, S).requests = S
    BY <1>0, <2>2, LineType
  <2>4. Line("discarded", phase, S) \in Lines'
    BY <1>0, <2>2, <2>3, LinesAppend
  <2> QED
    BY <2>2, <2>3, <2>4
<1>3. ASSUME life[r] = "discarded",
             NEW line \in Lines, line.kind = "discarded", r \in line.requests
      PROVE  \/ line \in Lines'
             \/ /\ lifecycle_seen' /\ CannotBecomeOk(r)'
                /\ Line("phase_end", iteration'[r], {}) \notin Lines'
  <2>1. SUFFICES ASSUME line = Head(stdout), ReadDiscarded
                 PROVE  /\ lifecycle_seen' /\ CannotBecomeOk(r)'
                        /\ Line("phase_end", iteration'[r], {}) \notin Lines'
    BY <1>3, LinesKept
  <2>2. /\ stdout # <<>> /\ line \in LineSet
        /\ \A l \in Lines' : Placed(l) => Key(line) < Key(l)
    BY <1>3, <2>1, HeadIsFirst DEF ReadDiscarded, Placed
  <2>3. lifecycle_seen /\ lifecycle_seen' = lifecycle_seen /\ UNCHANGED <<hpc, hstatus, iteration>>
    BY <1>3, <2>1, <2>2 DEF PhasesOK, NotYetSeen, ReadDiscarded, registryVars,
                            Reading, bridgeVars
  <2>4. row'[r] \in Stale
    BY <1>3, <2>1 DEF ReadDiscarded, DiscardedStatus, Stale
  <2>5. iteration[r] = line.iteration
    BY <1>3 DEF LinesOK, LinesTrue, SaysTrue
  <2>6. Line("phase_end", iteration[r], {}) \notin Lines'
    <3>1. line.iteration \in 0..MaxPhases
      BY <2>2 DEF LineSet
    <3>2. /\ Line("phase_end", line.iteration, {}) \in LineSet
          /\ Line("phase_end", line.iteration, {}).kind = "phase_end"
          /\ Line("phase_end", line.iteration, {}).iteration = line.iteration
      BY <3>1, LineType
    <3>3. /\ Key(Line("phase_end", line.iteration, {})) = 3 * line.iteration + 1
          /\ Key(line) = 3 * line.iteration + 2 /\ line.iteration \in Nat
      BY <1>3, <2>2, <3>2, KeyType
    <3>4. ~(Key(line) < Key(Line("phase_end", line.iteration, {})))
      BY <3>3
    <3> QED
      BY <2>2, <2>5, <3>2, <3>4 DEF Placed
  <2> QED
    BY <2>3, <2>4, <2>6 DEF CannotBecomeOk
<1>4. ASSUME life[r] = "discarded", lifecycle_seen, CannotBecomeOk(r),
             Line("phase_end", iteration[r], {}) \notin Lines
      PROVE  /\ lifecycle_seen' /\ CannotBecomeOk(r)'
             /\ Line("phase_end", iteration'[r], {}) \notin Lines'
  <2>1. iteration'[r] = iteration[r] /\ iteration[r] \in 1..phase /\ Ended(iteration[r])
    BY <1>4, LeftStays DEF RequestsOK, RequestOK
  <2>2. ~Awaited(iteration[r])
    BY <1>0, <1>1, <1>4, <2>1 DEF Awaited, Ended
  <2>3. lifecycle_seen'
    BY <1>4, Zenon DEF Next, Planner, PhaseStarts, BetweenPhases, PhaseEnds,
      StopBridge, KillPlanner, ExpireDeadline, Poll, MainThread, ReadStart,
      ReadCompleted, ReadEnd, MarkStale, ReadDiscarded, CloseRegistry, ShutDown,
      CloseRecords, Done, vars, Submit, Dispatch, Fail, Receive, Handler, Accept,
      BuildPrompt, RegisterFuture, Collect, Process, FinalCheck, Record, Respond,
        ModelDone, registryVars
  <2>4. Accept(r) => active_iteration' # iteration[r]
    <3>1. active_iteration # iteration[r]
      BY <1>0, <2>1, <2>2 DEF PhasesOK, ActiveAwaited, None
    <3> QED
      BY <1>4, <3>1 DEF Accept
  <2>5. CannotBecomeOk(r)'
    BY <1>4, <2>4, NeverOkAgain
  <2>6. Line("phase_end", iteration[r], {}) \notin Lines'
    <3>1. iteration[r] \in 0..MaxPhases
      BY TypeParts DEF BridgeTypes
    <3> DEFINE end == Line("phase_end", iteration[r], {})
    <3>2. SUFFICES ASSUME NEW x, x = end PROVE x \notin Lines'
      OBVIOUS
    <3>3. x.kind = "phase_end" /\ x.iteration = iteration[r] /\ x \notin Lines
      BY <1>4, <3>1, <3>2, LineType
    <3> HIDE DEF end
    <3>4. ASSUME NEW l \in LineSet, Write(l), l # x PROVE x \notin Lines'
      BY <1>0, <3>3, <3>4, LinesAppend
    <3>5. CASE UNCHANGED <<stdout, phase>>
      BY <3>3, <3>5 DEF Lines
    <3>6. CASE PhaseStarts /\ Write(Line("phase_start", phase', {}))
      <4>1. phase' \in 0..MaxPhases
        BY DEF TypeOK, PlannerTypeOK
      <4> QED
        BY <3>3, <3>4, <3>6, <4>1, LineType
    <3>7. CASE PhaseEnds /\ Write(Line("phase_end", phase, {}))
      <4>1. ppc = "search"
        BY <3>7 DEF PhaseEnds, EndPhase
      <4>2. iteration[r] # phase
        BY <1>0, <1>1, <2>1, <4>1 DEF Ended
      <4> QED
        BY <1>0, <3>3, <3>4, <3>7, <4>2, LineType
    <3>8. CASE \E S \in SUBSET Requests : \/ Write(Line("discarded", phase, S))
                                        \/ Write(Line("completed", None, S))
      BY <1>0, <3>3, <3>4, <3>8, LineType
    <3>9. CASE ReadStart \/ ReadCompleted \/ ReadEnd \/ ReadDiscarded
      <4>1. PICK kind : NextLine(kind)
        BY <3>9 DEF ReadStart, ReadCompleted, ReadEnd, ReadDiscarded
      <4> QED
        BY <3>3, <4>1, HeadIsFirst
    <3> QED
      BY <3>5, <3>6, <3>7, <3>8, <3>9, StdoutMoves
  <2> QED
    BY <2>1, <2>3, <2>5, <2>6
<1>5. CASE life[r] = "discarded"
  <2>1. DiscardTold(r)
    BY DEF DiscardsOK
  <2> QED
    BY <1>1, <1>3, <1>4, <1>5, <2>1 DEF DiscardTold
<1> QED
  BY <1>2, <1>5

(* A wait begins while the phase is active, and ends with it.              *)
LEMMA WaitersStep ==
    ASSUME TypeOK, TypeOK', RequestsOK, LinesOK, PhasesOK, PhasesOK',
           WaitersAreReached, ~Direct, [Next]_vars
    PROVE  WaitersAreReached'
<1> SUFFICES ASSUME NEW r \in Requests, hpc'[r] = "wait", future'[r] = "running"
             PROVE  /\ r \in futures' /\ rpc' \in {"read", "mark"}
                    /\ Awaited(iteration[r])' /\ iteration'[r] = iteration[r]
  <2>1. ASSUME NEW r \in Requests, Awaited(iteration[r])', iteration'[r] = iteration[r]
        PROVE  \/ killed'
               \/ iteration'[r] = phase' /\ ppc' = "search"
               \/ Line("phase_end", iteration'[r], {}) \in
                     {stdout'[k] : k \in 1..Len(stdout')}
    BY <2>1 DEF Awaited, Lines, Line
  <2> QED
    BY <2>1 DEF WaitersAreReached, Line
<1>0. /\ hpc \in [Requests -> Handlings] /\ future \in [Requests -> Futures]
      /\ iteration \in [Requests -> 0..MaxPhases] /\ futures \subseteq Requests
      /\ stdout \in Seq(LineSet)
  BY TypeParts, Zenon DEF HandlerTypes, BridgeTypes
<1>1. iteration'[r] = iteration[r] /\ iteration[r] \in 0..MaxPhases
  <2>1. hpc'[r] # "none"
    OBVIOUS
  <2>2. iteration' = iteration \/ \E q \in Requests : Submit(q)
    BY Zenon DEF Next, Planner, PhaseStarts, BetweenPhases, PhaseEnds, StopBridge,
      KillPlanner, ExpireDeadline, Poll, MainThread, ReadStart, ReadCompleted,
      ReadEnd, MarkStale, ReadDiscarded, CloseRegistry, ShutDown, CloseRecords,
      Reading, Done, vars, bridgeVars, Dispatch, Fail, Receive, Handler, Accept,
      BuildPrompt, RegisterFuture, Collect, Process, FinalCheck, Record, Respond,
        ModelDone, Handling
  <2>3. ASSUME NEW q \in Requests, Submit(q) PROVE iteration'[r] = iteration[r]
    <3>1. hpc' = hpc /\ life[q] = "new" /\ iteration' = [iteration EXCEPT ![q] = phase]
      BY <2>3, Zenon DEF Submit, handlerVars
    <3>2. hpc[q] = "none"
      BY <3>1 DEF RequestsOK, RequestOK
    <3> QED
      BY <1>0, <3>1, <3>2
  <2> QED
    BY <1>0, <2>2, <2>3
<1>2. ASSUME NEW i, i = iteration[r], Awaited(i), ReadEnd => Head(stdout).iteration # i
      PROVE  Awaited(iteration[r])'
  <2>1. Awaited(i)'
    BY <1>1, <1>2, AwaitedStable
  <2> QED
    BY <1>1, <1>2, <2>1 DEF Awaited, Line
<1>3. CASE hpc[r] = "wait"
  <2>1. future[r] = "running"
    <3>1. future' = future \/ (\E rs : Cancel(rs))
             \/ (\E q \in Requests : BuildPrompt(q) \/ RegisterFuture(q) \/ ModelDone(q))
      BY Zenon DEF Next, Planner, PhaseStarts, BetweenPhases, PhaseEnds, StopBridge,
        KillPlanner, ExpireDeadline, Poll, MainThread, ReadStart, ReadCompleted,
        ReadEnd, EndIteration, MarkStale, ReadDiscarded, CloseRegistry, ShutDown,
        CloseRecords, Done, vars, handlerVars, Submit, Dispatch, Fail, Receive,
        Handler, Accept, Collect, Process, FinalCheck, Record, Respond
    <3>2. ASSUME NEW rs, Cancel(rs) PROVE future[r] = "running"
      BY <1>0, <3>2, CancelType
    <3>3. ASSUME NEW q \in Requests, BuildPrompt(q) \/ RegisterFuture(q) \/ ModelDone(q)
          PROVE  future[r] = "running"
      <4>1. CASE q = r
        BY <1>0, <1>3, <3>3, <4>1 DEF BuildPrompt, RegisterFuture, ModelDone
      <4>2. CASE q # r
        BY <1>0, <3>3, <4>2 DEF BuildPrompt, RegisterFuture, ModelDone
      <4> QED
        BY <4>1, <4>2
    <3> QED
      BY <3>1, <3>2, <3>3
  <2>2. r \in futures /\ rpc \in {"read", "mark"} /\ Awaited(iteration[r])
    BY <1>3, <2>1 DEF WaitersAreReached, Awaited, Lines
  <2>3. CASE ReadEnd
    <3>1. /\ Head(stdout).iteration # iteration[r]
          /\ r \in futures' /\ rpc' = "mark"
      <4> DEFINE ended == {q \in futures : iteration[q] = Head(stdout).iteration}
      <4>1. Cancel(ended) /\ futures' = futures \ ended /\ rpc' = "mark"
        BY <2>3, Zenon DEF ReadEnd, EndIteration
      <4>2. r \notin ended
        BY <1>0, <4>1, CancelType
      <4> QED
        BY <2>2, <4>1, <4>2
    <3> QED
      BY <1>1, <1>2, <2>2, <3>1
  <2>4. CASE ~ReadEnd
    <3>1. ~CloseRegistry
      <4> SUFFICES ASSUME CloseRegistry PROVE FALSE
        OBVIOUS
      <4>1. Cancel(futures)
        BY DEF CloseRegistry
      <4> QED
        BY <1>0, <2>2, <4>1, CancelType
    <3>2. rpc' \in {"read", "mark"}
      BY <2>2, <3>1 DEF Next, Planner, PhaseStarts, PhaseEnds, BetweenPhases, StopBridge,
        KillPlanner, ExpireDeadline, Poll, MainThread, ReadStart, ReadCompleted,
        ReadEnd, MarkStale, ReadDiscarded, ShutDown, CloseRecords, Done, vars,
        Submit, Dispatch, Fail, Receive, Handler, Accept, BuildPrompt,
        RegisterFuture, Collect, Process, FinalCheck, Record, Respond, ModelDone,
          Handling, readerVars
    <3>3. r \in futures'
      <4>1. ASSUME NEW q \in Requests, Collect(q) PROVE q # r
        BY <1>0, <4>1 DEF Collect, GoTo
      <4>2. futures \subseteq futures' \/ \E q \in Requests : Collect(q) /\ futures' = futures \ {q}
        BY <2>2, <2>4, <3>1
        DEF Next, Planner, PhaseStarts, PhaseEnds, BetweenPhases, StopBridge,
          KillPlanner, ExpireDeadline, Poll, MainThread, ReadStart,
          ReadCompleted, MarkStale, ReadDiscarded, ShutDown, CloseRecords, Done,
          vars, Submit, Dispatch, Fail, Receive, Handler, Accept, BuildPrompt,
          RegisterFuture, Collect, Process, FinalCheck, Record, Respond,
            ModelDone, Handling, registryVars
      <4> QED
        BY <2>2, <4>1, <4>2
    <3> QED
      BY <1>1, <1>2, <2>2, <2>4, <3>2, <3>3
  <2> QED
    BY <2>3, <2>4
<1>4. CASE hpc[r] # "wait"
  <2>1. RegisterFuture(r) /\ IsActive(r) /\ futures' = futures \cup {r}
        /\ UNCHANGED readerVars /\ UNCHANGED stdout
    <3>1. RegisterFuture(r)
      <4>1. \A q \in Requests : Receive(q) \/ Handler(q) => q = r \/ hpc'[r] = hpc[r]
        BY <1>0 DEF Receive, Handler, Accept, BuildPrompt, RegisterFuture, Collect,
           Process, FinalCheck, Record, Respond, GoTo
      <4>2. ASSUME Receive(r) \/ Accept(r) \/ BuildPrompt(r) \/ Collect(r)
                   \/ Process(r) \/ FinalCheck(r) \/ Record(r) \/ Respond(r)
            PROVE  FALSE
        BY <1>0, <4>2 DEF Receive, Accept, BuildPrompt, Collect, Process, FinalCheck,
           Record, Respond, GoTo
      <4>3. hpc' = hpc \/ \E q \in Requests : Receive(q) \/ Handler(q)
        BY Zenon DEF Next, Planner, PhaseStarts, BetweenPhases, PhaseEnds, StopBridge,
          KillPlanner, ExpireDeadline, Poll, MainThread, ReadStart,
          ReadCompleted, ReadEnd, MarkStale, ReadDiscarded, CloseRegistry,
          ShutDown, CloseRecords, Reading, Done, vars, handlerVars, Submit,
            Dispatch, Fail, ModelDone
      <4> QED
        BY <1>4, <4>1, <4>2, <4>3 DEF Handler
    <3>2. hpc' = [hpc EXCEPT ![r] = "wait"] \/ hpc' = [hpc EXCEPT ![r] = "record"]
      BY <3>1, Zenon DEF RegisterFuture, GoTo
    <3>3. IsActive(r) \/ hpc' = [hpc EXCEPT ![r] = "record"]
      BY <3>1, Zenon DEF RegisterFuture, GoTo
    <3>4. IsActive(r)
      BY <1>0, <3>3
    <3> QED
      BY <3>1, <3>4, Zenon DEF RegisterFuture, Handling
  <2>2. iteration[r] # None /\ active_iteration = iteration[r]
    <3>1. hpc[r] = "register"
      BY <2>1 DEF RegisterFuture
    <3>2. iteration[r] \in 1..phase
      BY <3>1 DEF RequestsOK, RequestOK
    <3> QED
      BY <2>1, <3>2 DEF IsActive, None
  <2>3. Awaited(iteration[r]) /\ rpc \notin {"stop", "joining", "closed"}
    BY <2>2 DEF PhasesOK, ActiveAwaited
  <2>4. rpc \in {"read", "mark"} /\ rpc' = rpc
    BY <2>1, <2>3, TypeParts DEF RecordTypes, readerVars
  <2>5. ~ReadEnd
    <3>1. ReadEnd => stdout # <<>> /\ stdout' = Tail(stdout)
      BY DEF ReadEnd, NextLine
    <3>2. ReadEnd => Len(stdout') = Len(stdout) - 1 /\ Len(stdout) \in Nat
      BY <1>0, <3>1, HeadTailProperties, LenProperties
    <3> QED
      BY <2>1, <3>2
  <2> QED
    BY <1>1, <1>2, <2>1, <2>3, <2>4, <2>5
<1> QED
  BY <1>3, <1>4

(* Only a poll takes answers.                                              *)
LEMMA TakenByPoll ==
    ASSUME TypeOK, RowsOK, [Next]_vars, NEW r \in Requests, Taken(r)'
    PROVE  Taken(r) \/ (Poll /\ life[r] = "answered" /\ answer[r] # "none")
<1>0. /\ life \in [Requests -> Lives] /\ answer \in [Requests -> Statuses]
      /\ RowOK(r)
  BY TypeParts, Zenon DEF BridgeTypes, RowsOK
<1>1. CASE UNCHANGED <<life, answer>>
  BY <1>1 DEF Taken
<1>2. CASE StopBridge \/ KillPlanner
  <2>1. life'[r] = life[r] \/ life'[r] \in {"dropped", "discarded"}
    BY <1>2 DEF StopBridge, KillPlanner, Moved
  <2>2. answer' = answer
    BY <1>2, Zenon DEF StopBridge, KillPlanner
  <2> QED
    BY <2>1, <2>2 DEF Taken
<1>3. CASE Poll
  <2>1. life'[r] = IF life[r] = "answered" THEN "delivered" ELSE life[r]
    BY <1>3 DEF Poll, Moved
  <2>2. answer' = answer
    BY <1>3, Zenon DEF Poll
  <2> QED
    BY <1>3, <2>1, <2>2 DEF Taken
<1>4. ASSUME NEW q \in Requests, Submit(q) \/ Dispatch(q) \/ Fail(q) \/ Respond(q)
      PROVE  Taken(r)
  <2>1. \/ UNCHANGED <<life, answer>>
        \/ /\ \/ life' = [life EXCEPT ![q] = "queued"]
              \/ life' = [life EXCEPT ![q] = "sent"]
              \/ life' = [life EXCEPT ![q] = "answered"]
           /\ answer' = answer \/ answer' = [answer EXCEPT ![q] = hstatus[q]]
    BY <1>4, Zenon DEF Submit, Dispatch, Fail, Respond
  <2> QED
    BY <1>0, <2>1 DEF Taken
<1> QED
  BY <1>1, <1>2, <1>3, <1>4, Zenon
  DEF Next, Planner, PhaseStarts, BetweenPhases, PhaseEnds, ExpireDeadline,
      MainThread, ReadStart, ReadCompleted, ReadEnd, MarkStale, ReadDiscarded,
      CloseRegistry, ShutDown, CloseRecords, Reading, Done, vars, bridgeVars,
      Handler, Accept, BuildPrompt, RegisterFuture, Collect, Process, FinalCheck,
      Record, ModelDone, Handling, Receive

(* A row has transport_ok only if the planner took the answer, and has it  *)
(* once the line that says so is read.                                     *)
LEMMA AnswersStep ==
    ASSUME TypeOK, TypeOK', LinesOK, RowsOK, AnswersOK, [Next]_vars
    PROVE  AnswersOK'
<1>0. /\ stdout \in Seq(LineSet) /\ phase \in 0..MaxPhases /\ phase' \in 0..MaxPhases
      /\ None \in 0..MaxPhases /\ transport_ok \subseteq Requests
  <2>1. /\ stdout \in Seq(LineSet) /\ phase \in 0..MaxPhases /\ phase' \in 0..MaxPhases
        /\ transport_ok \subseteq Requests
    BY TypeParts, Zenon DEF BridgeTypes, RecordTypes, TypeOK, PlannerTypeOK
  <2> QED
    BY <2>1, IteratedAssumption DEF None
<1>1. ReadCompleted \/ transport_ok' = transport_ok
  BY Zenon DEF Next, Planner, PhaseStarts, BetweenPhases, PhaseEnds, StopBridge,
    KillPlanner, ExpireDeadline, Poll, MainThread, ReadStart, ReadEnd, MarkStale,
    ReadDiscarded, CloseRegistry, ShutDown, CloseRecords, Done, vars, Submit,
    Dispatch, Fail, Receive, Handler, Accept, BuildPrompt, RegisterFuture,
    Collect, Process, FinalCheck, Record, Respond, ModelDone, Handling, readerVars
<1>2. ReadCompleted =>
        /\ transport_ok' = transport_ok \cup Head(stdout).requests
        /\ \A r \in Head(stdout).requests : r \in Requests /\ Taken(r)
  <2> SUFFICES ASSUME ReadCompleted
               PROVE  /\ transport_ok' = transport_ok \cup Head(stdout).requests
                      /\ \A r \in Head(stdout).requests : r \in Requests /\ Taken(r)
    OBVIOUS
  <2>1. /\ Head(stdout) \in Lines /\ Head(stdout) \in LineSet
        /\ Head(stdout).kind = "completed"
    BY HeadIsFirst DEF ReadCompleted
  <2>2. Head(stdout).requests \subseteq Requests
    BY <2>1, KeyType
  <2> QED
    BY <2>1, <2>2 DEF ReadCompleted, LinesOK, LinesTrue, SaysTrue
<1>3. ASSUME NEW r \in Requests, Taken(r) PROVE Taken(r)'
  BY <1>3, LeftStays DEF Taken
<1>4. ASSUME NEW r \in transport_ok' PROVE Taken(r)'
  BY <1>0, <1>1, <1>2, <1>3, <1>4 DEF AnswersOK
<1>5. ASSUME NEW line \in LineSet, Write(line) PROVE Lines' = Lines \cup {line}
  BY <1>0, <1>5, LinesAppend
<1>6. ASSUME NEW line \in Lines, line.kind = "completed", line \notin Lines'
      PROVE  ReadCompleted /\ line = Head(stdout)
  <2>1. ASSUME NEW kind, NextLine(kind) PROVE line = Head(stdout) /\ kind = "completed"
    BY <1>6, <2>1, HeadIsFirst
  <2>2. CASE UNCHANGED stdout
    BY <1>6, <2>2 DEF Lines
  <2>3. ASSUME NEW new \in LineSet, Write(new) PROVE FALSE
    BY <1>5, <1>6, <2>3
  <2>4. CASE ReadStart \/ ReadCompleted \/ ReadEnd \/ ReadDiscarded
    BY <2>1, <2>4 DEF ReadStart, ReadCompleted, ReadEnd, ReadDiscarded
  <2>5. \/ UNCHANGED stdout \/ ReadStart \/ ReadCompleted \/ ReadEnd \/ ReadDiscarded
        \/ \E new \in LineSet : Write(new)
    <3>1. /\ Line("phase_start", phase', {}) \in LineSet
          /\ Line("phase_end", phase, {}) \in LineSet
          /\ \A S \in SUBSET Requests : /\ Line("completed", None, S) \in LineSet
                                       /\ Line("discarded", phase, S) \in LineSet
      BY <1>0, LineType
    <3>2. CASE Direct
      <4>1. UNCHANGED stdout \/ StopBridge \/ Poll
               \/ ReadStart \/ ReadCompleted \/ ReadEnd \/ ReadDiscarded
        BY <3>2, Zenon DEF Next, Planner, PhaseStarts, BetweenPhases, PhaseEnds,
          WritePhase, KillPlanner, ExpireDeadline, MainThread, MarkStale,
          CloseRegistry, ShutDown, CloseRecords, Done, vars, Submit, Dispatch, Fail,
          Receive, Handler, Accept, BuildPrompt, RegisterFuture, Collect, Process,
          FinalCheck, Record, Respond, ModelDone, Handling
      <4> QED
        BY <3>1, <4>1 DEF StopBridge, Poll
    <3>3. CASE ~Direct
      BY <3>1, <3>3, StdoutMoves
    <3> QED
      BY <3>2, <3>3
  <2> QED
    BY <2>2, <2>3, <2>4, <2>5, <2>1 DEF ReadStart, ReadCompleted, ReadEnd,
       ReadDiscarded, NextLine
<1>7. ASSUME NEW r \in Requests PROVE CompletedTold(r)'
  <2>1. SUFFICES ASSUME Taken(r)'
                 PROVE  \/ r \in transport_ok'
                        \/ \E line \in Lines' : line.kind = "completed"
                                                /\ r \in line.requests
    BY DEF CompletedTold
  <2>2. CASE Taken(r) /\ r \in transport_ok
    BY <1>1, <1>2, <2>2
  <2>3. ASSUME NEW line \in Lines, line.kind = "completed", r \in line.requests
        PROVE  line \in Lines' \/ r \in transport_ok'
    BY <1>2, <1>6, <2>3
  <2>4. CASE Poll /\ life[r] = "answered" /\ answer[r] # "none"
    <3> DEFINE S == {q \in Requests : life[q] = "answered" /\ answer[q] # "none"}
    <3>1. Write(Line("completed", None, S)) /\ S \in SUBSET Requests /\ r \in S
      BY <2>4 DEF Poll
    <3> HIDE DEF S
    <3>2. /\ Line("completed", None, S) \in LineSet
          /\ Line("completed", None, S).kind = "completed"
          /\ Line("completed", None, S).requests = S
      BY <1>0, <3>1, LineType
    <3> QED
      BY <1>5, <3>1, <3>2
  <2> QED
    BY <2>1, <2>2, <2>3, <2>4, TakenByPoll DEF AnswersOK, CompletedTold
<1> QED
  BY <1>4, <1>7 DEF AnswersOK

----------------------------------------------------------------------------
(* The invariant, and what follows from it.                                *)

(* AInv holds initially.                                                   *)
LEMMA InitAInv == Init => AInv
<1> SUFFICES ASSUME Init PROVE AInv
  OBVIOUS
<1>1. TypeOK
  BY TypeInitially
<1>2. stdout = <<>> /\ Len(stdout) = 0 /\ Lines = {}
  BY EmptySeq DEF Init, Lines
<1>3. RequestsOK
  BY DEF Init, RequestsOK, RequestOK
<1>4. LinesOK
  BY <1>2 DEF Init, PlannerInit, LinesOK, PhaseCounts, Ordered, LinesTrue
<1>5. ReaderOK
  BY DEF Init, ReaderOK
<1>6. RowsOK
  BY DEF Init, RowsOK, RowOK, Stale
<1>7. PhasesOK
  BY <1>2 DEF Init, PlannerInit, PhasesOK, NotYetSeen, StartsAwaited, ActiveAwaited, None
<1>8. DiscardsOK /\ WaitersAreReached
  BY DEF Init, DiscardsOK, DiscardTold, WaitersAreReached
<1>9. AnswersOK
  BY DEF Init, AnswersOK, CompletedTold, Taken
<1> QED
  BY <1>1, <1>3, <1>4, <1>5, <1>6, <1>7, <1>8, <1>9 DEF AInv, LinesTell

(* Every step keeps AInv.                                                  *)
LEMMA StepAInv == AInv /\ PlannerTypeOK' /\ [Next]_vars => AInv'
<1> SUFFICES ASSUME AInv, PlannerTypeOK', [Next]_vars PROVE AInv'
  OBVIOUS
<1>0. /\ TypeOK /\ RequestsOK /\ LinesOK /\ ReaderOK /\ RowsOK /\ AnswersOK
      /\ ~Direct => LinesTell
  BY DEF AInv
<1>1. TypeOK'
  BY <1>0, TypeStep
<1>2. LinesOK'
  BY <1>0, <1>1, LinesStep
<1>3. ReaderOK'
  BY <1>0, <1>1, ReaderStep
<1>4. ASSUME Planner \/ KillPlanner \/ ExpireDeadline
      PROVE  RequestsOK' /\ RowsOK'
  BY <1>0, <1>4, PlannerRequests, PlannerRows
<1>5. ASSUME Poll \/ \E r \in Requests : Submit(r) \/ Dispatch(r) \/ Fail(r)
      PROVE  RequestsOK' /\ RowsOK'
  BY <1>0, <1>5, BridgeRequests, BridgeRows
<1>6. ASSUME MainThread
      PROVE  RequestsOK' /\ RowsOK'
  BY <1>0, <1>6, MainThreadRequests, MainThreadRows
<1>7. ASSUME \E r \in Requests : Receive(r) \/ Handler(r) \/ ModelDone(r)
      PROVE  RequestsOK' /\ RowsOK'
  BY <1>0, <1>7, HandlerRequests, HandlerRows
<1>8. ASSUME Done \/ UNCHANGED vars
      PROVE  RequestsOK' /\ RowsOK'
  BY <1>0, <1>8 DEF Done, vars, plannerVars, bridgeVars, handlerVars, RequestsOK,
     RequestOK, RowsOK, RowOK, Ended
<1>9. RequestsOK' /\ RowsOK'
  BY <1>4, <1>5, <1>6, <1>7, <1>8, Zenon DEF Next
<1>10. ASSUME ~Direct PROVE LinesTell'
  <2>0. PhasesOK /\ DiscardsOK /\ WaitersAreReached
    BY <1>0, <1>10 DEF LinesTell
  <2>1. NotYetSeen'
    BY <1>0, <1>1, <1>10, <2>0, NotYetSeenStep DEF PhasesOK
  <2>2. StartsAwaited'
    BY <1>0, <1>1, <1>2, <1>10, <2>0, StartsStep DEF PhasesOK
  <2>3. ActiveAwaited'
    BY <1>0, <1>1, <1>10, <2>0, ActiveStep
  <2>4. PhasesOK'
    BY <2>1, <2>2, <2>3 DEF PhasesOK
  <2>5. DiscardsOK'
    BY <1>0, <1>1, <1>2, <1>10, <2>0, DiscardsStep
  <2>6. WaitersAreReached'
    BY <1>0, <1>1, <1>10, <2>0, <2>4, WaitersStep
  <2> QED
    BY <2>4, <2>5, <2>6 DEF LinesTell
<1>11. AnswersOK'
  BY <1>0, <1>1, AnswersStep
<1> QED
  BY <1>1, <1>2, <1>3, <1>9, <1>10, <1>11 DEF AInv

(* The inductive invariant holds in every run.                             *)
THEOREM AnytimeInvariance == Spec => []AInv
<1>1. PlannerSpec => []PlannerTypeOK
  BY PlannerTypeCorrect
<1> QED
  BY <1>1, PhasesRunTheSearch, InitAInv, StepAInv, PTL DEF Spec

(* register_future looks at the phase again after the submission: a        *)
(* handler that waits for the model is registered, and the line or the     *)
(* close that cancels its future is still to come, however many phases the *)
(* main thread lags behind.  A direct search writes no such lines.         *)
THEOREM WaitersAreReachedAlways ==
    ASSUME ~Direct
    PROVE  Spec => []WaitersAreReached
<1>1. AInv => WaitersAreReached
  BY DEF AInv, LinesTell
<1> QED
  BY <1>1, AnytimeInvariance, PTL

(* The records agree with the planner, however the handlers, the lines and *)
(* the end of the phase raced: an answer it took and could use has a row   *)
(* that is ok; at the end of the run a row is ok with transport_ok just    *)
(* when that is so, and no request discarded with its phase is left as ok  *)
(* unless the planner was killed.                                          *)
THEOREM OkMeansUsedAlways ==
    ASSUME ~Direct
    PROVE  Spec => []OkMeansUsed
<1>1. ASSUME AInv PROVE OkMeansUsed
  <2>1. \A r \in Requests : Used(r) => row[r] = "ok"
    BY <1>1 DEF AInv, RowsOK, RowOK, Used
  <2>2. rpc = "closed" => Lines = {} /\ (ppc = "exited" \/ killed)
    <3> SUFFICES ASSUME rpc = "closed" PROVE Lines = {} /\ (ppc = "exited" \/ killed)
      OBVIOUS
    <3>1. stdout = <<>> /\ (ppc = "exited" \/ killed)
      BY <1>1 DEF AInv, ReaderOK
    <3>2. Len(stdout) = 0
      BY <3>1, EmptySeq
    <3> QED
      BY <3>1, <3>2 DEF Lines
  <2>3. ASSUME rpc = "closed", NEW r \in Requests
        PROVE  row[r] = "ok" /\ r \in transport_ok <=> Used(r)
    <3>1. r \in transport_ok <=> Taken(r)
      BY <1>1, <2>2, <2>3 DEF AInv, AnswersOK, CompletedTold
    <3>2. row[r] = "ok" /\ Taken(r) => Used(r)
      BY <1>1 DEF AInv, RowsOK, RowOK, Taken, Used
    <3>3. Used(r) => Taken(r) /\ row[r] = "ok"
      BY <2>1 DEF Used, Taken
    <3> QED
      BY <3>1, <3>2, <3>3
  <2>4. ASSUME rpc = "closed", ~killed, NEW r \in Requests, row[r] = "ok"
        PROVE  life[r] = "delivered"
    <3>1. ppc = "exited" /\ Lines = {}
      BY <2>2, <2>4
    <3>2. life[r] \notin {"new", "queued", "dropped", "sent", "answered"}
      BY <1>1, <2>4, <3>1 DEF AInv, RequestsOK, RequestOK
    <3>3. life[r] \in Lives
      BY <1>1, OneRequest DEF AInv
    <3>4. ~CannotBecomeOk(r)
      BY <1>1, <2>4 DEF AInv, RowsOK, RowOK, CannotBecomeOk, Stale
    <3>5. life[r] # "discarded"
      BY <1>1, <2>4, <3>1, <3>4 DEF AInv, LinesTell, DiscardsOK, DiscardTold
    <3> QED
      BY <3>2, <3>3, <3>5 DEF Lives
  <2> QED
    BY <2>1, <2>3, <2>4 DEF OkMeansUsed
<1>2. AInv => OkMeansUsed
  BY <1>1
<1> QED
  BY <1>2, AnytimeInvariance, PTL

(* request_finished keeps a row that the end of the phase has made stale,  *)
(* and only a new connection resets it: no late handler turns it into an   *)
(* ok one.                                                                 *)
THEOREM StaleStaysStaleAlways == Spec => StaleStaysStale
<1>1. ASSUME AInv, [Next]_vars, NEW r \in Requests, row[r] \in Stale
      PROVE  row'[r] # "ok"
  <2>0. row \in [Requests -> RowStatuses]
    BY <1>1, TypeParts DEF AInv, RecordTypes
  <2>1. CASE UNCHANGED row
    BY <1>1, <2>1 DEF Stale
  <2>2. ASSUME NEW i, row' = Marked(i) PROVE row'[r] # "ok"
    BY <1>1, <2>0, <2>2, MarkedType DEF Stale
  <2>3. CASE ReadDiscarded
    BY <1>1, <2>3 DEF ReadDiscarded, DiscardedStatus, Stale
  <2>4. ASSUME NEW q \in Requests, Receive(q) \/ Record(q) PROVE row'[r] # "ok"
    <3>1. CASE q # r
      <4>1. row'[r] = row[r]
        BY <2>0, <2>4, <3>1 DEF Receive, Record
      <4> QED
        BY <1>1, <4>1 DEF Stale
    <3>2. CASE q = r
      BY <1>1, <2>0, <2>4, <3>2 DEF Receive, Record, Finished, Stale
    <3> QED
      BY <3>1, <3>2
  <2>5. \/ UNCHANGED row \/ ReadDiscarded \/ \E i : row' = Marked(i)
        \/ \E q \in Requests : Receive(q) \/ Record(q)
    BY <1>1, Zenon DEF Next, Planner, PhaseStarts, BetweenPhases, PhaseEnds, StopBridge,
      KillPlanner, ExpireDeadline, Poll, MainThread, ReadStart, ReadCompleted,
      ReadEnd, MarkStale, CloseRegistry, ShutDown, CloseRecords, Done, vars,
      Submit, Dispatch, Fail, Handler, Accept, BuildPrompt, RegisterFuture,
      Collect, Process, FinalCheck, Respond, ModelDone
  <2> QED
    BY <2>1, <2>2, <2>3, <2>4, <2>5
<1>2. AInv /\ [Next]_vars =>
        [\A r \in Requests : row[r] \in Stale => row'[r] # "ok"]_vars
  BY <1>1
<1> QED
  BY <1>2, AnytimeInvariance, PTL DEF StaleStaysStale, Spec

(* The CSVs are written for the last time when no handler is left that     *)
(* could change a row (server_close joins them before recorder.close).     *)
THEOREM FlushedIsFinalAlways == Spec => FlushedIsFinal
<1>1. ASSUME AInv, [Next]_vars, rpc = "closed" PROVE row' = row
  <2>1. \A r \in Requests : hpc[r] \in {"none", "gone"}
    BY <1>1 DEF AInv, ReaderOK, HandlersGone
  <2>2. \A r \in Requests : ~Receive(r) /\ ~Record(r)
    BY <1>1, <2>1 DEF Receive, ServerUp, Record
  <2>3. ~ReadDiscarded /\ ~MarkStale /\ ~ShutDown /\ ~CloseRecords
    BY <1>1 DEF ReadDiscarded, NextLine, MarkStale, ShutDown, CloseRecords
  <2> QED
    BY <1>1, <2>2, <2>3, Zenon DEF Next, Planner, PhaseStarts, BetweenPhases, PhaseEnds,
      StopBridge, KillPlanner, ExpireDeadline, Poll, MainThread, ReadStart,
      ReadCompleted, ReadEnd, CloseRegistry, Done, vars, Submit, Dispatch, Fail,
      Handler, Accept, BuildPrompt, RegisterFuture, Collect, Process, FinalCheck,
      Respond, ModelDone
<1>2. AInv /\ [Next]_vars => [rpc = "closed" => row' = row]_vars
  BY <1>1
<1> QED
  BY <1>2, AnytimeInvariance, PTL DEF FlushedIsFinal, Spec
==============================================================================
