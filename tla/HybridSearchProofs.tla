------------------------- MODULE HybridSearchProofs -------------------------
(***************************************************************************)
(* Theorems about HybridSearch, for every search problem, configuration    *)
(* and limit: first the control and the injection of answers, then what    *)
(* the g values, the parent pointers and an exhausted search mean, of      *)
(* plans and traces as sequences and of the recursive functions Traced and *)
(* Cheapest, which need finitely many states.                              *)
(***************************************************************************)
EXTENDS HybridSearch, FiniteSetTheorems, WellFoundedInduction, TLAPS

(***************************************************************************)
(* What is true of the control variables at each program point.            *)
(***************************************************************************)
PointOK ==
    /\ pc \in {"chains", "inject"} => source \in States
    /\ pc \in {"inject", "trigger", "expand"} => cur \in States
    /\ pc = "expand" => todo \subseteq Applicable(cur)
    /\ was_suspended => pc \in {"chains", "inject"} /\ mode.skip
    /\ suspended_states # {} => mode.skip
    /\ batch # {} => pc \in {"responses", "chains", "inject"}

----------------------------------------------------------------------------
(* Stored cuts a fraction off, and stays an integer.                       *)
LEMMA StoredInt == \A x \in Int : Stored(x) \in Int
  BY SearchAssumption DEF Stored

(* Reach keeps the types of the five fields it writes.                     *)
LEMMA ReachType ==
  ASSUME NodeTypeOK, NEW p \in States, NEW o \in Ops, NEW t \in States,
         NEW st \in NodeStatus, Reach(t, p, o, st)
  PROVE  /\ status' \in [States -> NodeStatus]
         /\ g' \in [States -> Int] /\ real_g' \in [States -> Int]
         /\ parent' \in [States -> States \cup {NoState}]
         /\ via' \in [States -> Ops \cup {NoOp}]
<1>1. g[p] + AdjCost[o] \in Int /\ real_g[p] + Cost[o] \in Int
  BY SearchAssumption DEF NodeTypeOK
<1>2. Stored(g[p] + AdjCost[o]) \in Int /\ Stored(real_g[p] + Cost[o]) \in Int
  BY <1>1, StoredInt
<1> QED  BY <1>2 DEF Reach, NodeTypeOK

(* Relax is one of four changes of the search space.                       *)
LEMMA RelaxCases ==
  ASSUME NodeTypeOK, NEW p \in States, NEW o \in Ops, NEW t \in States,
         Relax(p, o, t)
  PROVE  \/ t \in DeadEnds /\ status[t] = "new" /\ MarkDead(t)
         \/ Reach(t, p, o, "open") /\ Insert(t)
         \/ /\ status[t] \in {"open", "closed"}
            /\ Reach(t, p, o, status[t]) /\ UNCHANGED open_list
         \/ UNCHANGED nodeVars
  BY DEF Relax

LEMMA RelaxType ==
  ASSUME NodeTypeOK, NEW p \in States, NEW o \in Ops, NEW t \in States,
         Relax(p, o, t)
  PROVE  NodeTypeOK'
<1>1. CASE MarkDead(t)
  BY <1>1 DEF MarkDead, NodeTypeOK, NodeStatus
<1>2. CASE Reach(t, p, o, "open") /\ Insert(t)
  <2>1. "open" \in NodeStatus
    BY DEF NodeStatus
  <2>2. open_list' \in [States -> Nat]
    BY <1>2 DEF Insert, NodeTypeOK
  <2> QED  BY <1>2, <2>1, <2>2, ReachType DEF NodeTypeOK
<1>3. CASE Reach(t, p, o, status[t]) /\ UNCHANGED open_list
  <2>1. status[t] \in NodeStatus
    BY DEF NodeTypeOK
  <2> QED  BY <1>3, <2>1, ReachType DEF NodeTypeOK
<1>4. CASE UNCHANGED nodeVars
  BY <1>4 DEF nodeVars, NodeTypeOK
<1> QED  BY <1>1, <1>2, <1>3, <1>4, RelaxCases

(* An operator that applies leads to a state.                              *)
LEMMA SuccType ==
  ASSUME NEW s \in States, NEW o \in Applicable(s)
  PROVE  o \in Ops /\ Succ[<<s, o>>] \in States
  BY SearchAssumption DEF Applicable

----------------------------------------------------------------------------
(* Type correctness, part by part.                                         *)

LEMMA TypeInit == Init => TypeOK /\ PointOK
<1> SUFFICES ASSUME Init PROVE TypeOK /\ PointOK
  OBVIOUS
<1>1. NodeTypeOK
  <2>1. 0 - Unit \in Int
    BY SearchAssumption
  <2> QED  BY <2>1 DEF Init, NodeTypeOK, NodeStatus
<1>2. MonitorTypeOK
  BY DEF Init, MonitorTypeOK
<1>3. ControlTypeOK
  BY DEF Init, ControlTypeOK, Points
<1>4. PointOK
  BY DEF Init, PointOK
<1> QED  BY <1>1, <1>2, <1>3, <1>4 DEF TypeOK

(* The search space changes only in the steps listed here.                 *)
LEMMA NodeTypeStep ==
  ASSUME NodeTypeOK, PointOK, Next
  PROVE  NodeTypeOK'
<1> USE DEF NodeTypeOK, NodeStatus
<1>1. CASE UNCHANGED nodeVars
  BY <1>1 DEF nodeVars
<1>2. CASE Initialize
  BY <1>2, SearchAssumption DEF Initialize, Insert, nodeVars
<1>3. ASSUME NEW o \in Ops, InjectAction(o)
      PROVE  NodeTypeOK'
  <2>1. cur \in States /\ o \in Applicable(cur)
    BY <1>3 DEF InjectAction, PointOK
  <2>2. Relax(cur, o, Succ[<<cur, o>>])
    BY <1>3 DEF InjectAction
  <2> QED  BY <2>1, <2>2, SuccType, RelaxType
<1>4. CASE FinishResponse
  <2>1. source \in States
    BY <1>4 DEF FinishResponse, PointOK
  <2> QED  BY <1>4, <2>1 DEF FinishResponse, MarkDead, Insert, nodeVars
<1>5. ASSUME NEW s \in States,
             PopDiscarded(s) \/ PopSuspended(s) \/ PopExpanded(s)
      PROVE  NodeTypeOK'
  <2>1. open_list' \in [States -> Nat]
    BY <1>5 DEF PopDiscarded, PopSuspended, PopExpanded, RemoveMin
  <2> QED  BY <1>5, <2>1 DEF PopDiscarded, PopSuspended, PopExpanded
<1>6. ASSUME NEW o \in Ops, GenerateSuccessor(o)
      PROVE  NodeTypeOK'
  <2>1. CASE WithinBound(cur, o)
    <3>1. cur \in States /\ o \in Applicable(cur)
      BY <1>6 DEF GenerateSuccessor, PointOK
    <3>2. Relax(cur, o, Succ[<<cur, o>>])
      BY <1>6, <2>1 DEF GenerateSuccessor
    <3> QED  BY <3>1, <3>2, SuccType, RelaxType
  <2>2. CASE ~WithinBound(cur, o)
    BY <1>6, <2>2, <1>1 DEF GenerateSuccessor
  <2> QED  BY <2>1, <2>2
<1> QED
  BY <1>1, <1>2, <1>3, <1>4, <1>5, <1>6
  DEF Next, SearchThread, PollSteps, FetchSteps, StepSteps, Ended, vars,
      CheckDeadline, PollBridge, ResponsesDone, StartChain, EndChain,
      TakeResponse, WaitForPending, Exhausted, Trigger, GoalReached,
      StartExpansion, EndExpansion, Complete

(* The monitor and the bridge.                                             *)
LEMMA RequestType ==
  ASSUME MonitorTypeOK, NEW s \in States, RequestState(s)
  PROVE  /\ requests_submitted' \in Nat /\ requested_states' \subseteq States
         /\ pending_states' \subseteq States /\ in_flight' \subseteq States
         /\ answered' \subseteq Reply
  BY DEF RequestState, MonitorTypeOK

LEMMA MonitorTypeStep ==
  ASSUME MonitorTypeOK, Next
  PROVE  MonitorTypeOK'
<1> USE DEF MonitorTypeOK
<1>1. CASE UNCHANGED <<monitorVars, bridgeVars>>
  BY <1>1 DEF monitorVars, bridgeVars
<1>2. CASE Initialize
  <2>1. CASE RequestState(InitState)
    BY <1>2, <2>1, RequestType, SearchAssumption
    DEF Initialize, monitorVars, bridgeVars
  <2>2. CASE ~RequestState(InitState)
    BY <1>2, <2>2, <1>1 DEF Initialize, monitorVars, bridgeVars
  <2> QED  BY <2>1, <2>2
<1>3. CASE PollBridge
  BY <1>3 DEF PollBridge, StillPending
<1>4. ASSUME NEW x \in batch, TakeResponse(x)
      PROVE  MonitorTypeOK'
  BY <1>4 DEF TakeResponse, bridgeVars
<1>5. ASSUME NEW s \in States,
             PopDiscarded(s) \/ PopSuspended(s) \/ PopExpanded(s)
      PROVE  MonitorTypeOK'
  BY <1>5 DEF PopDiscarded, PopSuspended, PopExpanded, monitorVars, bridgeVars
<1>6. ASSUME NEW s \in States, Trigger(s)
      PROVE  MonitorTypeOK'
  BY <1>6, RequestType DEF Trigger
<1>7. CASE GoalReached
  BY <1>7 DEF GoalReached, StillPending
<1>8. ASSUME NEW s \in States, Complete(s)
      PROVE  MonitorTypeOK'
  BY <1>8 DEF Complete, monitorVars, Reply
<1> QED
  BY <1>1, <1>2, <1>3, <1>4, <1>5, <1>6, <1>7, <1>8
  DEF Next, SearchThread, PollSteps, FetchSteps, StepSteps, Ended, vars,
      CheckDeadline, ResponsesDone, StartChain, InjectAction, EndChain,
      FinishResponse, WaitForPending, Exhausted, StartExpansion,
      GenerateSuccessor, EndExpansion

(* The program counter, the cursors and the engine.                        *)
LEMMA ControlTypeStep ==
  ASSUME TypeOK, PointOK, Next
  PROVE  ControlTypeOK' /\ PointOK'
<1> USE DEF ControlTypeOK, PointOK, Points, pollVars, cursorVars, engineVars,
            monitorVars, bridgeVars
<1> ControlTypeOK /\ MonitorTypeOK
  BY DEF TypeOK
<1>1. CASE Initialize
  BY <1>1 DEF Initialize
<1>2. CASE CheckDeadline
  BY <1>2 DEF CheckDeadline
<1>3. CASE PollBridge
  BY <1>3 DEF PollBridge, MonitorTypeOK
<1>4. ASSUME NEW x \in batch, TakeResponse(x)
      PROVE  ControlTypeOK' /\ PointOK'
  <2>1. x.state \in States /\ batch' \subseteq Reply
    BY <1>4 DEF TakeResponse, Reply
  <2>2. samples' \in Nat
    BY <1>4, SearchAssumption DEF TakeResponse
  <2>3. was_suspended' \in BOOLEAN /\ (was_suspended' => mode'.skip)
    BY <1>4 DEF TakeResponse
  <2>4. suspended_states' # {} => mode'.skip
    BY <1>4 DEF TakeResponse
  <2> QED  BY <1>4, <2>1, <2>2, <2>3, <2>4 DEF TakeResponse
<1>5. CASE ResponsesDone
  BY <1>5 DEF ResponsesDone
<1>6. CASE StartChain
  BY <1>6, SearchAssumption DEF StartChain
<1>7. ASSUME NEW o \in Ops, InjectAction(o)
      PROVE  ControlTypeOK' /\ PointOK'
  <2>1. Succ[<<cur, o>>] \in States
    BY <1>7, SuccType DEF InjectAction
  <2>2. /\ pc' \in {"chains", "inject"} /\ cur' \in States \cup {NoState}
        /\ pc' = "inject" => cur' \in States
        /\ steps' \in Nat
    BY <1>7, <2>1 DEF InjectAction
  <2> QED  BY <1>7, <2>2 DEF InjectAction
<1>8. CASE EndChain
  BY <1>8 DEF EndChain
<1>9. CASE FinishResponse
  BY <1>9 DEF FinishResponse
<1>10. CASE WaitForPending
  BY <1>10 DEF WaitForPending
<1>11. CASE Exhausted
  BY <1>11 DEF Exhausted
<1>12. ASSUME NEW s \in States, PopDiscarded(s)
      PROVE  ControlTypeOK' /\ PointOK'
  BY <1>12 DEF PopDiscarded, RemoveMin
<1>13. ASSUME NEW s \in States, PopSuspended(s)
      PROVE  ControlTypeOK' /\ PointOK'
  BY <1>13 DEF PopSuspended, RemoveMin, Suspends
<1>14. ASSUME NEW s \in States, PopExpanded(s)
      PROVE  ControlTypeOK' /\ PointOK'
  BY <1>14 DEF PopExpanded, RemoveMin
<1>15. ASSUME NEW s \in States, Trigger(s)
      PROVE  ControlTypeOK' /\ PointOK'
  BY <1>15 DEF Trigger
<1>16. CASE GoalReached
  BY <1>16 DEF GoalReached
<1>17. CASE StartExpansion
  BY <1>17 DEF StartExpansion, Applicable
<1>18. ASSUME NEW o \in Ops, GenerateSuccessor(o)
      PROVE  ControlTypeOK' /\ PointOK'
  BY <1>18 DEF GenerateSuccessor
<1>19. CASE EndExpansion
  BY <1>19 DEF EndExpansion
<1>20. ASSUME NEW s \in States, Complete(s)
      PROVE  ControlTypeOK' /\ PointOK'
  BY <1>20 DEF Complete
<1> QED
  BY <1>1, <1>2, <1>3, <1>4, <1>5, <1>6, <1>7, <1>8, <1>9, <1>10, <1>11, <1>12, <1>13, <1>14, <1>15, <1>16, <1>17, <1>18, <1>19, <1>20
  DEF Next, SearchThread, PollSteps, FetchSteps, StepSteps, Ended, vars

LEMMA TypeStep == TypeOK /\ PointOK /\ [Next]_vars => TypeOK' /\ PointOK'
<1> SUFFICES ASSUME TypeOK, PointOK, [Next]_vars
             PROVE  TypeOK' /\ PointOK'
  OBVIOUS
<1>1. CASE Next
  BY <1>1, NodeTypeStep, MonitorTypeStep, ControlTypeStep DEF TypeOK
<1>2. CASE UNCHANGED vars
  BY <1>2 DEF vars, nodeVars, monitorVars, bridgeVars, pollVars, cursorVars,
              engineVars, TypeOK, NodeTypeOK, MonitorTypeOK, ControlTypeOK,
              PointOK
<1> QED  BY <1>1, <1>2

(* In every reachable state the variables have their types, and the        *)
(* response being applied, the node being expanded and the suspension flag *)
(* are what the program point says.                                        *)
THEOREM TypeCorrect == Spec => [](TypeOK /\ PointOK)
<1> QED  BY TypeInit, TypeStep, PTL DEF Spec

----------------------------------------------------------------------------
(* No open node is lost.                                                   *)

(* After Relax an open node was open before, with as many entries, or it   *)
(* has an entry now.                                                       *)
LEMMA RelaxKeepsOpen ==
  ASSUME NodeTypeOK, NEW p \in States, NEW o \in Ops, NEW t \in States,
         Relax(p, o, t)
  PROVE  \A s \in States : status'[s] = "open" =>
             \/ status[s] = "open" /\ open_list'[s] = open_list[s]
             \/ open_list'[s] > 0
<1>1. CASE MarkDead(t)
  BY <1>1 DEF MarkDead, NodeTypeOK
<1>2. CASE Reach(t, p, o, "open") /\ Insert(t)
  BY <1>2 DEF Reach, Insert, NodeTypeOK
<1>3. CASE Reach(t, p, o, status[t]) /\ UNCHANGED open_list
  BY <1>3 DEF Reach, NodeTypeOK
<1>4. CASE UNCHANGED nodeVars
  BY <1>4 DEF nodeVars
<1> QED  BY <1>1, <1>2, <1>3, <1>4, RelaxCases

LEMMA OpenNodeInit == Init => NoOpenNodeLost
  BY DEF Init, NoOpenNodeLost

LEMMA OpenNodeStep ==
  ASSUME TypeOK, PointOK, NoOpenNodeLost, Next
  PROVE  NoOpenNodeLost'
<1> NodeTypeOK
  BY DEF TypeOK
<1>1. SUFFICES ASSUME NEW s \in States, status'[s] = "open"
               PROVE  Reachable(s)'
  BY DEF NoOpenNodeLost
<1>2. status[s] = "open" => Reachable(s)
  BY DEF NoOpenNodeLost
<1>3. CASE UNCHANGED <<nodeVars, suspended_states, was_suspended, source>>
  BY <1>1, <1>2, <1>3 DEF nodeVars, Reachable
<1>4. CASE Initialize
  BY <1>1, <1>2, <1>4
  DEF Initialize, Insert, Reachable, nodeVars, pollVars, monitorVars, NodeTypeOK
<1>5. ASSUME NEW x \in batch, TakeResponse(x)
      PROVE  Reachable(s)'
  <2>1. UNCHANGED nodeVars /\ ~was_suspended
    BY <1>5 DEF TakeResponse, PointOK
  <2>2. CASE s = x.state /\ s \in suspended_states
    BY <1>5, <2>2 DEF TakeResponse, Reachable
  <2>3. CASE s # x.state
    BY <1>1, <1>2, <1>5, <2>1, <2>3 DEF TakeResponse, Reachable, nodeVars
  <2>4. CASE s \notin suspended_states
    BY <1>1, <1>2, <1>5, <2>1, <2>4 DEF TakeResponse, Reachable, nodeVars
  <2> QED  BY <2>2, <2>3, <2>4
<1>6. ASSUME NEW p \in States, NEW o \in Applicable(p),
             Relax(p, o, Succ[<<p, o>>]),
             UNCHANGED <<suspended_states, was_suspended, source>>
      PROVE  Reachable(s)'
  <2>1. \/ status[s] = "open" /\ open_list'[s] = open_list[s]
        \/ open_list'[s] > 0
    BY <1>1, <1>6, SuccType, RelaxKeepsOpen
  <2> QED  BY <1>2, <1>6, <2>1 DEF Reachable
<1>7. ASSUME NEW o \in Ops, InjectAction(o)
      PROVE  Reachable(s)'
  BY <1>6, <1>7 DEF InjectAction, PointOK, monitorVars, pollVars
<1>8. CASE FinishResponse
  <2>1. UNCHANGED suspended_states /\ (was_suspended => mode.skip)
    BY <1>8 DEF FinishResponse, PointOK, monitorVars
  <2>2. status[s] = "open" /\ (open_list[s] > 0 => open_list'[s] > 0)
    BY <1>1, <1>8 DEF FinishResponse, MarkDead, Insert, nodeVars, NodeTypeOK
  <2>3. CASE was_suspended /\ source = s
    <3>1. mode.skip /\ status[source] = "open"
      BY <2>1, <2>2, <2>3
    <3>2. ~MarkDead(source)
      BY <1>1, <2>3 DEF MarkDead, NodeTypeOK
    <3>3. Insert(s)
      BY <1>8, <2>3, <3>1, <3>2 DEF FinishResponse
    <3> QED  BY <3>3 DEF Insert, NodeTypeOK, Reachable
  <2>4. CASE ~(was_suspended /\ source = s)
    BY <1>2, <1>8, <2>1, <2>2, <2>4 DEF Reachable, NodeTypeOK
  <2> QED  BY <2>3, <2>4
<1>9. ASSUME NEW u \in States, PopDiscarded(u)
      PROVE  Reachable(s)'
  BY <1>1, <1>2, <1>9
  DEF PopDiscarded, RemoveMin, Discards, Reachable, monitorVars, pollVars,
      NodeTypeOK
<1>10. ASSUME NEW u \in States, PopSuspended(u)
       PROVE  Reachable(s)'
  BY <1>1, <1>2, <1>10
  DEF PopSuspended, RemoveMin, Reachable, monitorVars, pollVars, NodeTypeOK
<1>11. ASSUME NEW u \in States, PopExpanded(u)
       PROVE  Reachable(s)'
  BY <1>1, <1>2, <1>11
  DEF PopExpanded, RemoveMin, Reachable, monitorVars, pollVars, NodeTypeOK
<1>12. ASSUME NEW o \in Ops, GenerateSuccessor(o)
       PROVE  Reachable(s)'
  BY <1>3, <1>6, <1>12 DEF GenerateSuccessor, PointOK, monitorVars, pollVars
<1> QED
  BY <1>3, <1>4, <1>5, <1>7, <1>8, <1>9, <1>10, <1>11, <1>12
  DEF Next, SearchThread, PollSteps, FetchSteps, StepSteps, Ended, vars,
      monitorVars, pollVars,
      CheckDeadline, PollBridge, ResponsesDone, StartChain, EndChain,
      WaitForPending, Exhausted, Trigger, GoalReached, StartExpansion,
      EndExpansion, Complete

(* Whatever the order of answers, suspensions and reopenings, a node that  *)
(* is still open can still be reached by the search (fetch_next_node,      *)
(* suspend_if_pending, requeue_llm_source).                                *)
THEOREM OpenNodesReachable == Spec => []NoOpenNodeLost
<1>1. TypeOK /\ PointOK /\ NoOpenNodeLost /\ [Next]_vars => NoOpenNodeLost'
  <2> SUFFICES ASSUME TypeOK, PointOK, NoOpenNodeLost, UNCHANGED vars
               PROVE  NoOpenNodeLost'
    BY OpenNodeStep
  <2> QED  BY DEF vars, nodeVars, monitorVars, pollVars, NoOpenNodeLost,
                  Reachable
<1> QED  BY <1>1, OpenNodeInit, TypeCorrect, PTL DEF Spec

----------------------------------------------------------------------------
(* Requests, answers and suspended states.                                 *)

RequestedOK ==
    /\ IsFiniteSet(requested_states)
    /\ pending_states \subseteq requested_states

(* The part of RequestBudget and AnswersAwaited that only requests,        *)
(* completions and polls can disturb.                                      *)
RequestsOK ==
    /\ RequestedOK
    /\ RequestBudget
    /\ pending_states = in_flight \cup Sources(answered)

requestVars == <<requested_states, requests_submitted, pending_states,
                 in_flight, answered>>

LEMMA RequestsInit == Init => RequestsOK
<1> SUFFICES ASSUME Init PROVE RequestsOK
  OBVIOUS
<1>1. IsFiniteSet({}) /\ Cardinality({}) = 0
  BY FS_EmptySet
<1>2. Sources({}) = {}
  BY DEF Sources
<1> QED
  BY <1>1, <1>2, SearchAssumption
  DEF Init, RequestsOK, RequestedOK, RequestBudget

(* The monitor never asks twice about a state, so a new request adds       *)
(* exactly one state to each set.                                          *)
LEMMA RequestKeepsRequests ==
  ASSUME MonitorTypeOK, RequestsOK, NEW s \in States, RequestState(s)
  PROVE  RequestsOK'
<1> USE DEF RequestsOK, RequestedOK, RequestBudget
<1>1. s \notin requested_states /\ s \notin pending_states
  BY DEF RequestState, CanRequest
<1>2. /\ IsFiniteSet(requested_states')
      /\ Cardinality(requested_states') = Cardinality(requested_states) + 1
  BY <1>1, FS_AddElement DEF RequestState
<1>3. requests_submitted' = Cardinality(requested_states')
      /\ (MaxRequests > 0 => requests_submitted' <= MaxRequests)
  BY <1>2, SearchAssumption DEF RequestState, CanRequest, MonitorTypeOK
<1>4. CASE mode.llm = "http"
  <2>1. /\ pending_states' = pending_states \cup {s}
        /\ in_flight' = in_flight \cup {s} /\ answered' = answered
    BY <1>4 DEF RequestState
  <2>2. IsFiniteSet(pending_states)
    BY FS_Subset
  <2>3. Cardinality(pending_states') = Cardinality(pending_states) + 1
        /\ Cardinality(pending_states) \in Nat
    BY <1>1, <2>1, <2>2, FS_AddElement, FS_CardinalityType
  <2>4. MaxPending > 0 => Cardinality(pending_states') <= MaxPending
    BY <2>3, SearchAssumption DEF RequestState, CanRequest
  <2>5. in_flight' \cap Sources(answered') = {}
        /\ pending_states' = in_flight' \cup Sources(answered')
    BY <1>1, <2>1
  <2>6. pending_states' \subseteq requested_states'
    BY <2>1 DEF RequestState
  <2> QED  BY <1>2, <1>3, <2>4, <2>5, <2>6
<1>5. CASE mode.llm # "http"
  <2>1. /\ pending_states' = pending_states /\ in_flight' = in_flight
        /\ answered' = answered /\ requested_states \subseteq requested_states'
    BY <1>5 DEF RequestState
  <2> QED  BY <1>2, <1>3, <2>1
<1> QED  BY <1>4, <1>5

(* poll_bridge takes the answered requests out of pending_states.          *)
LEMMA PollKeepsRequests ==
  ASSUME RequestsOK, answered' = {},
         pending_states' = pending_states \ Sources(answered),
         UNCHANGED <<requested_states, requests_submitted, in_flight>>
  PROVE  RequestsOK'
<1> USE DEF RequestsOK, RequestedOK, RequestBudget
<1>1. IsFiniteSet(pending_states)
  BY FS_Subset
<1>2. IsFiniteSet(pending_states') /\ pending_states' \subseteq pending_states
  BY <1>1, FS_Subset
<1>3. Cardinality(pending_states') <= Cardinality(pending_states)
      /\ Cardinality(pending_states') \in Nat
      /\ Cardinality(pending_states) \in Nat
  BY <1>1, <1>2, FS_Subset, FS_CardinalityType
<1>4. MaxPending > 0 => Cardinality(pending_states') <= MaxPending
  BY <1>3, SearchAssumption
<1>5. Sources(answered') = {}
  BY DEF Sources
<1>6. in_flight' \cap Sources(answered') = {}
      /\ pending_states' = in_flight' \cup Sources(answered')
  BY <1>5
<1> QED  BY <1>2, <1>4, <1>6

(* A completion moves one request from in_flight to answered.              *)
LEMMA CompleteKeepsRequests ==
  ASSUME RequestsOK, NEW s \in States, Complete(s)
  PROVE  RequestsOK'
<1> USE DEF RequestsOK, RequestedOK, RequestBudget
<1>1. PICK u \in BOOLEAN :
         answered' = answered \cup {[state |-> s, usable |-> u]}
  BY DEF Complete
<1>2. Sources(answered') = Sources(answered) \cup {s}
  <2> DEFINE x == [state |-> s, usable |-> u]
  <2>1. x.state = s
    OBVIOUS
  <2> HIDE DEF x
  <2>2. Sources(answered \cup {x}) = Sources(answered) \cup {x.state}
    BY DEF Sources
  <2>3. answered' = answered \cup {x}
    BY <1>1 DEF x
  <2> QED  BY <2>1, <2>2, <2>3 DEF Sources
<1>3. s \in in_flight /\ in_flight' = in_flight \ {s}
      /\ UNCHANGED <<requested_states, requests_submitted, pending_states>>
  BY DEF Complete, monitorVars
<1>4. in_flight' \cap Sources(answered') = {}
      /\ pending_states' = in_flight' \cup Sources(answered')
  BY <1>2, <1>3
<1> QED  BY <1>3, <1>4

LEMMA RequestsStep ==
  ASSUME TypeOK, RequestsOK, [Next]_vars
  PROVE  RequestsOK'
<1> MonitorTypeOK
  BY DEF TypeOK
<1>1. CASE UNCHANGED requestVars
  BY <1>1
  DEF requestVars, RequestsOK, RequestedOK, RequestBudget, Sources
<1>2. ASSUME NEW s \in States, RequestState(s)
      PROVE  RequestsOK'
  BY <1>2, RequestKeepsRequests
<1>3. CASE PollBridge \/ GoalReached
  BY <1>3, PollKeepsRequests DEF PollBridge, GoalReached, StillPending
<1>4. ASSUME NEW s \in States, Complete(s)
      PROVE  RequestsOK'
  BY <1>4, CompleteKeepsRequests
<1>5. CASE Initialize
  BY <1>1, <1>2, <1>5, SearchAssumption
  DEF Initialize, requestVars, monitorVars, bridgeVars
<1>6. ASSUME NEW s \in States, Trigger(s)
      PROVE  RequestsOK'
  BY <1>2, <1>6 DEF Trigger
<1> QED
  BY <1>1, <1>3, <1>4, <1>5, <1>6
  DEF Next, SearchThread, PollSteps, FetchSteps, StepSteps, Ended, vars,
      monitorVars, bridgeVars, requestVars,
      CheckDeadline, TakeResponse, ResponsesDone, StartChain, InjectAction,
      EndChain, FinishResponse, WaitForPending, Exhausted, PopDiscarded,
      PopSuspended, PopExpanded, StartExpansion, GenerateSuccessor,
      EndExpansion

LEMMA RequestsInvariant == Spec => []RequestsOK
<1> QED  BY RequestsInit, RequestsStep, TypeCorrect, PTL DEF Spec

(* One request per state and the two limits, whatever the triggers,        *)
(* reopenings and answers do (LLMTriggerMonitor::request_state).           *)
THEOREM RequestsWithinBudget == Spec => []RequestBudget
<1>1. RequestsOK => RequestBudget
  BY DEF RequestsOK
<1> QED  BY <1>1, RequestsInvariant, PTL

(* What a suspended state waits for.                                       *)
Awaited == suspended_states \subseteq pending_states \cup Sources(batch)

LEMMA AwaitedStep ==
  ASSUME TypeOK, PointOK, RequestsOK, AnswersAwaited, Next,
         pc' # "done", engine' = "in_progress"
  PROVE  Awaited'
<1>0. CASE pc = "done" \/ engine # "in_progress"
  BY <1>0
  DEF Next, SearchThread, PollSteps, FetchSteps, StepSteps, Ended, vars,
      engineVars, Initialize, CheckDeadline, PollBridge, TakeResponse,
      ResponsesDone, StartChain, InjectAction, EndChain, FinishResponse,
      WaitForPending, Exhausted, PopDiscarded, PopSuspended, PopExpanded,
      RemoveMin, Trigger, GoalReached, StartExpansion, GenerateSuccessor,
      EndExpansion, Complete
<1>1. CASE Awaited /\ pending_states \subseteq pending_states'
           /\ UNCHANGED <<suspended_states, batch>>
  BY <1>1 DEF Awaited, Sources
<1>2. CASE pc # "done" /\ engine = "in_progress"
  <2> Awaited
    BY <1>2 DEF AnswersAwaited, Awaited
  <2>1. ASSUME NEW s \in States, RequestState(s)
        PROVE  pending_states \subseteq pending_states'
    BY <2>1 DEF RequestState
  <2>2. CASE Initialize
    BY <1>1, <2>1, <2>2, SearchAssumption
    DEF Initialize, monitorVars, pollVars
  <2>3. CASE PollBridge
    BY <2>3 DEF PollBridge, StillPending, Awaited, PointOK, Sources
  <2>4. ASSUME NEW x \in batch, TakeResponse(x)
        PROVE  Awaited'
    BY <2>4 DEF TakeResponse, Awaited, Sources
  <2>5. ASSUME NEW s \in States, PopSuspended(s)
        PROVE  Awaited'
    BY <2>5 DEF PopSuspended, Suspends, Awaited, Sources, pollVars
  <2>6. ASSUME NEW s \in States, Trigger(s)
        PROVE  Awaited'
    BY <1>1, <2>1, <2>6 DEF Trigger, pollVars
  <2>7. ~GoalReached
    BY DEF GoalReached
  <2> QED
    BY <1>1, <2>2, <2>3, <2>4, <2>5, <2>6, <2>7
    DEF Next, SearchThread, PollSteps, FetchSteps, StepSteps, Ended, vars,
        monitorVars, pollVars,
        CheckDeadline, ResponsesDone, StartChain, InjectAction, EndChain,
        FinishResponse, WaitForPending, Exhausted, PopDiscarded, PopExpanded,
        StartExpansion, GenerateSuccessor, EndExpansion, Complete
<1> QED  BY <1>0, <1>2

(* A suspended state always has an answer on its way, so neither is it     *)
(* lost nor does fetch_next_node wait for an answer that cannot come.      *)
THEOREM SuspendedAreAwaited == Spec => []AnswersAwaited
<1>1. Init => AnswersAwaited
  BY RequestsInit DEF Init, RequestsOK, AnswersAwaited
<1>2. TypeOK /\ PointOK /\ RequestsOK /\ AnswersAwaited /\ [Next]_vars
          => AnswersAwaited'
  <2> SUFFICES ASSUME TypeOK, PointOK, RequestsOK, AnswersAwaited, [Next]_vars
               PROVE  AnswersAwaited'
    OBVIOUS
  <2>1. RequestsOK'
    BY RequestsStep
  <2>2. CASE Next
    BY <2>1, <2>2, AwaitedStep DEF AnswersAwaited, Awaited, RequestsOK
  <2>3. CASE UNCHANGED vars
    BY <2>3 DEF vars, monitorVars, bridgeVars, pollVars, engineVars,
                AnswersAwaited, Sources
  <2> QED  BY <2>2, <2>3
<1> QED  BY <1>1, <1>2, RequestsInvariant, TypeCorrect, PTL DEF Spec

----------------------------------------------------------------------------
(* What a search has found.                                               *)

(* Where the states the thread works on come from: each was reached.       *)
ReachedOK ==
    /\ \A s \in States : Reached(s) => s \notin DeadEnds
    /\ \A s \in States : status[s] = "dead" => s \in DeadEnds
    /\ \A s \in States : Reached(s) => Reached(InitState)
    /\ \A s \in States : open_list[s] > 0 => Reached(s)
    /\ \A s \in expanded \cup requested_states \cup Sources(batch) : Reached(s)
    /\ pc \in {"chains", "inject"} => Reached(source)
    /\ pc \in {"inject", "trigger", "expand"} => Reached(cur)
    /\ pc \in {"trigger", "expand"} => status[cur] = "closed"
    /\ IF pc = "initialize" THEN \A s \in States : status[s] = "new"
                            ELSE InitState \in DeadEnds \/ Reached(InitState)

----------------------------------------------------------------------------
LEMMA ReachedInit == Init => ReachedOK
  BY DEF Init, ReachedOK, Reached, Sources

(* What Relax does to the statuses.                                        *)
LEMMA RelaxStatus ==
  ASSUME NodeTypeOK, NEW p \in States, NEW o \in Ops, NEW t \in States,
         Relax(p, o, t)
  PROVE  /\ \A s \in States \ {t} : status'[s] = status[s]
         /\ status[t] = "new" /\ t \in DeadEnds => status'[t] = "dead"
         /\ status[t] = "new" /\ t \notin DeadEnds => status'[t] = "open"
         /\ status[t] # "new" => status'[t] \in {status[t], "open"}
         /\ status'[t] = "open" => status[t] # "dead"
         /\ p = t => status'[t] = status[t] \/ status[t] = "new"
  BY SearchAssumption
  DEF Relax, MarkDead, Reach, NodeTypeOK, nodeVars

(* A step that may relax one operator and touches nothing else that        *)
(* ReachedOK speaks of.                                                    *)
LEMMA RelaxReached ==
  ASSUME NodeTypeOK, ReachedOK, NEW p \in States, Reached(p),
         NEW o \in Applicable(p), Relax(p, o, Succ[<<p, o>>])
  PROVE  /\ \A s \in States : Reached(s) => Reached(s)'
         /\ \A s \in States : Reached(s)' => s \notin DeadEnds
         /\ \A s \in States : status'[s] = "dead" => s \in DeadEnds
         /\ Reached(InitState)'
         /\ status'[p] = status[p]
         /\ status'[Succ[<<p, o>>]] # "dead" => Reached(Succ[<<p, o>>])'
         /\ \A s \in States : open_list'[s] > 0 => Reached(s)'
<1> DEFINE t == Succ[<<p, o>>]
<1>1. t \in States /\ o \in Ops
  BY SuccType
<1>2. status[t] \in NodeStatus
  BY <1>1 DEF NodeTypeOK
<1> HIDE DEF t
<1>3. Relax(p, o, t)
  BY DEF t
<1>4. /\ \A s \in States \ {t} : status'[s] = status[s]
      /\ status[t] = "new" /\ t \in DeadEnds => status'[t] = "dead"
      /\ status[t] = "new" /\ t \notin DeadEnds => status'[t] = "open"
      /\ status[t] # "new" => status'[t] \in {status[t], "open"}
      /\ status'[t] = "open" => status[t] # "dead"
      /\ p = t => status'[t] = status[t] \/ status[t] = "new"
  BY <1>1, <1>3, RelaxStatus
<1>5. \A s \in States : Reached(s) => Reached(s)'
  BY <1>4 DEF Reached
<1>6. \A s \in States : Reached(s)' => s \notin DeadEnds
  BY <1>2, <1>4 DEF Reached, ReachedOK, NodeStatus
<1>7. \A s \in States : status'[s] = "dead" => s \in DeadEnds
  BY <1>2, <1>4 DEF ReachedOK, NodeStatus
<1>8. Reached(InitState)'
  BY <1>5, SearchAssumption DEF ReachedOK
<1>9. status'[t] # "dead" => Reached(t)'
  BY <1>2, <1>4 DEF Reached, NodeStatus
<1>10. status'[p] = status[p]
  BY <1>4 DEF Reached
<1>11. \A s \in States : open_list'[s] > 0 => Reached(s)'
  <2>1. \/ UNCHANGED open_list
        \/ Insert(t) /\ Reach(t, p, o, "open")
    BY <1>1, <1>3, RelaxCases DEF MarkDead, nodeVars
  <2>2. CASE UNCHANGED open_list
    BY <1>5, <2>2 DEF ReachedOK
  <2>3. CASE Insert(t) /\ Reach(t, p, o, "open")
    BY <1>1, <1>5, <2>3 DEF ReachedOK, Reached, Insert, Reach, NodeTypeOK
  <2> QED  BY <2>1, <2>2, <2>3
<1> QED  BY <1>5, <1>6, <1>7, <1>8, <1>9, <1>10, <1>11 DEF t

LEMMA ReachedStep ==
  ASSUME TypeOK, PointOK, RequestsOK, ReachedOK, Next
  PROVE  ReachedOK'
<1> NodeTypeOK /\ MonitorTypeOK
  BY DEF TypeOK
<1> USE DEF monitorVars, bridgeVars, pollVars, cursorVars
(* Steps that leave the search space and the sets alone.                   *)
<1>1. CASE UNCHANGED <<status, expanded, requested_states, batch>>
           /\ (\A s \in States : open_list'[s] > 0 => Reached(s))
           /\ (pc' \in {"chains", "inject"} => Reached(source'))
           /\ (pc' \in {"inject", "trigger", "expand"} => Reached(cur'))
           /\ (pc' \in {"trigger", "expand"} => status[cur'] = "closed")
           /\ (pc' = "initialize" <=> pc = "initialize")
  BY <1>1 DEF ReachedOK, Reached, Sources
(* Steps that relax an operator of a reached state.                        *)
<1>relax. ASSUME NEW p \in States, Reached(p), NEW o \in Applicable(p),
                 Relax(p, o, Succ[<<p, o>>]),
                 UNCHANGED <<expanded, requested_states, batch>>,
                 pc' = "inject" => /\ cur' = Succ[<<p, o>>]
                                   /\ status'[Succ[<<p, o>>]] # "dead",
                 pc' \in {"chains", "inject"} =>
                     source' = source /\ source \in States /\ Reached(source),
                 pc' \in {"chains", "inject", "expand"},
                 pc' = "expand" => cur' = p /\ status[p] = "closed"
          PROVE  ReachedOK'
  <2>1. /\ \A s \in States : Reached(s) => Reached(s)'
        /\ \A s \in States : Reached(s)' => s \notin DeadEnds
        /\ \A s \in States : status'[s] = "dead" => s \in DeadEnds
        /\ Reached(InitState)'
        /\ status'[p] = status[p]
        /\ status'[Succ[<<p, o>>]] # "dead" => Reached(Succ[<<p, o>>])'
        /\ \A s \in States : open_list'[s] > 0 => Reached(s)'
    BY <1>relax, RelaxReached
  <2>2. \A s \in expanded' \cup requested_states' \cup Sources(batch') :
            s \in States /\ Reached(s)
    BY <1>relax
    DEF TypeOK, MonitorTypeOK, ControlTypeOK, Reply, Sources, ReachedOK
  <2>3. pc' \in {"chains", "inject"} => Reached(source)'
    BY <1>relax, <2>1 DEF Reached
  <2>4. pc' \in {"inject", "expand"} => Reached(cur)'
    BY <1>relax, <2>1 DEF Reached
  <2>5. pc' = "expand" => status'[cur'] = "closed"
    BY <1>relax, <2>1
  <2> QED  BY <1>relax, <2>1, <2>2, <2>3, <2>4, <2>5 DEF ReachedOK
<1>2. CASE Initialize
  <2>1. \A s \in States : status[s] = "new" /\ ~Reached(s)
    BY <1>2 DEF Initialize, ReachedOK, Reached
  <2>2. /\ expanded = {} /\ requested_states = {} /\ Sources(batch) = {}
        /\ \A s \in States : ~(open_list[s] > 0)
    BY <2>1
    DEF ReachedOK, MonitorTypeOK, TypeOK, ControlTypeOK, Sources, Reply
  <2>3. expanded' = {} /\ Sources(batch') = {} /\ pc' = "deadline"
    BY <1>2, <2>2 DEF Initialize, Sources
  <2>4. CASE InitState \in DeadEnds
    <3>1. UNCHANGED <<status, open_list, requested_states>>
      BY <1>2, <2>4 DEF Initialize, nodeVars
    <3> QED  BY <2>1, <2>2, <2>3, <2>4, <3>1 DEF ReachedOK, Reached
  <2>5. CASE InitState \notin DeadEnds
    <3>1. /\ status' = [status EXCEPT ![InitState] = "open"]
          /\ Insert(InitState)
          /\ requested_states' \subseteq requested_states \cup {InitState}
      BY <1>2, <2>5 DEF Initialize, RequestState
    <3>2. \A s \in States : Reached(s)' <=> s = InitState
      BY <2>1, <3>1, SearchAssumption DEF Reached, NodeTypeOK
    <3>3. \A s \in States : open_list'[s] > 0 => s = InitState
      BY <2>2, <3>1 DEF Insert, NodeTypeOK
    <3>4. \A s \in States : status'[s] = "dead" => s \in DeadEnds
      BY <2>1, <3>1 DEF NodeTypeOK
    <3> QED
      BY <2>2, <2>3, <2>5, <3>1, <3>2, <3>3, <3>4, SearchAssumption
      DEF ReachedOK
  <2> QED  BY <2>4, <2>5
<1>3. CASE CheckDeadline \/ ResponsesDone \/ EndChain \/ WaitForPending
           \/ Exhausted \/ GoalReached \/ StartExpansion \/ EndExpansion
  <2>1. UNCHANGED <<status, open_list, expanded, requested_states, batch>>
    BY <1>3
    DEF CheckDeadline, ResponsesDone, EndChain, WaitForPending, Exhausted,
        GoalReached, StartExpansion, EndExpansion, nodeVars
  <2>2. pc' \in {"deadline", "poll", "done", "fetch", "chains", "expand"}
        /\ pc # "initialize"
        /\ (pc' = "chains" => pc = "inject" /\ UNCHANGED source)
        /\ (pc' = "expand" => pc = "trigger" /\ UNCHANGED cur)
    BY <1>3
    DEF CheckDeadline, ResponsesDone, EndChain, WaitForPending, Exhausted,
        GoalReached, StartExpansion, EndExpansion, TypeOK, ControlTypeOK
  <2> QED  BY <1>1, <2>1, <2>2 DEF ReachedOK
<1>4. CASE PollBridge
  <2>1. Sources(answered) \subseteq requested_states
    BY DEF RequestsOK, RequestedOK
  <2> QED  BY <1>4, <2>1 DEF PollBridge, ReachedOK, Reached, nodeVars
<1>5. ASSUME NEW x \in batch, TakeResponse(x)
      PROVE  ReachedOK'
  <2>1. x.state \in Sources(batch) /\ Sources(batch') \subseteq Sources(batch)
    BY <1>5 DEF TakeResponse, Sources
  <2> QED  BY <1>5, <2>1 DEF TakeResponse, ReachedOK, Reached, nodeVars
<1>6. CASE StartChain
  BY <1>6 DEF StartChain, ReachedOK, Reached, nodeVars, Sources
<1>7. ASSUME NEW o \in Ops, InjectAction(o)
      PROVE  ReachedOK'
  <2>1. /\ cur \in States /\ Reached(cur) /\ o \in Applicable(cur)
        /\ Relax(cur, o, Succ[<<cur, o>>])
    BY <1>7 DEF InjectAction, PointOK, ReachedOK
  <2>2. /\ UNCHANGED <<expanded, requested_states, batch, source>>
        /\ pc' \in {"chains", "inject"}
        /\ pc' = "inject" => /\ cur' = Succ[<<cur, o>>]
                             /\ status'[Succ[<<cur, o>>]] # "dead"
    BY <1>7 DEF InjectAction
  <2>3. Reached(source) /\ source \in States
    BY <1>7 DEF InjectAction, ReachedOK, PointOK
  <2> QED  BY <1>relax, <2>1, <2>2, <2>3
<1>8. CASE FinishResponse
  <2>1. Reached(source) /\ source \in States
    BY <1>8 DEF FinishResponse, PointOK, ReachedOK
  <2>2. UNCHANGED status
    BY <1>8, <2>1 DEF FinishResponse, ReachedOK, nodeVars
  <2>3. \A s \in States : open_list'[s] > 0 => Reached(s)
    BY <1>8, <2>1
    DEF FinishResponse, MarkDead, Insert, ReachedOK, nodeVars, NodeTypeOK
  <2> QED  BY <1>1, <1>8, <2>2, <2>3 DEF FinishResponse, ReachedOK
<1>9. ASSUME NEW s \in States, PopDiscarded(s) \/ PopSuspended(s)
      PROVE  ReachedOK'
  <2>1. \A u \in States : open_list'[u] > 0 => Reached(u)
    BY <1>9
    DEF PopDiscarded, PopSuspended, RemoveMin, ReachedOK, NodeTypeOK
  <2> QED  BY <1>1, <1>9, <2>1 DEF PopDiscarded, PopSuspended, RemoveMin
<1>10. ASSUME NEW s \in States, PopExpanded(s)
       PROVE  ReachedOK'
  <2>1. /\ status' = [status EXCEPT ![s] = "closed"] /\ Reached(s)
        /\ open_list' = [open_list EXCEPT ![s] = @ - 1]
        /\ expanded' = expanded \cup {s}
        /\ UNCHANGED <<requested_states, batch>>
        /\ cur' = s /\ pc' = "trigger"
    BY <1>10 DEF PopExpanded, RemoveMin, ReachedOK
  <2>2. \A u \in States : Reached(u)' <=> Reached(u)
    BY <2>1 DEF Reached, NodeTypeOK
  <2>3. \A u \in States : status'[u] = "dead" => status[u] = "dead"
    BY <2>1 DEF NodeTypeOK
  <2>4. \A u \in States : open_list'[u] > 0 => open_list[u] > 0
    BY <2>1 DEF NodeTypeOK
  <2>5. status'[s] = "closed"
    BY <2>1 DEF NodeTypeOK
  <2>6. \A u \in expanded' \cup requested_states' \cup Sources(batch') :
            u \in States /\ Reached(u)
    BY <2>1
    DEF TypeOK, MonitorTypeOK, ControlTypeOK, Reply, Sources, ReachedOK
  <2> QED
    BY <2>1, <2>2, <2>3, <2>4, <2>5, <2>6, SearchAssumption DEF ReachedOK
<1>11. ASSUME NEW s \in States, Trigger(s)
       PROVE  ReachedOK'
  BY <1>11
  DEF Trigger, RequestState, ReachedOK, Reached, nodeVars, Sources
<1>12. ASSUME NEW o \in Ops, GenerateSuccessor(o)
       PROVE  ReachedOK'
  <2>1. /\ cur \in States /\ Reached(cur) /\ o \in Applicable(cur)
        /\ status[cur] = "closed"
        /\ UNCHANGED <<expanded, requested_states, batch, source>>
        /\ pc' = "expand" /\ cur' = cur
    BY <1>12 DEF GenerateSuccessor, PointOK, ReachedOK
  <2>2. CASE WithinBound(cur, o)
    BY <1>12, <1>relax, <2>1, <2>2 DEF GenerateSuccessor
  <2>3. CASE ~WithinBound(cur, o)
    BY <1>1, <1>12, <2>1, <2>3 DEF GenerateSuccessor, nodeVars, ReachedOK
  <2> QED  BY <2>2, <2>3
<1>13. ASSUME NEW s \in States, Complete(s)
       PROVE  ReachedOK'
  BY <1>1, <1>13 DEF Complete, ReachedOK, nodeVars
<1>14. CASE Ended
  BY <1>1, <1>14 DEF Ended, vars, nodeVars, monitorVars, pollVars, cursorVars, ReachedOK
<1> QED
  BY <1>2, <1>3, <1>4, <1>5, <1>6, <1>7, <1>8, <1>9, <1>10, <1>11, <1>12,
     <1>13, <1>14
  DEF Next, SearchThread, PollSteps, FetchSteps, StepSteps

(* In every reachable state the thread works on nodes that were reached.   *)
LEMMA ReachedInvariant == Spec => []ReachedOK
<1>1. TypeOK /\ PointOK /\ RequestsOK /\ ReachedOK /\ [Next]_vars => ReachedOK'
  <2> SUFFICES ASSUME ReachedOK, UNCHANGED vars
               PROVE  ReachedOK'
    BY ReachedStep
  <2> QED
    BY DEF vars, nodeVars, monitorVars, bridgeVars, pollVars, cursorVars,
           ReachedOK, Reached, Sources
<1> QED  BY <1>1, ReachedInit, TypeCorrect, RequestsInvariant, PTL DEF Spec

----------------------------------------------------------------------------
(* The g values of the reached nodes, when costs are whole and cost_type   *)
(* is the real cost.                                                       *)

CostOK ==
    ExactCosts =>
        /\ \A s \in States : Reached(s) => g[s] = real_g[s] /\ g[s] >= 0
        /\ Reached(InitState) => g[InitState] = 0
        /\ \A s \in States \ {InitState} :
               Reached(s) => CertifiedByParent(s)

(* Whole costs are stored as they are.                                     *)
LEMMA StoredExact == Unit = 1 => \A x \in Int : Stored(x) = x
  BY DEF Stored

(* Relax marks a dead end, or gives t the way through p because it is new  *)
(* or that way is cheaper, or leaves everything alone because it is not.   *)
LEMMA RelaxImproves ==
  ASSUME NodeTypeOK, NEW p \in States, NEW o \in Ops, NEW t \in States,
         Relax(p, o, t)
  PROVE  \/ status[t] = "new" /\ t \in DeadEnds /\ MarkDead(t)
         \/ \E st \in {"open", "closed"} :
               /\ Reach(t, p, o, st)
               /\ status[t] = "new"
                  \/ (Reached(t) /\ g[t] > g[p] + AdjCost[o])
               /\ mode.reopen => st = "open"
         \/ /\ UNCHANGED nodeVars
            /\ status[t] = "dead"
               \/ (Reached(t) /\ ~(g[t] > g[p] + AdjCost[o]))
<1>1. status[t] \in {"new", "open", "closed", "dead"}
  BY DEF NodeTypeOK, NodeStatus
<1> QED  BY <1>1 DEF Relax, Reached

LEMMA RelaxCost ==
  ASSUME NodeTypeOK, ReachedOK, CostOK,
         NEW p \in States, Reached(p), NEW o \in Applicable(p),
         WithinBound(p, o), Relax(p, o, Succ[<<p, o>>]), UNCHANGED mode
  PROVE  CostOK'
<1> DEFINE t == Succ[<<p, o>>]
<1>1. t \in States /\ o \in Ops
  BY SuccType
<1> SUFFICES ASSUME ExactCosts
             PROVE  CostOK'
  BY DEF CostOK
<1>2. /\ \A s \in States : Reached(s) => g[s] = real_g[s] /\ g[s] >= 0
      /\ g[InitState] = 0
      /\ \A s \in States \ {InitState} : Reached(s) => CertifiedByParent(s)
  BY DEF CostOK, ReachedOK
<1>3. /\ g[p] \in Int /\ g[p] = real_g[p] /\ g[p] >= 0
      /\ Cost[o] \in Nat /\ AdjCost[o] = Cost[o]
      /\ g[p] + Cost[o] < mode.bound
  BY <1>1, <1>2, SearchAssumption
  DEF NodeTypeOK, WithinBound, ExactCosts
<1>4. Stored(g[p] + Cost[o]) = g[p] + Cost[o]
  BY <1>3, StoredExact DEF ExactCosts
<1> HIDE DEF t
<1>5. \A s \in States : g[s] \in Int /\ real_g[s] \in Int
  BY DEF NodeTypeOK
<1>6. CASE status[t] = "new" /\ MarkDead(t)
  <2>1. \A s \in States : Reached(s)' <=> Reached(s) /\ s # t
    BY <1>1, <1>6 DEF MarkDead, Reached, NodeTypeOK
  <2>2. ~Reached(t)
    BY <1>6 DEF Reached
  <2>3. \A s \in States : Reached(s)' <=> Reached(s)
    BY <2>1, <2>2
  <2>4. UNCHANGED <<g, real_g, parent, via>>
    BY <1>6 DEF MarkDead
  <2>5. \A s \in States \ {InitState} : Reached(s)' => CertifiedByParent(s)'
    BY <1>2, <2>3, <2>4 DEF CertifiedByParent
  <2> QED  BY <1>2, <2>3, <2>4, <2>5 DEF CostOK
<1>7. ASSUME NEW st \in {"open", "closed"}, Reach(t, p, o, st),
             status[t] = "new" \/ (Reached(t) /\ g[t] > g[p] + AdjCost[o])
      PROVE  CostOK'
  <2>1. \A s \in States : Reached(s)' <=> Reached(s) \/ s = t
    BY <1>1, <1>7 DEF Reach, Reached, NodeTypeOK
  <2>2. /\ g'[t] = g[p] + Cost[o] /\ real_g'[t] = g[p] + Cost[o]
        /\ parent'[t] = p /\ via'[t] = o
    BY <1>1, <1>3, <1>4, <1>7 DEF Reach, NodeTypeOK
  <2>3. \A s \in States \ {t} :
            /\ g'[s] = g[s] /\ real_g'[s] = real_g[s]
            /\ parent'[s] = parent[s] /\ via'[s] = via[s]
    BY <1>7 DEF Reach, NodeTypeOK
  <2>4. t # InitState /\ t # p
    BY <1>1, <1>2, <1>3, <1>7 DEF ReachedOK, Reached
  <2>5. Reached(t) => g'[t] < g[t] /\ real_g'[t] < real_g[t]
    BY <1>1, <1>2, <1>3, <1>5, <1>7, <2>2 DEF Reached
  <2>6. \A s \in States : Reached(s)' => g'[s] = real_g'[s] /\ g'[s] >= 0
    BY <1>1, <1>2, <1>3, <2>1, <2>2, <2>3
  <2>7. g'[InitState] = 0
    BY <1>2, <2>3, <2>4, SearchAssumption
  <2>8. CertifiedByParent(t)'
    BY <1>1, <1>3, <2>1, <2>2, <2>3, <2>4 DEF CertifiedByParent, t
  <2>9. ASSUME NEW s \in States \ {InitState, t}, Reached(s)'
        PROVE  CertifiedByParent(s)'
    <3>1. Reached(s) /\ CertifiedByParent(s)
      BY <1>2, <2>1, <2>9
    <3>2. parent[s] \in States /\ Reached(parent[s]) /\ Reached(parent[s])'
      BY <2>1, <2>3, <3>1 DEF CertifiedByParent
    <3>3. real_g'[parent[s]] <= real_g[parent[s]]
      <4>1. CASE parent[s] = t
        BY <1>1, <1>3, <1>5, <2>2, <2>5, <3>2, <4>1
      <4>2. CASE parent[s] # t
        BY <1>5, <2>3, <3>2, <4>2
      <4> QED  BY <4>1, <4>2
    <3>4. Cost[via[s]] \in Nat /\ via[s] \in Ops
      BY <3>1, SearchAssumption DEF CertifiedByParent, Applicable
    <3>5. real_g'[parent[s]] \in Int
      BY <1>3, <1>5, <2>2, <2>3, <3>2
    <3>6. real_g'[parent[s]] + Cost[via[s]] <= real_g[s]
      BY <1>5, <3>1, <3>2, <3>3, <3>4, <3>5 DEF CertifiedByParent
    <3> QED  BY <2>3, <3>1, <3>2, <3>6 DEF CertifiedByParent
  <2> QED  BY <2>6, <2>7, <2>8, <2>9 DEF CostOK
<1>8. CASE UNCHANGED nodeVars
  BY <1>8 DEF nodeVars, CostOK, CertifiedByParent, Reached
<1> QED
  BY <1>1, <1>6, <1>7, <1>8, RelaxImproves DEF t

LEMMA CostInit == Init => CostOK
<1>1. Init => \A s \in States : ~Reached(s)
  BY DEF Init, Reached
<1> QED  BY <1>1, SearchAssumption DEF CostOK

LEMMA CostStep ==
  ASSUME TypeOK, PointOK, ReachedOK, CostOK, [Next]_vars
  PROVE  CostOK'
<1> NodeTypeOK
  BY DEF TypeOK
<1>1. CASE /\ \A s \in States : Reached(s)' <=> Reached(s)
           /\ UNCHANGED <<mode, g, real_g, parent, via>>
  <2>1. \A s \in States : CertifiedByParent(s) => CertifiedByParent(s)'
    BY <1>1 DEF CertifiedByParent
  <2> QED  BY <1>1, <2>1, SearchAssumption DEF CostOK
<1>2. CASE UNCHANGED <<mode, nodeVars>>
  BY <1>1, <1>2 DEF nodeVars, Reached
<1>3. CASE Initialize /\ InitState \notin DeadEnds
  <2>1. \A s \in States : ~Reached(s)
    BY <1>3 DEF Initialize, ReachedOK, Reached
  <2>2. \A s \in States : Reached(s)' => s = InitState
    BY <1>3, <2>1 DEF Initialize, Reached, NodeTypeOK
  <2>3. g'[InitState] = 0 /\ real_g'[InitState] = 0
    BY <1>3, SearchAssumption DEF Initialize, NodeTypeOK
  <2> QED  BY <2>2, <2>3 DEF CostOK
<1>4. ASSUME NEW o \in Ops, InjectAction(o)
      PROVE  CostOK'
  BY <1>4, RelaxCost DEF InjectAction, PointOK, ReachedOK
<1>5. CASE FinishResponse
  <2>1. source \in States /\ source \notin DeadEnds
    BY <1>5 DEF FinishResponse, PointOK, ReachedOK
  <2>2. UNCHANGED <<mode, status, g, real_g, parent, via>>
    BY <1>5, <2>1 DEF FinishResponse, nodeVars
  <2> QED  BY <1>1, <2>2 DEF Reached
<1>6. ASSUME NEW s \in States,
             PopDiscarded(s) \/ PopSuspended(s) \/ PopExpanded(s)
      PROVE  CostOK'
  <2>1. UNCHANGED <<mode, g, real_g, parent, via>>
    BY <1>6 DEF PopDiscarded, PopSuspended, PopExpanded
  <2>2. Reached(s)
    BY <1>6 DEF PopDiscarded, PopSuspended, PopExpanded, RemoveMin, ReachedOK
  <2>3. \A u \in States : Reached(u)' <=> Reached(u)
    BY <1>6, <2>2
    DEF PopDiscarded, PopSuspended, PopExpanded, Reached, NodeTypeOK
  <2> QED  BY <1>1, <2>1, <2>3
<1>7. ASSUME NEW o \in Ops, GenerateSuccessor(o)
      PROVE  CostOK'
  <2>1. cur \in States /\ Reached(cur) /\ o \in Applicable(cur)
    BY <1>7 DEF GenerateSuccessor, PointOK, ReachedOK
  <2>2. CASE WithinBound(cur, o)
    BY <1>7, <2>1, <2>2, RelaxCost DEF GenerateSuccessor
  <2>3. CASE ~WithinBound(cur, o)
    BY <1>2, <1>7, <2>3 DEF GenerateSuccessor
  <2> QED  BY <2>2, <2>3
<1> QED
  BY <1>2, <1>3, <1>4, <1>5, <1>6, <1>7
  DEF Next, SearchThread, PollSteps, FetchSteps, StepSteps, Ended, vars,
      Initialize, CheckDeadline, PollBridge, TakeResponse, ResponsesDone,
      StartChain, EndChain, WaitForPending, Exhausted, Trigger, GoalReached,
      StartExpansion, EndExpansion, Complete

LEMMA CostInvariant == Spec => []CostOK
<1> QED  BY CostInit, CostStep, TypeCorrect, ReachedInvariant, PTL DEF Spec

(* In every reachable state each node's g is certified by its parent and   *)
(* lies below the bound, whatever was reopened, re-parented or injected.   *)
THEOREM ParentsCertify == Spec => []ParentsCertifyG
<1>1. CostOK => ParentsCertifyG
  BY DEF CostOK, ParentsCertifyG
<1> QED  BY <1>1, CostInvariant, PTL

----------------------------------------------------------------------------
(* Closed nodes in a search that reopens.                                  *)

EngineOK == pc \notin {"deadline", "done"} => engine = "in_progress"

LEMMA EngineInvariant == Spec => []EngineOK
<1>1. Init => EngineOK
  BY DEF Init, EngineOK
<1>2. TypeOK /\ PointOK /\ EngineOK /\ [Next]_vars => EngineOK'
  <2> SUFFICES ASSUME TypeOK, EngineOK, [Next]_vars
               PROVE  EngineOK'
    OBVIOUS
  <2> QED
    BY DEF TypeOK, ControlTypeOK, EngineOK,
      Next, SearchThread, PollSteps, FetchSteps, StepSteps, Ended, vars,
      engineVars, Initialize, CheckDeadline, PollBridge, TakeResponse,
      ResponsesDone, StartChain, InjectAction, EndChain, FinishResponse,
      WaitForPending, Exhausted, PopDiscarded, PopSuspended, PopExpanded,
      RemoveMin, Trigger, GoalReached, StartExpansion, GenerateSuccessor,
      EndExpansion, Complete
<1> QED  BY <1>1, <1>2, TypeCorrect, PTL DEF Spec

(* Relaxing an operator of p settles it, and disturbs no other: a closed   *)
(* node that gets a lower g is open from then on.                          *)
LEMMA RelaxSettles ==
  ASSUME NodeTypeOK, ReachedOK, CostOK, ExactCosts, mode.reopen,
         NEW p \in States, Reached(p), NEW o \in Applicable(p),
         Relax(p, o, Succ[<<p, o>>])
  PROVE  /\ Settled(p, o)'
         /\ \A s \in States : status'[s] = "closed" =>
                /\ status[s] = "closed"
                /\ g'[s] = g[s] /\ real_g'[s] = real_g[s]
                /\ \A q \in Applicable(s) : Settled(s, q) => Settled(s, q)'
         /\ g'[p] = g[p] /\ real_g'[p] = real_g[p]
<1> DEFINE t == Succ[<<p, o>>]
<1>1. t \in States /\ o \in Ops
  BY SuccType
<1>2. \A s \in States : g[s] \in Int /\ real_g[s] \in Int
  BY DEF NodeTypeOK
<1>3. /\ g[p] >= 0 /\ Cost[o] \in Nat /\ AdjCost[o] = Cost[o]
      /\ Reached(InitState) /\ g[InitState] = 0
  BY <1>1, SearchAssumption DEF CostOK, ExactCosts, ReachedOK
<1>4. Stored(g[p] + Cost[o]) = g[p] + Cost[o]
  BY <1>2, <1>3, StoredExact DEF ExactCosts
<1>5. \A s \in States : \A q \in Applicable(s) :
          Succ[<<s, q>>] \in States /\ Cost[q] \in Nat
  BY SuccType, SearchAssumption
<1> HIDE DEF t
<1>6. CASE status[t] = "new" /\ t \in DeadEnds /\ MarkDead(t)
  <2>1. /\ UNCHANGED <<g, real_g>>
        /\ \A s \in States \ {t} : status'[s] = status[s]
        /\ status'[t] = "dead" /\ ~Reached(t)
    BY <1>1, <1>6 DEF MarkDead, NodeTypeOK, Reached
  <2>2. \A s \in States : Reached(s) => Reached(s)'
    BY <2>1 DEF Reached
  <2>3. Settled(p, o)'
    BY <1>6 DEF Settled, t
  <2>4. ASSUME NEW s \in States, status'[s] = "closed",
               NEW q \in Applicable(s), Settled(s, q)
        PROVE  Settled(s, q)'
    BY <1>5, <2>1, <2>2, <2>4 DEF Settled
  <2>5. \A s \in States : status'[s] = "closed" => status[s] = "closed"
    BY <2>1
  <2> QED  BY <2>1, <2>3, <2>4, <2>5
<1>7. CASE /\ Reach(t, p, o, "open")
           /\ status[t] = "new" \/ (Reached(t) /\ g[t] > g[p] + AdjCost[o])
  <2>1. /\ \A s \in States \ {t} :
              status'[s] = status[s] /\ g'[s] = g[s] /\ real_g'[s] = real_g[s]
        /\ status'[t] = "open" /\ Reached(t)'
        /\ g'[t] = g[p] + Cost[o]
    BY <1>1, <1>3, <1>4, <1>7 DEF Reach, NodeTypeOK, Reached
  <2>2. t # p
    BY <1>1, <1>2, <1>3, <1>7 DEF Reached
  <2>3. Settled(p, o)'
    BY <1>1, <1>2, <1>3, <2>1, <2>2 DEF Settled, t
  <2>4. ASSUME NEW s \in States, status'[s] = "closed",
               NEW q \in Applicable(s), Settled(s, q)
        PROVE  Settled(s, q)'
    <3>1. s # t /\ g'[s] = g[s]
      BY <2>1, <2>4
    <3>2. CASE Succ[<<s, q>>] = t
      <4>1. (Reached(t) /\ g[t] <= g[s] + Cost[q]) \/ t \in DeadEnds
        BY <2>4, <3>2 DEF Settled
      <4>2. Reached(t) => g'[t] <= g[t]
        BY <1>1, <1>2, <1>3, <1>7, <2>1 DEF Reached
      <4>3. g'[t] \in Int
        BY <1>2, <1>3, <2>1
      <4> QED
        BY <1>1, <1>2, <1>5, <2>1, <3>1, <3>2, <4>1, <4>2, <4>3 DEF Settled
    <3>3. CASE Succ[<<s, q>>] # t
      BY <1>5, <2>1, <2>4, <3>1, <3>3 DEF Settled, Reached
    <3> QED  BY <3>2, <3>3
  <2>5. \A s \in States : status'[s] = "closed" => s # t
    BY <2>1
  <2> QED  BY <2>1, <2>2, <2>3, <2>4, <2>5
<1>8. CASE /\ UNCHANGED nodeVars
           /\ status[t] = "dead" \/ (Reached(t) /\ ~(g[t] > g[p] + AdjCost[o]))
  <2>1. Settled(p, o)
    BY <1>1, <1>2, <1>3, <1>8 DEF Settled, ReachedOK, t
  <2>2. \A s \in States : \A q \in Applicable(s) :
            Settled(s, q) => Settled(s, q)'
    BY <1>8 DEF Settled, Reached, nodeVars
  <2> QED  BY <1>8, <2>1, <2>2 DEF nodeVars
<1> QED
  BY <1>1, <1>6, <1>7, <1>8, RelaxImproves DEF t

LEMMA SettledStep ==
  ASSUME TypeOK, PointOK, ReachedOK, CostOK, EngineOK, ClosedNodesSettled,
         [Next]_vars
  PROVE  ClosedNodesSettled'
<1> NodeTypeOK
  BY DEF TypeOK
<1>1. UNCHANGED mode
  BY DEF Next, SearchThread, PollSteps, FetchSteps, StepSteps, Ended, vars,
         Initialize, CheckDeadline, PollBridge, TakeResponse, ResponsesDone,
         StartChain, InjectAction, EndChain, FinishResponse, WaitForPending,
         Exhausted, PopDiscarded, PopSuspended, PopExpanded, Trigger,
         GoalReached, StartExpansion, GenerateSuccessor, EndExpansion, Complete
<1> SUFFICES ASSUME ExactCosts, mode.reopen,
                    engine' \in {"in_progress", "failed"}
             PROVE  ClosedNodesSettled'
  BY <1>1 DEF ClosedNodesSettled
<1>2. engine \in {"in_progress", "failed"}
  BY DEF EngineOK,
         Next, SearchThread, PollSteps, FetchSteps, StepSteps, Ended, vars,
         engineVars, Initialize, CheckDeadline, PollBridge, TakeResponse,
         ResponsesDone, StartChain, InjectAction, EndChain, FinishResponse,
         WaitForPending, Exhausted, PopDiscarded, PopSuspended, PopExpanded,
         RemoveMin, Trigger, GoalReached, StartExpansion, GenerateSuccessor,
         EndExpansion, Complete
<1>3. \A s \in States : status[s] = "closed" =>
         /\ \A o \in Applicable(s) :
               WithinBound(s, o) /\ ~StillToTry(s, o) => Settled(s, o)
         /\ s \in Goals => pc = "trigger" /\ cur = s
  BY <1>2 DEF ClosedNodesSettled
(* A closed node keeps its g and its settled operators; the rest of the    *)
(* step decides what is still to be tried.                                 *)
<1>4. SUFFICES ASSUME NEW s \in States, status'[s] = "closed"
               PROVE  /\ \A o \in Applicable(s) :
                            WithinBound(s, o)' /\ ~StillToTry(s, o)'
                                => Settled(s, o)'
                      /\ s \in Goals => pc' = "trigger" /\ cur' = s
  BY DEF ClosedNodesSettled
<1> DEFINE Claim ==
             /\ \A o \in Applicable(s) :
                   WithinBound(s, o)' /\ ~StillToTry(s, o)' => Settled(s, o)'
             /\ s \in Goals => pc' = "trigger" /\ cur' = s
           Kept == /\ status[s] = "closed" /\ real_g'[s] = real_g[s]
                   /\ \A o \in Applicable(s) : Settled(s, o) => Settled(s, o)'
           StillTried ==
             \A o \in Applicable(s) : StillToTry(s, o) => StillToTry(s, o)'
           StillGoal == s \in Goals /\ pc = "trigger" /\ cur = s =>
                            pc' = "trigger" /\ cur' = s
<1> SUFFICES Claim
  OBVIOUS
<1>5. Kept /\ StillTried /\ StillGoal => Claim
  BY <1>1, <1>3 DEF WithinBound
<1>6. ASSUME UNCHANGED <<status, g, real_g>>
      PROVE  Kept
  BY <1>4, <1>6 DEF Settled, Reached
<1> HIDE DEF Claim, Kept, StillTried, StillGoal
<1>7. CASE UNCHANGED <<status, g, real_g, cur, pc, todo>>
  <2>1. StillTried /\ StillGoal
    BY <1>7 DEF StillToTry, StillTried, StillGoal
  <2> QED  BY <1>5, <1>6, <1>7, <2>1
(* Steps outside an expansion: nothing was still to be tried.              *)
<1>8. CASE pc \notin {"trigger", "expand"} /\ Kept
  <2>1. StillTried /\ StillGoal
    BY <1>8 DEF StillToTry, StillTried, StillGoal
  <2> QED  BY <1>5, <1>8, <2>1
<1>9. CASE \/ CheckDeadline \/ PollBridge \/ ResponsesDone \/ StartChain
           \/ EndChain \/ WaitForPending \/ Exhausted
           \/ \E x \in batch : TakeResponse(x)
  BY <1>6, <1>8, <1>9
  DEF CheckDeadline, PollBridge, ResponsesDone, StartChain, EndChain,
      WaitForPending, Exhausted, TakeResponse, nodeVars
<1>10. CASE Initialize
  <2>1. \A u \in States : status[u] = "new"
    BY <1>10 DEF Initialize, ReachedOK
  <2>2. status'[s] \in {"new", "open"}
    BY <1>10, <2>1 DEF Initialize, NodeTypeOK, nodeVars
  <2> QED  BY <1>4, <2>2
<1>11. ASSUME NEW o \in Ops, InjectAction(o)
       PROVE  Claim
  <2>1. Reached(cur) /\ cur \in States /\ pc = "inject"
        /\ o \in Applicable(cur) /\ Relax(cur, o, Succ[<<cur, o>>])
    BY <1>11 DEF InjectAction, PointOK, ReachedOK
  <2>2. Kept
    BY <1>4, <2>1, RelaxSettles DEF Kept
  <2> QED  BY <1>8, <2>1, <2>2
<1>12. CASE FinishResponse
  <2>1. source \in States /\ source \notin DeadEnds /\ pc = "chains"
    BY <1>12 DEF FinishResponse, PointOK, ReachedOK
  <2>2. UNCHANGED <<status, g, real_g>>
    BY <1>12, <2>1 DEF FinishResponse, nodeVars
  <2> QED  BY <1>6, <1>8, <2>1, <2>2
<1>13. ASSUME NEW u \in States, PopDiscarded(u) \/ PopSuspended(u)
       PROVE  Claim
  BY <1>6, <1>8, <1>13 DEF PopDiscarded, PopSuspended, RemoveMin
<1>14. ASSUME NEW u \in States, PopExpanded(u)
       PROVE  Claim
  <2>1. CASE s = u
    <3>1. cur' = s /\ pc' = "trigger"
      BY <1>14, <2>1 DEF PopExpanded
    <3> QED  BY <3>1 DEF Claim, StillToTry
  <2>2. CASE s # u
    <3>1. /\ status[s] = "closed" /\ UNCHANGED <<g, real_g>>
          /\ \A v \in States : Reached(v) => Reached(v)'
          /\ pc = "fetch"
      BY <1>4, <1>14, <2>2 DEF PopExpanded, RemoveMin, NodeTypeOK, Reached
    <3>2. Kept
      BY <3>1, SuccType DEF Kept, Settled
    <3> QED  BY <1>8, <3>1, <3>2
  <2> QED  BY <2>1, <2>2
<1>15. ASSUME NEW u \in States, Trigger(u)
       PROVE  Claim
  BY <1>7, <1>15 DEF Trigger, nodeVars, cursorVars
<1>16. ~GoalReached
  BY DEF GoalReached
<1>17. CASE StartExpansion
  <2>1. UNCHANGED <<status, g, real_g, cur>> /\ cur \notin Goals
        /\ pc' = "expand" /\ todo' = Applicable(cur)
    BY <1>17 DEF StartExpansion, nodeVars
  <2>2. StillTried /\ StillGoal
    BY <2>1 DEF StillToTry, StillTried, StillGoal
  <2> QED  BY <1>5, <1>6, <2>1, <2>2
<1>18. ASSUME NEW o \in Ops, GenerateSuccessor(o)
       PROVE  Claim
  <2>1. /\ Reached(cur) /\ cur \in States /\ pc = "expand"
        /\ o \in Applicable(cur)
        /\ UNCHANGED <<pc, cur>> /\ todo' = todo \ {o}
    BY <1>18 DEF GenerateSuccessor, PointOK, ReachedOK
  <2>2. Kept /\ (WithinBound(cur, o) => Settled(cur, o)')
        /\ real_g'[cur] = real_g[cur]
    <3>1. CASE WithinBound(cur, o)
      BY <1>4, <1>18, <2>1, <3>1, RelaxSettles DEF GenerateSuccessor, Kept
    <3>2. CASE ~WithinBound(cur, o)
      BY <1>6, <1>18, <3>2 DEF GenerateSuccessor, nodeVars
    <3> QED  BY <3>1, <3>2
  <2>3. \A q \in Applicable(s) :
            StillToTry(s, q) => StillToTry(s, q)' \/ (s = cur /\ q = o)
    BY <2>1 DEF StillToTry
  <2>4. WithinBound(cur, o)' <=> WithinBound(cur, o)
    BY <1>1, <2>1, <2>2 DEF WithinBound
  <2>5. \A q \in Applicable(s) :
            WithinBound(s, q)' /\ ~StillToTry(s, q)' => Settled(s, q)'
    BY <1>1, <1>3, <2>1, <2>2, <2>3, <2>4 DEF WithinBound, Kept
  <2>6. s \notin Goals
    BY <1>3, <2>1, <2>2 DEF Kept
  <2> QED  BY <2>5, <2>6 DEF Claim
<1>19. CASE EndExpansion
  <2>1. UNCHANGED <<status, g, real_g>> /\ pc = "expand" /\ todo = {}
    BY <1>19 DEF EndExpansion, nodeVars
  <2>2. StillTried /\ StillGoal
    BY <2>1 DEF StillToTry, StillTried, StillGoal
  <2> QED  BY <1>5, <1>6, <2>1, <2>2
<1>20. ASSUME NEW u \in States, Complete(u)
       PROVE  Claim
  BY <1>7, <1>20 DEF Complete, nodeVars, cursorVars
<1>21. CASE UNCHANGED vars
  BY <1>7, <1>21 DEF vars, nodeVars, cursorVars
<1> QED
  BY <1>9, <1>10, <1>11, <1>12, <1>13, <1>14, <1>15, <1>16, <1>17, <1>18,
     <1>19, <1>20, <1>21
  DEF Next, SearchThread, PollSteps, FetchSteps, StepSteps, Ended

(* In every reachable state of a search that reopens, the operators of the *)
(* closed nodes are settled, up to those the expansion still has to try.   *)
THEOREM ClosedStaySettled == Spec => []ClosedNodesSettled
<1>1. Init => ClosedNodesSettled
  BY DEF Init, ClosedNodesSettled
<1> QED
  BY <1>1, SettledStep, TypeCorrect, ReachedInvariant, CostInvariant,
     EngineInvariant, PTL DEF Spec

----------------------------------------------------------------------------
(* "Completely explored state space -- no solution!"                       *)

(* Nothing is left to expand but nodes that violate the constraint.        *)
NothingLeft ==
    engine = "failed" =>
        /\ pc \in {"deadline", "done"}
        /\ \A s \in States : status[s] = "open" => s \in Violating

LEMMA NothingLeftInvariant == Spec => []NothingLeft
<1>1. Init => NothingLeft
  BY DEF Init, NothingLeft
<1>2. TypeOK /\ PointOK /\ EngineOK /\ NoOpenNodeLost /\ AnswersAwaited
      /\ NothingLeft /\ [Next]_vars => NothingLeft'
  <2> SUFFICES ASSUME TypeOK, PointOK, EngineOK, NoOpenNodeLost,
                      AnswersAwaited, NothingLeft, [Next]_vars,
                      engine' = "failed"
               PROVE  NothingLeft'
    BY DEF NothingLeft
  <2>1. CASE Exhausted
    <3>1. pc = "fetch" /\ batch = {} /\ ~was_suspended
      BY <2>1 DEF Exhausted, PointOK
    <3>2. engine = "in_progress" /\ Sources(batch) = {}
      BY <3>1 DEF EngineOK, Sources
    <3>3. suspended_states = {}
      BY <2>1, <3>1, <3>2 DEF Exhausted, AnswersAwaited
    <3>4. \A s \in States : open_list[s] = 0
      BY <2>1 DEF Exhausted, OpenListEmpty
    <3>5. \A s \in States : status[s] = "open" => s \in Violating
      BY <3>1, <3>3, <3>4 DEF NoOpenNodeLost, Reachable
    <3> QED  BY <2>1, <3>5 DEF Exhausted, NothingLeft, nodeVars
  <2>2. CASE ~Exhausted
    <3>1. engine = "failed" /\ UNCHANGED status
             /\ pc' \in {"deadline", "done"}
      BY <2>2
      DEF EngineOK, NothingLeft,
         Next, SearchThread, PollSteps, FetchSteps, StepSteps, Ended, vars,
         nodeVars, engineVars, Initialize, CheckDeadline, PollBridge,
         TakeResponse, ResponsesDone, StartChain, InjectAction, EndChain,
         FinishResponse, WaitForPending, PopDiscarded, PopSuspended,
         PopExpanded, RemoveMin, Trigger, GoalReached, StartExpansion,
         GenerateSuccessor, EndExpansion, Complete
    <3> QED  BY <3>1 DEF NothingLeft
  <2> QED  BY <2>1, <2>2
<1> QED
  BY <1>1, <1>2, TypeCorrect, EngineInvariant, OpenNodesReachable,
     SuspendedAreAwaited, PTL DEF Spec

(* A plan: n operators that lead from the initial state to a goal through  *)
(* states that are neither dead ends nor violate the constraint; cost[i]   *)
(* is the cost of the first i, each below the bound.                       *)
IsPlan(n, path, ops, cost) ==
    /\ path \in [0..n -> States \ (DeadEnds \cup Violating)]
    /\ ops \in [1..n -> Ops]
    /\ cost \in [0..n -> Nat]
    /\ path[0] = InitState /\ cost[0] = 0
    /\ \A i \in 1..n : /\ ops[i] \in Applicable(path[i - 1])
                       /\ path[i] = Succ[<<path[i - 1], ops[i]>>]
                       /\ cost[i] = cost[i - 1] + Cost[ops[i]]
                       /\ cost[i] < mode.bound
    /\ path[n] \in Goals

NoPlanMissed ==
    ExactCosts /\ mode.reopen /\ engine = "failed" =>
        \A n \in Nat : \A path, ops, cost : ~IsPlan(n, path, ops, cost)

(* A nonempty set of natural numbers has a least element.                  *)
LEMMA LeastNat ==
  ASSUME NEW T, T \subseteq Nat, T # {}
  PROVE  \E m \in T : \A k \in T : m <= k
<1>1. PICK m \in T : \A k \in T : ~(<<k, m>> \in OpToRel(<, Nat))
  BY NatLessThanWellFounded, WFMin
<1>2. \A k \in T : ~(k < m)
  BY <1>1 DEF OpToRel
<1> QED  BY <1>2

(* Along a plan each state would have been closed, at no higher g than the *)
(* plan's cost up to it: take the first one that was not.  The goal would  *)
(* have been closed, too.                                                  *)
LEMMA SettledMeansNoPlan ==
  ASSUME TypeOK, ReachedOK, CostOK, ClosedNodesSettled, NothingLeft,
         ExactCosts, mode.reopen, engine = "failed",
         NEW n \in Nat, NEW path, NEW ops, NEW cost,
         IsPlan(n, path, ops, cost)
  PROVE  FALSE
<1> NodeTypeOK
  BY DEF TypeOK
<1> DEFINE Fine(i) == status[path[i]] = "closed" /\ g[path[i]] <= cost[i]
           Bad == {i \in 0..n : ~Fine(i)}
<1>1. /\ \A i \in 0..n : /\ path[i] \in States
                         /\ path[i] \notin DeadEnds /\ path[i] \notin Violating
                         /\ cost[i] \in Nat
      /\ path[0] = InitState /\ cost[0] = 0 /\ path[n] \in Goals
  BY DEF IsPlan
<1>2. pc \notin {"initialize", "trigger", "expand"}
      /\ \A s \in States : status[s] = "open" => s \in Violating
  BY DEF NothingLeft
<1>3. \A s \in States : Reached(s) /\ s \notin Violating => status[s] = "closed"
  BY <1>2 DEF Reached
<1>4. \A s \in States : status[s] = "closed" =>
         /\ s \notin Goals
         /\ \A o \in Applicable(s) : WithinBound(s, o) => Settled(s, o)
  BY <1>2 DEF ClosedNodesSettled, StillToTry
<1>5. Fine(0)
  BY <1>1, <1>2, <1>3 DEF ReachedOK, CostOK
<1>6. ASSUME Bad # {}
      PROVE  FALSE
  <2>1. PICK m \in Bad : \A k \in Bad : m <= k
    <3>1. Bad \subseteq Nat
      OBVIOUS
    <3> HIDE DEF Bad
    <3> QED  BY <1>6, <3>1, LeastNat
  <2>2. m \in 1..n /\ m - 1 \in 0..n /\ Fine(m - 1)
    BY <1>5, <2>1
  <2> DEFINE s == path[m - 1]
             o == ops[m]
  <2>3. /\ s \in States /\ status[s] = "closed" /\ g[s] <= cost[m - 1]
        /\ o \in Applicable(s) /\ path[m] = Succ[<<s, o>>]
        /\ cost[m] = cost[m - 1] + Cost[o] /\ cost[m] < mode.bound
    BY <1>1, <2>2 DEF IsPlan
  <2> HIDE DEF s, o
  <2>4. g[s] \in Int /\ g[s] = real_g[s] /\ Cost[o] \in Nat
    BY <2>3, SearchAssumption
    DEF NodeTypeOK, CostOK, Reached, Applicable
  <2>5. WithinBound(s, o)
    <3>1. mode.bound \in Nat /\ cost[m - 1] \in Nat
      BY <1>1, <2>2, SearchAssumption DEF TypeOK, ControlTypeOK, Mode
    <3> QED  BY <2>3, <2>4, <3>1 DEF WithinBound
  <2>6. Settled(s, o)
    BY <1>4, <2>3, <2>5
  <2>7. Reached(path[m]) /\ g[path[m]] <= g[s] + Cost[o]
    BY <1>1, <2>2, <2>3, <2>6 DEF Settled
  <2>8. Fine(m)
    <3>1. status[path[m]] = "closed"
      BY <1>1, <1>3, <2>2, <2>7
    <3>2. g[path[m]] \in Int /\ cost[m - 1] \in Nat
      BY <1>1, <2>2 DEF NodeTypeOK
    <3> QED  BY <2>3, <2>4, <2>7, <3>1, <3>2
  <2> QED  BY <2>1, <2>8
<1>7. Fine(n)
  BY <1>6
<1> QED  BY <1>1, <1>4, <1>7

(* When a search that reopens has said "completely explored", there is no  *)
(* plan below the bound through states that are neither dead ends nor      *)
(* violate the constraint, whatever the answers injected and in whatever   *)
(* order they came (fetch_next_node).                                      *)
THEOREM NothingMissed == Spec => []NoPlanMissed
<1>1. TypeOK /\ ReachedOK /\ CostOK /\ ClosedNodesSettled /\ NothingLeft
          => NoPlanMissed
  BY SettledMeansNoPlan DEF NoPlanMissed
<1> QED
  BY <1>1, TypeCorrect, ReachedInvariant, CostInvariant, ClosedStaySettled,
     NothingLeftInvariant, PTL

----------------------------------------------------------------------------
(* The plan of a solved search.                                            *)

SolvedOK ==
    solution_found =>
        /\ pc \in {"deadline", "done"} /\ engine \in {"solved", "timeout"}
        /\ cur \in States /\ Reached(cur)

LEMMA SolvedInvariant == Spec => []SolvedOK
<1>1. Init => SolvedOK
  BY DEF Init, SolvedOK
<1>2. TypeOK /\ PointOK /\ ReachedOK /\ EngineOK /\ SolvedOK /\ [Next]_vars
          => SolvedOK'
  <2> SUFFICES ASSUME TypeOK, PointOK, ReachedOK, EngineOK, SolvedOK,
                      [Next]_vars, solution_found'
               PROVE  SolvedOK'
    BY DEF SolvedOK
  <2>1. CASE GoalReached
    <3>1. cur \in States /\ Reached(cur)
      BY <2>1 DEF GoalReached, PointOK, ReachedOK
    <3>2. /\ UNCHANGED <<cur, status>>
          /\ pc' = "deadline" /\ engine' = "solved"
      BY <2>1 DEF GoalReached, nodeVars, cursorVars
    <3> QED  BY <3>1, <3>2 DEF SolvedOK, Reached
  <2>2. CASE ~GoalReached
    <3>1. /\ solution_found /\ UNCHANGED <<status, cur>>
          /\ pc' \in {"deadline", "done"} /\ engine' \in {"solved", "timeout"}
      BY <2>2
      DEF EngineOK, SolvedOK,
         Next, SearchThread, PollSteps, FetchSteps, StepSteps, Ended, vars,
         nodeVars, engineVars, cursorVars, Initialize, CheckDeadline,
         PollBridge, TakeResponse, ResponsesDone, StartChain, InjectAction,
         EndChain, FinishResponse, WaitForPending, Exhausted, PopDiscarded,
         PopSuspended, PopExpanded, RemoveMin, Trigger, StartExpansion,
         GenerateSuccessor, EndExpansion, Complete
    <3> QED  BY <3>1 DEF SolvedOK, Reached
  <2> QED  BY <2>1, <2>2
<1> QED
  BY <1>1, <1>2, TypeCorrect, ReachedInvariant, EngineInvariant, PTL DEF Spec

(* trace_path: from the goal over the parent pointers to the initial       *)
(* state; cost[i] is the real cost of the last i operators of the plan.    *)
IsTrace(n, path, cost) ==
    /\ path \in [0..n -> States] /\ cost \in [0..n -> Int]
    /\ path[0] = cur /\ path[n] = InitState /\ cost[0] = 0
    /\ \A i \in 1..n : /\ path[i - 1] # InitState
                       /\ path[i] = parent[path[i - 1]]
                       /\ cost[i] = cost[i - 1] + Cost[via[path[i - 1]]]

TraceBeatsBound ==
    ExactCosts /\ solution_found /\ cur # InitState =>
        \A n \in Nat : \A path, cost :
            IsTrace(n, path, cost) => cost[n] < mode.bound

(* Along the trace, cost so far plus g of the state never exceeds the g of *)
(* the goal: take the first place where it would.                          *)
LEMMA CertifiedMeansCheap ==
  ASSUME TypeOK, ReachedOK, CostOK, SolvedOK, ExactCosts, solution_found,
         cur # InitState, NEW n \in Nat, NEW path, NEW cost,
         IsTrace(n, path, cost)
  PROVE  cost[n] < mode.bound
<1> DEFINE Fine(i) == /\ Reached(path[i])
                      /\ cost[i] + real_g[path[i]] <= real_g[cur]
           Bad == {i \in 0..n : ~Fine(i)}
<1>1. \A s \in States : real_g[s] \in Int
  BY DEF TypeOK, NodeTypeOK
<1>2. Fine(0) /\ cur \in States
  BY <1>1 DEF IsTrace, SolvedOK
<1>3. ASSUME Bad # {}
      PROVE  FALSE
  <2>1. PICK m \in Bad : \A k \in Bad : m <= k
    <3>1. Bad \subseteq Nat
      OBVIOUS
    <3> HIDE DEF Bad
    <3> QED  BY <1>3, <3>1, LeastNat
  <2>2. m \in 1..n /\ m - 1 \in 0..n /\ Fine(m - 1)
    BY <1>2, <2>1
  <2> DEFINE s == path[m - 1]
  <2>3. /\ s \in States /\ s # InitState /\ Reached(s)
        /\ cost[m - 1] \in Int /\ cost[m - 1] + real_g[s] <= real_g[cur]
        /\ path[m] = parent[s] /\ cost[m] = cost[m - 1] + Cost[via[s]]
    BY <2>2 DEF IsTrace
  <2> HIDE DEF s
  <2>4. CertifiedByParent(s)
    BY <2>3 DEF CostOK
  <2>5. Cost[via[s]] \in Nat /\ parent[s] \in States
    BY <2>4, SearchAssumption DEF CertifiedByParent, Applicable
  <2>6. Fine(m)
    BY <1>1, <1>2, <2>3, <2>4, <2>5 DEF CertifiedByParent
  <2> QED  BY <2>1, <2>6
<1>4. Fine(n) /\ path[n] = InitState /\ cost[n] \in Int
  BY <1>3 DEF IsTrace
<1>5. real_g[InitState] = 0
  BY <1>4, SearchAssumption DEF CostOK
<1>6. mode.bound \in Nat
  BY SearchAssumption DEF TypeOK, ControlTypeOK, Mode
<1>7. real_g[cur] < mode.bound
  BY <1>2 DEF CostOK, CertifiedByParent, SolvedOK
<1> HIDE DEF Bad
<1> QED  BY <1>1, <1>2, <1>4, <1>5, <1>6, <1>7

(* The plan that trace_path collects costs less than the bound the phase   *)
(* ran with, although nodes of it may have been re-parented since they     *)
(* were reached.                                                           *)
THEOREM TracedPlansBeatTheBound == Spec => []TraceBeatsBound
<1>1. TypeOK /\ ReachedOK /\ CostOK /\ SolvedOK => TraceBeatsBound
  BY CertifiedMeansCheap DEF TraceBeatsBound
<1> QED
  BY <1>1, TypeCorrect, ReachedInvariant, CostInvariant, SolvedInvariant, PTL

----------------------------------------------------------------------------
(* The parent pointers, whatever the costs, the cost_type and the options. *)

(* Parents and children are reached nodes, a parent's g is not above its   *)
(* child's, and the initial state has none.  A g is a whole number of      *)
(* units.  A node without a parent has no operator.                        *)
PointersOK ==
    /\ parent[InitState] = NoState
    /\ Reached(InitState) => g[InitState] = 0
    /\ \A s \in States : Reached(s) => \E q \in Nat : g[s] = q * Unit
    /\ \A s \in States : parent[s] = NoState => via[s] = NoOp
    /\ \A s \in States : parent[s] # NoState =>
           /\ Reached(s) /\ Reached(parent[s])
           /\ via[s] \in Ops
           /\ g[parent[s]] <= g[s]

(* Every set of states has one whose parent is not in it: the pointers do  *)
(* not run in a circle.                                                    *)
NoCircle == \A C \in SUBSET States : C # {} => \E s \in C : parent[s] \notin C

(* Cutting off a fraction of a sum does not go below the first term.       *)
LEMMA StoredWhole ==
  ASSUME NEW q \in Nat, NEW a \in Nat
  PROVE  \E r \in Nat : Stored(q * Unit + a) = r * Unit
                        /\ q * Unit <= r * Unit /\ r * Unit <= q * Unit + a
<1> DEFINE x == q * Unit + a
           r == x \div Unit
<1>1. Unit \in Nat /\ Unit > 0
  BY SearchAssumption
<1>2. q * Unit \in Nat /\ x \in Nat
  BY <1>1
<1>3. r \in Int /\ x % Unit \in 0..(Unit - 1) /\ x = Unit * r + (x % Unit)
  <2> HIDE DEF x
  <2> QED  BY <1>1, <1>2
<1> HIDE DEF r
<1>4. r * Unit <= x
  BY <1>1, <1>2, <1>3
<1>5. ASSUME r < q
      PROVE  FALSE
  <2>1. r + 1 <= q
    BY <1>3, <1>5
  <2>2. (r + 1) * Unit <= q * Unit
    BY <1>1, <1>3, <2>1
  <2>3. (r + 1) * Unit = Unit * r + Unit
    BY <1>1, <1>3
  <2> QED  BY <1>1, <1>2, <1>3, <2>2, <2>3
<1>6. q <= r /\ r \in Nat
  BY <1>3, <1>5
<1>7. q * Unit <= r * Unit
  BY <1>1, <1>3, <1>6
<1>8. Stored(x) = r * Unit
  BY DEF Stored, r
<1> QED  BY <1>4, <1>6, <1>7, <1>8

(* The pointers after t was given the parent p, because t was new or is    *)
(* reached at a lower g: a set that now is closed under the pointers       *)
(* contains t and p, and the part of it that lay below t was closed        *)
(* before.                                                                 *)
LEMMA ReachKeepsTree ==
  ASSUME NodeTypeOK, ReachedOK, PointersOK, NoCircle,
         NEW p \in States, Reached(p), NEW o \in Ops, NEW t \in States,
         NEW st \in {"open", "closed"}, Reach(t, p, o, st),
         status[t] = "new" \/ (Reached(t) /\ g[t] > g[p] + AdjCost[o])
  PROVE  PointersOK' /\ NoCircle'
<1> USE SearchAssumption DEF NodeTypeOK
<1>1. AdjCost[o] \in Nat /\ \A s \in States : g[s] \in Int
  OBVIOUS
<1>2. /\ status' = [status EXCEPT ![t] = st]
      /\ parent' = [parent EXCEPT ![t] = p]
      /\ via' = [via EXCEPT ![t] = o]
      /\ g' = [g EXCEPT ![t] = Stored(g[p] + AdjCost[o])]
  BY DEF Reach
<1>3. PICK r \in Nat : /\ Stored(g[p] + AdjCost[o]) = r * Unit
                       /\ g[p] <= r * Unit
                       /\ r * Unit <= g[p] + AdjCost[o]
  <2>1. PICK q \in Nat : g[p] = q * Unit
    BY DEF PointersOK
  <2> QED  BY <1>1, <2>1, StoredWhole
<1>4. /\ g'[t] = r * Unit /\ parent'[t] = p /\ via'[t] = o
      /\ Reached(t)'
      /\ \A s \in States \ {t} : /\ g'[s] = g[s] /\ parent'[s] = parent[s]
                                 /\ via'[s] = via[s] /\ (Reached(s)' <=> Reached(s))
  BY <1>2, <1>3 DEF Reached
<1>5. Reached(InitState) /\ g[InitState] = 0
  BY DEF ReachedOK, PointersOK
<1>6. t # p
  BY <1>1 DEF Reached
<1>7. t # InitState
  <2>1. PICK q \in Nat : g[p] = q * Unit
    BY DEF PointersOK
  <2>2. g[p] >= 0
    BY <2>1
  <2> QED  BY <1>1, <1>5, <2>2 DEF Reached
<1>8. r * Unit \in Int
  BY <1>1, <1>3
<1>9. Reached(t) => g'[t] < g[t]
  BY <1>1, <1>3, <1>4, <1>8 DEF Reached
<1>10. PointersOK'
  <2>1. parent'[InitState] = NoState /\ g'[InitState] = 0
    BY <1>4, <1>5, <1>7 DEF PointersOK
  <2>2. \A s \in States : Reached(s)' => \E q \in Nat : g'[s] = q * Unit
    <3>1. \A s \in States : Reached(s) => \E q \in Nat : g[s] = q * Unit
      BY DEF PointersOK
    <3>2. \A s \in States : s = t => \E q \in Nat : g'[s] = q * Unit
      BY <1>3, <1>4
    <3> QED  BY <1>4, <3>1, <3>2
  <2>3. ASSUME NEW s \in States, parent'[s] # NoState
        PROVE  /\ Reached(s)' /\ (Reached(parent[s]))'
               /\ via'[s] \in Ops /\ g'[parent'[s]] <= g'[s]
    <3>1. CASE s = t
      BY <1>3, <1>4, <1>6, <3>1 DEF Reached
    <3>2. CASE s # t
      <4>1. /\ parent'[s] = parent[s] /\ Reached(s) /\ Reached(parent[s])
            /\ via[s] \in Ops /\ g[parent[s]] <= g[s] /\ g'[s] = g[s]
            /\ parent[s] \in States
        BY <1>4, <2>3, <3>2 DEF PointersOK
      <4>2. (Reached(parent[s]))'
        BY <1>4, <4>1 DEF Reached
      <4>3. g'[parent[s]] <= g[parent[s]]
        BY <1>1, <1>4, <1>9, <4>1
      <4>4. g'[parent[s]] \in Int
        BY <1>1, <1>4, <1>8, <4>1
      <4> QED  BY <1>1, <1>4, <3>2, <4>1, <4>2, <4>3, <4>4
    <3> QED  BY <3>1, <3>2
  <2>4. ASSUME NEW s \in States, parent'[s] = NoState
        PROVE  via'[s] = NoOp
    <3>1. s # t
      BY <1>4, <2>4
    <3> QED  BY <1>4, <2>4, <3>1 DEF PointersOK
  <2> QED  BY <2>1, <2>2, <2>3, <2>4 DEF PointersOK
<1>11. ASSUME NEW C \in SUBSET States, C # {},
              \A s \in C : parent'[s] \in C
       PROVE  FALSE
  <2>1. \A s \in C \ {t} : parent[s] \in C
    BY <1>4, <1>11
  <2>2. t \in C
    BY <1>11, <2>1 DEF NoCircle
  <2>3. p \in C
    BY <1>4, <1>11, <2>2
  <2>4. CASE status[t] = "new"
    <3> DEFINE D == C \ {t}
    <3>1. \A s \in D : parent[s] \in D
      <4>1. ~Reached(t)
        BY <2>4 DEF Reached
      <4>2. \A s \in D : parent[s] # NoState
        BY <2>1
      <4> QED  BY <2>1, <4>1, <4>2 DEF PointersOK
    <3>2. p \in D /\ D \in SUBSET States
      BY <1>6, <2>3
    <3> HIDE DEF D
    <3> QED  BY <3>1, <3>2 DEF NoCircle
  <2>5. CASE Reached(t) /\ g[t] > g[p] + AdjCost[o]
    <3> DEFINE D == {s \in C \ {t} : g[s] < g[t]}
    <3>1. p \in D
      BY <1>1, <1>6, <2>3, <2>5
    <3>2. ASSUME NEW s \in D
          PROVE  parent[s] \in D
      <4>1. parent[s] \in C /\ s \in States /\ parent[s] \in States
        BY <2>1
      <4>2. g[parent[s]] <= g[s]
        BY <4>1 DEF PointersOK
      <4>3. g[parent[s]] < g[t]
        BY <1>1, <4>1, <4>2
      <4> QED  BY <1>1, <4>1, <4>3
    <3>3. D \in SUBSET States
      OBVIOUS
    <3> HIDE DEF D
    <3> QED  BY <3>1, <3>2, <3>3 DEF NoCircle
  <2> QED  BY <2>4, <2>5
<1> QED  BY <1>10, <1>11 DEF NoCircle

LEMMA RelaxTree ==
  ASSUME NodeTypeOK, ReachedOK, PointersOK, NoCircle,
         NEW p \in States, Reached(p), NEW o \in Applicable(p),
         Relax(p, o, Succ[<<p, o>>])
  PROVE  PointersOK' /\ NoCircle'
<1> DEFINE t == Succ[<<p, o>>]
<1>1. t \in States /\ o \in Ops
  BY SuccType
<1> HIDE DEF t
<1>2. Relax(p, o, t)
  BY DEF t
<1>3. CASE UNCHANGED nodeVars
  BY <1>3 DEF nodeVars, PointersOK, NoCircle, Reached
<1>4. CASE status[t] = "new" /\ MarkDead(t)
  <2>1. \A s \in States : Reached(s)' <=> Reached(s)
    BY <1>1, <1>4 DEF MarkDead, Reached, NodeTypeOK
  <2>2. UNCHANGED <<g, parent, via>>
    BY <1>4 DEF MarkDead
  <2>3. \A s \in States : parent[s] # NoState => parent[s] \in States
    BY DEF NodeTypeOK
  <2> QED
    BY <2>1, <2>2, <2>3, SearchAssumption
    DEF PointersOK, NoCircle, Reached
<1>5. ASSUME NEW st \in {"open", "closed"}, Reach(t, p, o, st),
             status[t] = "new" \/ (Reached(t) /\ g[t] > g[p] + AdjCost[o])
      PROVE  PointersOK' /\ NoCircle'
  BY <1>1, <1>5, ReachKeepsTree
<1> QED  BY <1>1, <1>2, <1>3, <1>4, <1>5, RelaxImproves

LEMMA TreeInit == Init => PointersOK /\ NoCircle
<1> SUFFICES ASSUME Init
             PROVE  PointersOK /\ NoCircle
  OBVIOUS
<1>1. \A s \in States : parent[s] = NoState /\ via[s] = NoOp /\ ~Reached(s)
  BY DEF Init, Reached
<1> QED  BY <1>1, SearchAssumption DEF PointersOK, NoCircle

LEMMA TreeStep ==
  ASSUME TypeOK, PointOK, ReachedOK, PointersOK, NoCircle, [Next]_vars
  PROVE  PointersOK' /\ NoCircle'
<1> NodeTypeOK
  BY DEF TypeOK
<1>1. CASE /\ \A s \in States : Reached(s)' <=> Reached(s)
           /\ UNCHANGED <<g, parent, via>>
  <2>1. \A s \in States : parent[s] # NoState => parent[s] \in States
    BY DEF NodeTypeOK
  <2> QED
    BY <1>1, <2>1, SearchAssumption DEF PointersOK, NoCircle, Reached
<1>2. CASE UNCHANGED nodeVars
  BY <1>1, <1>2 DEF nodeVars, Reached
<1>3. CASE Initialize /\ InitState \notin DeadEnds
  <2>1. \A s \in States : ~Reached(s)
    BY <1>3 DEF Initialize, ReachedOK, Reached
  <2>2. \A s \in States : parent[s] = NoState
    BY <2>1 DEF PointersOK
  <2>3. UNCHANGED <<parent, via>>
    BY <1>3 DEF Initialize
  <2>4. \A s \in States : Reached(s)' => s = InitState
    BY <1>3, <2>1 DEF Initialize, Reached, NodeTypeOK
  <2>5. g'[InitState] = 0
    BY <1>3, SearchAssumption DEF Initialize, NodeTypeOK
  <2>6. 0 = 0 * Unit
    BY SearchAssumption
  <2> QED
    BY <2>2, <2>3, <2>4, <2>5, <2>6, SearchAssumption
    DEF PointersOK, NoCircle
<1>4. ASSUME NEW o \in Ops, InjectAction(o)
      PROVE  PointersOK' /\ NoCircle'
  BY <1>4, RelaxTree DEF InjectAction, PointOK, ReachedOK
<1>5. CASE FinishResponse
  <2>1. source \in States /\ source \notin DeadEnds
    BY <1>5 DEF FinishResponse, PointOK, ReachedOK
  <2>2. UNCHANGED <<status, g, parent, via>>
    BY <1>5, <2>1 DEF FinishResponse, nodeVars
  <2> QED  BY <1>1, <2>2 DEF Reached
<1>6. ASSUME NEW s \in States,
             PopDiscarded(s) \/ PopSuspended(s) \/ PopExpanded(s)
      PROVE  PointersOK' /\ NoCircle'
  <2>1. UNCHANGED <<g, parent, via>>
    BY <1>6 DEF PopDiscarded, PopSuspended, PopExpanded
  <2>2. Reached(s)
    BY <1>6 DEF PopDiscarded, PopSuspended, PopExpanded, RemoveMin, ReachedOK
  <2>3. \A u \in States : Reached(u)' <=> Reached(u)
    BY <1>6, <2>2
    DEF PopDiscarded, PopSuspended, PopExpanded, Reached, NodeTypeOK
  <2> QED  BY <1>1, <2>1, <2>3
<1>7. ASSUME NEW o \in Ops, GenerateSuccessor(o)
      PROVE  PointersOK' /\ NoCircle'
  <2>1. cur \in States /\ Reached(cur) /\ o \in Applicable(cur)
    BY <1>7 DEF GenerateSuccessor, PointOK, ReachedOK
  <2>2. CASE WithinBound(cur, o)
    BY <1>7, <2>1, <2>2, RelaxTree DEF GenerateSuccessor
  <2>3. CASE ~WithinBound(cur, o)
    BY <1>2, <1>7, <2>3 DEF GenerateSuccessor
  <2> QED  BY <2>2, <2>3
<1> QED
  BY <1>2, <1>3, <1>4, <1>5, <1>6, <1>7
  DEF Next, SearchThread, PollSteps, FetchSteps, StepSteps, Ended, vars,
      Initialize, CheckDeadline, PollBridge, TakeResponse, ResponsesDone,
      StartChain, EndChain, WaitForPending, Exhausted, Trigger, GoalReached,
      StartExpansion, EndExpansion, Complete

LEMMA TreeInvariant == Spec => [](PointersOK /\ NoCircle)
<1> QED  BY TreeInit, TreeStep, TypeCorrect, ReachedInvariant, PTL DEF Spec

----------------------------------------------------------------------------
(* What the recursive functions of HybridSearch are.                       *)

(* A step function has iterates from every start.                          *)
IsStart(n, h, v0, St) == h[0] = v0 /\ \A i \in 1..n : h[i] = St[h[i - 1]]

LEMMA StartsAgree ==
  ASSUME NEW V, NEW v0 \in V, NEW St \in [V -> V],
         NEW m \in Nat, NEW n \in Nat, m <= n, NEW h, NEW k,
         IsStart(m, h, v0, St), IsStart(n, k, v0, St)
  PROVE  h[m] = k[m]
<1> DEFINE Bad == {i \in 0..m : h[i] # k[i]}
<1>1. ASSUME Bad # {}
      PROVE  FALSE
  <2>1. PICK i \in Bad : \A j \in Bad : i <= j
    <3>1. Bad \subseteq Nat
      OBVIOUS
    <3> HIDE DEF Bad
    <3> QED  BY <1>1, <3>1, LeastNat
  <2>2. i # 0
    BY <2>1 DEF IsStart
  <2>3. i \in 1..m /\ i \in 1..n /\ i - 1 \in 0..m
    BY <2>1, <2>2
  <2>4. h[i - 1] = k[i - 1]
    BY <2>1, <2>3
  <2>5. h[i] = k[i]
    BY <2>3, <2>4 DEF IsStart
  <2> QED  BY <2>1, <2>5
<1> QED  BY <1>1

LEMMA StartsExist ==
  ASSUME NEW V, NEW v0 \in V, NEW St \in [V -> V], NEW n \in Nat
  PROVE  \E h \in [0..n -> V] : IsStart(n, h, v0, St)
<1> DEFINE Has(m) == \E h \in [0..m -> V] : IsStart(m, h, v0, St)
           Bad == {m \in Nat : ~Has(m)}
<1>1. ASSUME Bad # {}
      PROVE  FALSE
  <2>1. PICK m \in Bad : \A j \in Bad : m <= j
    <3>1. Bad \subseteq Nat
      OBVIOUS
    <3> HIDE DEF Bad
    <3> QED  BY <1>1, <3>1, LeastNat
  <2>2. m # 0
    <3>1. [i \in 0..0 |-> v0] \in [0..0 -> V]
          /\ IsStart(0, [i \in 0..0 |-> v0], v0, St)
      BY DEF IsStart
    <3> QED  BY <2>1, <3>1
  <2>3. m - 1 \in Nat /\ m \in Nat /\ m - 1 \notin Bad
    BY <2>1, <2>2
  <2>4. PICK h \in [0..(m - 1) -> V] : IsStart(m - 1, h, v0, St)
    BY <2>3
  <2> DEFINE k == [i \in 0..m |-> IF i = m THEN St[h[m - 1]] ELSE h[i]]
  <2>5. h[m - 1] \in V /\ St[h[m - 1]] \in V
    BY <2>3
  <2>6. k \in [0..m -> V]
    BY <2>3, <2>5
  <2>7. k[0] = v0
    BY <2>2, <2>3, <2>4 DEF IsStart
  <2>8. ASSUME NEW i \in 1..m
        PROVE  k[i] = St[k[i - 1]]
    <3>1. CASE i = m
      BY <2>3, <3>1
    <3>2. CASE i # m
      <4>1. i \in 1..(m - 1) /\ i - 1 \in 0..(m - 1) /\ i \in 0..m /\ i - 1 # m
        BY <2>3, <3>2
      <4>2. h[i] = St[h[i - 1]]
        BY <2>4, <4>1 DEF IsStart
      <4> QED  BY <2>3, <3>2, <4>1, <4>2
    <3> QED  BY <3>1, <3>2
  <2> HIDE DEF k
  <2>9. Has(m)
    BY <2>6, <2>7, <2>8 DEF IsStart
  <2> QED  BY <2>1, <2>9
<1> QED  BY <1>1

LEMMA Iterates ==
  \A V : \A v0 \in V : \A St \in [V -> V] :
      \E F \in [Nat -> V] : F[0] = v0 /\ \A i \in Nat : F[i + 1] = St[F[i]]
<1> SUFFICES ASSUME NEW V, NEW v0 \in V, NEW St \in [V -> V]
             PROVE  \E F \in [Nat -> V] :
                        F[0] = v0 /\ \A i \in Nat : F[i + 1] = St[F[i]]
  OBVIOUS
<1> DEFINE H(n) == CHOOSE h \in [0..n -> V] : IsStart(n, h, v0, St)
           F == [n \in Nat |-> H(n)[n]]
<1>1. ASSUME NEW n \in Nat
      PROVE  H(n) \in [0..n -> V] /\ IsStart(n, H(n), v0, St)
  BY StartsExist
<1> HIDE DEF H
<1>2. F \in [Nat -> V]
  BY <1>1
<1>3. F[0] = v0
  BY <1>1 DEF IsStart
<1>4. ASSUME NEW i \in Nat
      PROVE  F[i + 1] = St[F[i]]
  <2>1. i + 1 \in Nat /\ i + 1 \in 1..(i + 1) /\ (i + 1) - 1 = i
    OBVIOUS
  <2>2. H(i + 1)[i + 1] = St[H(i + 1)[i]]
    BY <1>1, <2>1 DEF IsStart
  <2>3. H(i)[i] = H(i + 1)[i]
    BY <1>1, <2>1, StartsAgree
  <2> QED  BY <2>1, <2>2, <2>3
<1> HIDE DEF F
<1> QED  BY <1>2, <1>3, <1>4

(* One more step of trace_path.                                            *)
TraceStep(h) ==
    [s \in States |->
        IF parent[s] = NoState THEN 0
        ELSE IF h[parent[s]] = Unending THEN Unending
        ELSE h[parent[s]] + Cost[via[s]]]

(* Traced is the function its definition describes.                        *)
LEMMA TracedIs ==
  ASSUME NodeTypeOK, PointersOK
  PROVE  /\ Traced \in [Nat -> [States -> Nat \cup {Unending}]]
         /\ Traced[0] = [s \in States |-> IF parent[s] = NoState THEN 0
                                          ELSE Unending]
         /\ \A k \in Nat : Traced[k + 1] = TraceStep(Traced[k])
<1> DEFINE V == [States -> Nat \cup {Unending}]
           v0 == [s \in States |-> IF parent[s] = NoState THEN 0 ELSE Unending]
           St == [h \in V |-> TraceStep(h)]
<1>1. v0 \in V
  BY DEF Unending
<1>2. \A s \in States : parent[s] # NoState =>
          parent[s] \in States /\ Cost[via[s]] \in Nat
  <2>1. \A s \in States : parent[s] # NoState => parent[s] \in States
    BY DEF NodeTypeOK
  <2>2. \A s \in States : parent[s] # NoState => via[s] \in Ops
    BY DEF PointersOK
  <2>3. \A o \in Ops : Cost[o] \in Nat
    BY SearchAssumption
  <2> QED  BY <2>1, <2>2, <2>3
<1>3. \A h \in V : TraceStep(h) \in V
  <2> SUFFICES ASSUME NEW h \in V, NEW s \in States, parent[s] # NoState
               PROVE  (IF h[parent[s]] = Unending THEN Unending
                       ELSE h[parent[s]] + Cost[via[s]]) \in Nat \cup {Unending}
    BY DEF TraceStep
  <2> QED  BY <1>2
<1>4. St \in [V -> V] /\ \A h \in V : St[h] = TraceStep(h)
  BY <1>3
<1> HIDE DEF V, v0, St
<1>5. PICK F \in [Nat -> V] : F[0] = v0 /\ \A i \in Nat : F[i + 1] = St[F[i]]
  <2>1. St \in [V -> V]
    BY <1>4
  <2> QED  BY ONLY <1>1, <2>1, Iterates
<1> DEFINE Body(T, k) ==
               [s \in States |->
                   IF parent[s] = NoState THEN 0
                   ELSE IF k = 0 \/ T[k - 1][parent[s]] = Unending THEN Unending
                   ELSE T[k - 1][parent[s]] + Cost[via[s]]]
<1>6. ASSUME NEW T, NEW k \in Nat
      PROVE  Body(T, k) = IF k = 0 THEN v0 ELSE TraceStep(T[k - 1])
  BY DEF v0, TraceStep
<1> HIDE DEF Body
<1>7. F = [k \in Nat |-> Body(F, k)]
  <2>1. ASSUME NEW k \in Nat
        PROVE  F[k] = Body(F, k)
    <3>1. CASE k = 0
      BY <1>5, <1>6, <3>1
    <3>2. CASE k # 0
      <4>1. k - 1 \in Nat /\ (k - 1) + 1 = k
        BY <3>2
      <4>2. F[k] = St[F[k - 1]] /\ F[k - 1] \in V
        BY <1>5, <4>1
      <4> QED  BY <1>4, <1>6, <3>2, <4>2
    <3> QED  BY <3>1, <3>2
  <2> QED  BY <2>1
<1>8. Traced = [k \in Nat |-> Body(Traced, k)]
  <2>1. Traced = CHOOSE T : T = [k \in Nat |-> Body(T, k)]
    BY DEF Traced, Body
  <2>2. \E T : T = [k \in Nat |-> Body(T, k)]
    BY <1>7
  <2> QED  BY <2>1, <2>2
<1>9. Traced[0] = v0 /\ \A k \in Nat : Traced[k + 1] = TraceStep(Traced[k])
  <2>1. Traced[0] = v0
    BY <1>6, <1>8
  <2>2. ASSUME NEW k \in Nat
        PROVE  Traced[k + 1] = TraceStep(Traced[k])
    <3>1. k + 1 \in Nat /\ k + 1 # 0 /\ (k + 1) - 1 = k
      OBVIOUS
    <3> QED  BY <1>6, <1>8, <3>1
  <2> QED  BY <2>1, <2>2
<1>10. Traced \in [Nat -> V]
  <2> DEFINE Bad == {k \in Nat : Traced[k] \notin V}
  <2>1. ASSUME Bad # {}
        PROVE  FALSE
    <3>1. PICK k \in Bad : \A j \in Bad : k <= j
      <4>1. Bad \subseteq Nat
        OBVIOUS
      <4> HIDE DEF Bad
      <4> QED  BY <2>1, <4>1, LeastNat
    <3>2. k # 0
      BY <1>1, <1>9, <3>1
    <3>3. k - 1 \in Nat /\ k - 1 \notin Bad /\ (k - 1) + 1 = k
      BY <3>1, <3>2
    <3>4. Traced[k] = TraceStep(Traced[k - 1]) /\ Traced[k - 1] \in V
      BY <1>9, <3>3
    <3> QED  BY <1>3, <3>1, <3>4
  <2>2. \A k \in Nat : Traced[k] \in V
    BY <2>1
  <2> HIDE DEF Bad
  <2> QED  BY <1>8, <2>2
<1> QED  BY <1>9, <1>10 DEF V, v0

(* trace_path comes to an end within as many steps as there are states:    *)
(* the states from which it has not ended after k steps get fewer with k,  *)
(* since a set that does not shrink would be closed under the pointers.    *)
LEMMA TraceEnds ==
  ASSUME NodeTypeOK, PointersOK, NoCircle, IsFiniteSet(States)
  PROVE  \A s \in States : PlanCost(s) # Unending
<1> DEFINE N == Cardinality(States)
           D(k) == {u \in States : Traced[k][u] = Unending}
           Within(k) == Cardinality(D(k)) <= N - k
<1>1. N \in Nat /\ \A k \in Nat : /\ D(k) \in SUBSET States
                                  /\ IsFiniteSet(D(k))
                                  /\ Cardinality(D(k)) \in Nat
                                  /\ Cardinality(D(k)) <= N
  <2>1. N \in Nat
    BY FS_CardinalityType
  <2>2. ASSUME NEW k \in Nat
        PROVE  /\ D(k) \in SUBSET States
               /\ IsFiniteSet(D(k))
               /\ Cardinality(D(k)) \in Nat
               /\ Cardinality(D(k)) <= N
    <3>1. D(k) \in SUBSET States
      OBVIOUS
    <3> HIDE DEF D
    <3> QED  BY <3>1, FS_CardinalityType, FS_Subset
  <2> QED  BY <2>1, <2>2
<1>2. ASSUME NEW k \in Nat, NEW u \in States
      PROVE  u \in D(k + 1) <=> parent[u] \in D(k)
  <2>1. k + 1 \in Nat /\ Traced[k + 1][u] = TraceStep(Traced[k])[u]
    BY TracedIs
  <2>2. CASE parent[u] = NoState
    <3>1. Traced[k + 1][u] = 0 /\ parent[u] \notin States
      BY <2>1, <2>2, SearchAssumption DEF TraceStep
    <3> QED  BY <3>1 DEF Unending
  <2>3. CASE parent[u] # NoState
    <3>1. parent[u] \in States
      BY <2>3 DEF NodeTypeOK
    <3>2. Cost[via[u]] \in Nat
      BY <2>3, SearchAssumption DEF PointersOK
    <3>3. Traced[k] \in [States -> Nat \cup {Unending}]
      BY TracedIs
    <3>4. Traced[k][parent[u]] \in Nat \cup {Unending}
      BY <3>1, <3>3
    <3>5. Traced[k + 1][u] = IF Traced[k][parent[u]] = Unending THEN Unending
                             ELSE Traced[k][parent[u]] + Cost[via[u]]
      BY <2>1, <2>3 DEF TraceStep
    <3>6. Traced[k + 1][u] = Unending <=> Traced[k][parent[u]] = Unending
      BY <3>2, <3>4, <3>5 DEF Unending
    <3> QED  BY <3>1, <3>6
  <2> QED  BY <2>2, <2>3
<1>3. D(1) \subseteq D(0)
  <2> SUFFICES ASSUME NEW u \in States, u \in D(0 + 1)
               PROVE  u \in D(0)
    OBVIOUS
  <2>1. parent[u] \in D(0)
    BY <1>2
  <2>2. parent[u] # NoState
    BY <2>1, SearchAssumption
  <2>3. Traced[0][u] = Unending
    BY <2>2, TracedIs
  <2> QED  BY <2>3
<1> HIDE DEF D
<1>4. \A k \in Nat : D(k + 1) \subseteq D(k)
  <2> DEFINE Bad == {k \in Nat : ~(D(k + 1) \subseteq D(k))}
  <2>1. ASSUME Bad # {}
        PROVE  FALSE
    <3>1. PICK k \in Bad : \A j \in Bad : k <= j
      <4>1. Bad \subseteq Nat
        OBVIOUS
      <4> HIDE DEF Bad
      <4> QED  BY <2>1, <4>1, LeastNat
    <3>2. k # 0 /\ k \in Nat
      BY <1>3, <3>1
    <3>3. k - 1 \in Nat /\ k - 1 \notin Bad /\ (k - 1) + 1 = k
      BY <3>1, <3>2
    <3>4. D(k) \subseteq D(k - 1)
      BY <3>3
    <3>5. ASSUME NEW u \in D(k + 1)
          PROVE  u \in D(k)
      <4>1. u \in States
        BY <1>1, <3>2
      <4>2. parent[u] \in D(k)
        BY <1>2, <3>2, <4>1
      <4>3. parent[u] \in D(k - 1)
        BY <3>4, <4>2
      <4>4. u \in D((k - 1) + 1)
        BY <1>2, <3>3, <4>1, <4>3
      <4> QED  BY <3>3, <4>4
    <3> QED  BY <3>1, <3>5
  <2> QED  BY <2>1
<1>5. ASSUME NEW k \in Nat, D(k) # {}
      PROVE  Cardinality(D(k + 1)) < Cardinality(D(k))
  <2>1. PICK u \in D(k) : parent[u] \notin D(k)
    BY <1>1, <1>5 DEF NoCircle
  <2>2. u \notin D(k + 1)
    BY <1>1, <1>2, <2>1
  <2>3. D(k + 1) \in SUBSET D(k) /\ D(k + 1) # D(k)
    BY <1>4, <2>1, <2>2
  <2>4. /\ Cardinality(D(k + 1)) <= Cardinality(D(k))
        /\ Cardinality(D(k + 1)) # Cardinality(D(k))
    BY <1>1, <2>3, FS_Subset
  <2> QED  BY <1>1, <2>4
<1>6. \A k \in 0..N : Within(k)
  <2> DEFINE Bad == {k \in 0..N : ~Within(k)}
  <2>1. ASSUME Bad # {}
        PROVE  FALSE
    <3>1. PICK k \in Bad : \A j \in Bad : k <= j
      <4>1. Bad \subseteq Nat
        BY <1>1
      <4> HIDE DEF Bad
      <4> QED  BY <2>1, <4>1, LeastNat
    <3>2. k # 0 /\ k \in Nat /\ k <= N
      BY <1>1, <3>1
    <3>3. k - 1 \in Nat /\ (k - 1) + 1 = k /\ k - 1 \in 0..N /\ k - 1 \notin Bad
      BY <1>1, <3>1, <3>2
    <3>4. Cardinality(D(k - 1)) <= N - (k - 1)
      BY <3>3
    <3>5. CASE D(k - 1) = {}
      <4>1. D((k - 1) + 1) = {}
        BY <1>4, <3>3, <3>5
      <4>2. D(k) = {}
        BY <3>3, <4>1
      <4>3. Cardinality(D(k)) = 0
        BY <4>2, FS_EmptySet
      <4> QED  BY <1>1, <3>1, <3>2, <4>3
    <3>6. CASE D(k - 1) # {}
      <4>1. Cardinality(D((k - 1) + 1)) < Cardinality(D(k - 1))
        BY <1>5, <3>3, <3>6
      <4>2. Cardinality(D(k)) < Cardinality(D(k - 1))
        BY <3>3, <4>1
      <4>3. Cardinality(D(k)) \in Nat /\ Cardinality(D(k - 1)) \in Nat
        BY <1>1, <3>2, <3>3
      <4>4. Cardinality(D(k)) <= N - k
        BY <1>1, <3>2, <3>4, <4>2, <4>3
      <4> QED  BY <3>1, <4>4
    <3> QED  BY <3>5, <3>6
  <2> QED  BY <2>1
<1>7. D(N) = {}
  <2>1. Cardinality(D(N)) <= 0
    BY <1>1, <1>6
  <2>2. Cardinality(D(N)) = 0
    BY <1>1, <2>1
  <2> QED  BY <1>1, <2>2, FS_EmptySet
<1> QED  BY <1>7 DEF D, PlanCost

(* What trace_path collects from a reached node is at most its real_g.     *)
LEMMA TracedCost ==
  ASSUME NodeTypeOK, PointersOK, CostOK, ExactCosts, NEW k \in Nat
  PROVE  \A s \in States : Reached(s) /\ Traced[k][s] # Unending
                               => Traced[k][s] <= real_g[s]
<1> DEFINE Fine(j) == \A s \in States :
                          Reached(s) /\ Traced[j][s] # Unending
                              => Traced[j][s] <= real_g[s]
           Bad == {j \in Nat : ~Fine(j)}
<1>1. \A s \in States : real_g[s] \in Int /\ (Reached(s) => real_g[s] >= 0)
  BY DEF NodeTypeOK, CostOK
<1>2. Fine(0)
  BY <1>1, TracedIs
<1>3. ASSUME Bad # {}
      PROVE  FALSE
  <2>1. PICK m \in Bad : \A j \in Bad : m <= j
    <3>1. Bad \subseteq Nat
      OBVIOUS
    <3> HIDE DEF Bad
    <3> QED  BY <1>3, <3>1, LeastNat
  <2>2. m # 0
    BY <1>2, <2>1
  <2>3. m - 1 \in Nat /\ (m - 1) + 1 = m /\ m - 1 \notin Bad
    BY <2>1, <2>2
  <2>4. Fine(m - 1)
    BY <2>3
  <2>5. ASSUME NEW s \in States, Reached(s), Traced[m][s] # Unending
        PROVE  Traced[m][s] <= real_g[s]
    <3>1. Traced[m][s] = TraceStep(Traced[m - 1])[s]
      BY <2>3, TracedIs
    <3>2. CASE parent[s] = NoState
      BY <1>1, <2>5, <3>1, <3>2 DEF TraceStep
    <3>3. CASE parent[s] # NoState
      <4> DEFINE p == parent[s]
      <4>1. p \in States /\ Reached(p) /\ s # InitState
        BY <3>3 DEF NodeTypeOK, PointersOK
      <4>2. /\ Traced[m - 1][p] # Unending
            /\ Traced[m][s] = Traced[m - 1][p] + Cost[via[s]]
        BY <2>5, <3>1, <3>3 DEF TraceStep
      <4>3. Traced[m - 1][p] <= real_g[p]
        BY <2>4, <4>1, <4>2
      <4>4. real_g[p] + Cost[via[s]] <= real_g[s]
        BY <2>5, <4>1 DEF CostOK, CertifiedByParent
      <4>5. Cost[via[s]] \in Nat
        BY <3>3, SearchAssumption DEF PointersOK
      <4>6. Traced[m - 1] \in [States -> Nat \cup {Unending}]
        BY <2>3, TracedIs
      <4>7. Traced[m - 1][p] \in Nat
        BY <4>1, <4>2, <4>6
      <4> HIDE DEF p
      <4> QED  BY <1>1, <2>5, <4>1, <4>2, <4>3, <4>4, <4>5, <4>7
    <3> QED  BY <3>2, <3>3
  <2> QED  BY <2>1, <2>5
<1> QED  BY <1>3

(* Whatever the costs and the options, and whatever the answers inject,    *)
(* SearchSpace::trace_path comes to an end from every state of the search  *)
(* space; it stops at the first node without an operator, which has no     *)
(* parent, as the assertion in it says.                                    *)
TracesEnd ==
    \A s \in States : /\ PlanCost(s) # Unending
                      /\ via[s] = NoOp <=> parent[s] = NoState

THEOREM TracesEndAlways ==
  ASSUME IsFiniteSet(States)
  PROVE  Spec => []TracesEnd
<1>1. TypeOK /\ PointersOK /\ NoCircle => TracesEnd
  <2>1. PointersOK => \A s \in States : via[s] = NoOp <=> parent[s] = NoState
    BY SearchAssumption DEF PointersOK
  <2> QED  BY <2>1, TraceEnds DEF TypeOK, TracesEnd
<1> QED  BY <1>1, TypeCorrect, TreeInvariant, PTL

(* The plan of a solved search costs less than the bound the phase ran     *)
(* with, when costs are whole and cost_type is the real cost, although     *)
(* nodes of it may have been given other parents since they were reached.  *)
THEOREM PlansBeatTheBound ==
  ASSUME IsFiniteSet(States), ExactCosts
  PROVE  Spec => []PlanBeatsBound
<1>1. TypeOK /\ PointersOK /\ NoCircle /\ CostOK /\ SolvedOK => PlanBeatsBound
  <2> SUFFICES ASSUME TypeOK, PointersOK, NoCircle, CostOK, SolvedOK,
                      solution_found
               PROVE  /\ PlanCost(cur) # Unending
                      /\ cur # InitState => PlanCost(cur) < mode.bound
    BY DEF PlanBeatsBound
  <2>1. NodeTypeOK /\ cur \in States /\ Reached(cur)
    BY DEF TypeOK, SolvedOK
  <2>2. PlanCost(cur) # Unending
    BY <2>1, TraceEnds
  <2>3. Cardinality(States) \in Nat
    BY FS_CardinalityType
  <2>4. PlanCost(cur) <= real_g[cur]
    BY <2>1, <2>2, <2>3, TracedCost DEF PlanCost
  <2>5. PlanCost(cur) \in Int /\ real_g[cur] \in Int
    <3>1. Traced[Cardinality(States)] \in [States -> Nat \cup {Unending}]
      BY <2>1, <2>3, TracedIs
    <3> QED  BY <2>1, <3>1 DEF PlanCost, NodeTypeOK, Unending
  <2>6. mode.bound \in Nat
    BY SearchAssumption DEF TypeOK, ControlTypeOK, Mode
  <2>7. cur # InitState => real_g[cur] < mode.bound
    BY <2>1 DEF CostOK, CertifiedByParent
  <2> QED  BY <2>2, <2>4, <2>5, <2>6, <2>7
<1> QED
  BY <1>1, TypeCorrect, TreeInvariant, CostInvariant, SolvedInvariant, PTL

(* The least of a set of natural numbers.                                  *)
LEMMA MinCostIs ==
  ASSUME NEW C, C \subseteq Nat, C # {}
  PROVE  MinCost(C) \in C
<1>1. \E m \in C : \A c \in C : m <= c
  BY LeastNat
<1> QED  BY <1>1 DEF MinCost

(* The cheapest way to s that Cheapest compares at its next step.          *)
WaysTo(h, s) ==
    {h[s], mode.bound} \cup
    {h[e[1]] + Cost[e[2]] : e \in {d \in DOMAIN Succ : Succ[d] = s /\ Usable(s)}}

(* Cheapest is the function its definition describes.                      *)
LEMMA CheapestIs ==
  ASSUME mode.bound \in Nat
  PROVE  /\ Cheapest \in [Nat -> [States -> Nat]]
         /\ Cheapest[0] = [s \in States |-> IF s = InitState /\ Usable(s) THEN 0
                                            ELSE mode.bound]
         /\ \A k \in Nat, s \in States :
               Cheapest[k + 1][s] \in WaysTo(Cheapest[k], s)
<1> DEFINE V == [States -> Nat]
           v0 == [s \in States |-> IF s = InitState /\ Usable(s) THEN 0
                                   ELSE mode.bound]
           Better(h) == [s \in States |-> MinCost(WaysTo(h, s))]
           St == [h \in V |-> Better(h)]
<1>1. v0 \in V
  OBVIOUS
<1>2. ASSUME NEW h \in V, NEW s \in States
      PROVE  WaysTo(h, s) \subseteq Nat /\ MinCost(WaysTo(h, s)) \in WaysTo(h, s)
  <2>1. \A d \in DOMAIN Succ : h[d[1]] + Cost[d[2]] \in Nat
    <3> SUFFICES ASSUME NEW d \in DOMAIN Succ
                 PROVE  h[d[1]] + Cost[d[2]] \in Nat
      OBVIOUS
    <3>1. d[1] \in States /\ d[2] \in Ops
      BY SearchAssumption
    <3>2. h[d[1]] \in Nat /\ Cost[d[2]] \in Nat
      BY <3>1, SearchAssumption
    <3> QED  BY <3>2
  <2>2. WaysTo(h, s) \subseteq Nat
    BY <2>1 DEF WaysTo
  <2>3. WaysTo(h, s) # {}
    BY DEF WaysTo
  <2> QED  BY <2>2, <2>3, MinCostIs
<1>3. St \in [V -> V] /\ \A h \in V : St[h] = Better(h)
  BY <1>2
<1> HIDE DEF V, v0, St
<1>4. PICK F \in [Nat -> V] : F[0] = v0 /\ \A i \in Nat : F[i + 1] = St[F[i]]
  <2>1. St \in [V -> V]
    BY <1>3
  <2> QED  BY ONLY <1>1, <2>1, Iterates
<1> DEFINE Body(T, k) ==
               IF k = 0
               THEN [s \in States |-> IF s = InitState /\ Usable(s) THEN 0
                                      ELSE mode.bound]
               ELSE [s \in States |->
                        MinCost({T[k - 1][s], mode.bound} \cup
                                {T[k - 1][e[1]] + Cost[e[2]] :
                                    e \in {d \in DOMAIN Succ :
                                              Succ[d] = s /\ Usable(s)}})]
<1>5. ASSUME NEW T, NEW k \in Nat
      PROVE  Body(T, k) = IF k = 0 THEN v0 ELSE Better(T[k - 1])
  BY DEF v0, WaysTo
<1>6. Cheapest = CHOOSE T : T = [k \in Nat |-> Body(T, k)]
  BY DEF Cheapest
<1> HIDE DEF Body
<1>7. F = [k \in Nat |-> Body(F, k)]
  <2>1. ASSUME NEW k \in Nat
        PROVE  F[k] = Body(F, k)
    <3>1. CASE k = 0
      BY <1>4, <1>5, <3>1
    <3>2. CASE k # 0
      <4>1. k - 1 \in Nat /\ (k - 1) + 1 = k
        BY <3>2
      <4>2. F[k] = St[F[k - 1]] /\ F[k - 1] \in V
        BY <1>4, <4>1
      <4> HIDE DEF Better
      <4> QED  BY <1>3, <1>5, <3>2, <4>2
    <3> QED  BY <3>1, <3>2
  <2> QED  BY <2>1
<1>8. Cheapest = [k \in Nat |-> Body(Cheapest, k)]
  BY <1>6, <1>7
<1> HIDE DEF Better
<1>9. Cheapest[0] = v0 /\ \A k \in Nat : Cheapest[k + 1] = Better(Cheapest[k])
  <2>1. Cheapest[0] = v0
    BY <1>5, <1>8
  <2>2. ASSUME NEW k \in Nat
        PROVE  Cheapest[k + 1] = Better(Cheapest[k])
    <3>1. k + 1 \in Nat /\ k + 1 # 0 /\ (k + 1) - 1 = k
      OBVIOUS
    <3> QED  BY <1>5, <1>8, <3>1
  <2> QED  BY <2>1, <2>2
<1>10. \A k \in Nat : Cheapest[k] \in V
  <2> DEFINE Bad == {k \in Nat : Cheapest[k] \notin V}
  <2>1. ASSUME Bad # {}
        PROVE  FALSE
    <3>1. PICK k \in Bad : \A j \in Bad : k <= j
      <4>1. Bad \subseteq Nat
        OBVIOUS
      <4> HIDE DEF Bad
      <4> QED  BY <2>1, <4>1, LeastNat
    <3>2. k # 0
      BY <1>1, <1>9, <3>1
    <3>3. k - 1 \in Nat /\ k - 1 \notin Bad /\ (k - 1) + 1 = k
      BY <3>1, <3>2
    <3>4. Cheapest[k] = Better(Cheapest[k - 1]) /\ Cheapest[k - 1] \in V
      BY <1>9, <3>3
    <3>5. Better(Cheapest[k - 1]) \in V
      BY <1>3, <3>4
    <3> QED  BY <3>1, <3>4, <3>5
  <2> QED  BY <2>1
<1>11. ASSUME NEW k \in Nat, NEW s \in States
       PROVE  Cheapest[k + 1][s] \in WaysTo(Cheapest[k], s)
  <2>1. Cheapest[k] \in V
    BY <1>10
  <2>2. Cheapest[k + 1] = Better(Cheapest[k])
    BY <1>9
  <2>3. Better(Cheapest[k])[s] = MinCost(WaysTo(Cheapest[k], s))
    BY DEF Better
  <2>4. MinCost(WaysTo(Cheapest[k], s)) \in WaysTo(Cheapest[k], s)
    BY <1>2, <2>1
  <2> QED  BY <2>2, <2>3, <2>4
<1>12. Cheapest \in [Nat -> V]
  BY <1>8, <1>10
<1> QED  BY <1>9, <1>11, <1>12 DEF V, v0

(* After a failed search that reopens, a state that can be reached below   *)
(* the bound is closed, at no higher g.                                    *)
LEMMA CheapestIsClosed ==
  ASSUME TypeOK, ReachedOK, CostOK, ClosedNodesSettled, NothingLeft,
         ExactCosts, mode.reopen, engine = "failed", NEW k \in Nat
  PROVE  \A s \in States : Cheapest[k][s] < mode.bound =>
             status[s] = "closed" /\ g[s] <= Cheapest[k][s]
<1> DEFINE Fine(j) == \A s \in States : Cheapest[j][s] < mode.bound =>
                          status[s] = "closed" /\ g[s] <= Cheapest[j][s]
           Bad == {j \in Nat : ~Fine(j)}
<1>1. mode.bound \in Nat /\ \A s \in States : g[s] \in Int
  BY SearchAssumption DEF TypeOK, NodeTypeOK, ControlTypeOK, Mode
<1>2. pc \notin {"initialize", "trigger", "expand"}
      /\ \A s \in States : status[s] = "open" => s \in Violating
  BY DEF NothingLeft
<1>3. \A s \in States : Reached(s) /\ s \notin Violating => status[s] = "closed"
  BY <1>2 DEF Reached
<1>4. \A s \in States : status[s] = "closed" =>
         \A o \in Applicable(s) : WithinBound(s, o) => Settled(s, o)
  BY <1>2 DEF ClosedNodesSettled, StillToTry
<1>5. Fine(0)
  <2>1. \A s \in States : Cheapest[0][s] = IF s = InitState /\ Usable(s) THEN 0
                                           ELSE mode.bound
    BY <1>1, CheapestIs
  <2>2. Usable(InitState) => status[InitState] = "closed" /\ g[InitState] = 0
    BY <1>2, <1>3, SearchAssumption DEF Usable, ReachedOK, CostOK
  <2> QED  BY <1>1, <2>1, <2>2
<1>6. ASSUME Bad # {}
      PROVE  FALSE
  <2>1. PICK m \in Bad : \A j \in Bad : m <= j
    <3>1. Bad \subseteq Nat
      OBVIOUS
    <3> HIDE DEF Bad
    <3> QED  BY <1>6, <3>1, LeastNat
  <2>2. m # 0
    BY <1>5, <2>1
  <2>3. m - 1 \in Nat /\ (m - 1) + 1 = m /\ m - 1 \notin Bad
    BY <2>1, <2>2
  <2>4. Fine(m - 1)
    BY <2>3
  <2>5. ASSUME NEW s \in States, Cheapest[m][s] < mode.bound
        PROVE  status[s] = "closed" /\ g[s] <= Cheapest[m][s]
    <3>1. Cheapest[m][s] \in WaysTo(Cheapest[m - 1], s)
      BY <1>1, <2>3, CheapestIs
    <3>2. CASE Cheapest[m][s] = Cheapest[m - 1][s]
      BY <2>4, <2>5, <3>2
    <3>3. ASSUME NEW d \in DOMAIN Succ, Succ[d] = s, Usable(s),
                 Cheapest[m][s] = Cheapest[m - 1][d[1]] + Cost[d[2]]
          PROVE  status[s] = "closed" /\ g[s] <= Cheapest[m][s]
      <4> DEFINE p == d[1]
                 o == d[2]
      <4>1. p \in States /\ o \in Ops /\ d = <<p, o>>
        BY SearchAssumption
      <4>2. o \in Applicable(p) /\ Succ[<<p, o>>] = s
        BY <3>3, <4>1 DEF Applicable
      <4>3. Cost[o] \in Nat /\ Cheapest[m - 1][p] \in Nat
        <5>1. Cheapest[m - 1] \in [States -> Nat]
          BY <1>1, <2>3, CheapestIs
        <5> QED  BY <4>1, <5>1, SearchAssumption
      <4>4. Cheapest[m][s] = Cheapest[m - 1][p] + Cost[o]
        BY <3>3
      <4> HIDE DEF p, o
      <4>5. Cheapest[m - 1][p] < mode.bound
        BY <1>1, <2>5, <4>3, <4>4
      <4>6. status[p] = "closed" /\ g[p] <= Cheapest[m - 1][p]
        BY <2>4, <4>1, <4>5
      <4>7. g[p] = real_g[p]
        BY <4>1, <4>6 DEF CostOK, Reached
      <4>8. WithinBound(p, o)
        BY <1>1, <2>5, <4>1, <4>3, <4>4, <4>6, <4>7 DEF WithinBound
      <4>9. Settled(p, o)
        BY <1>4, <4>1, <4>2, <4>6, <4>8
      <4>10. Reached(s) /\ g[s] <= g[p] + Cost[o]
        BY <3>3, <4>2, <4>9 DEF Settled, Usable
      <4>11. status[s] = "closed"
        BY <1>3, <3>3, <4>10 DEF Usable
      <4> QED  BY <1>1, <4>1, <4>3, <4>4, <4>6, <4>10, <4>11
    <3> QED  BY <1>1, <2>5, <3>1, <3>2, <3>3 DEF WaysTo
  <2> QED  BY <2>1, <2>5
<1> QED  BY <1>6

(* "Completely explored state space -- no solution!" is true of a search   *)
(* that reopens closed nodes: no usable path of any length leads to a goal *)
(* below the bound (fetch_next_node), when costs are whole and cost_type   *)
(* is the real cost.                                                       *)
THEOREM ReopeningExhausts ==
  ASSUME IsFiniteSet(States), ExactCosts
  PROVE  Spec => []ReopeningExhaustsAll
<1>1. TypeOK /\ ReachedOK /\ CostOK /\ ClosedNodesSettled /\ NothingLeft
          => ReopeningExhaustsAll
  <2> SUFFICES ASSUME TypeOK, ReachedOK, CostOK, ClosedNodesSettled,
                      NothingLeft, mode.reopen, engine = "failed", PlanExists
               PROVE  FALSE
    BY DEF ReopeningExhaustsAll, ExhaustedIsComplete
  <2>1. Cardinality(States) \in Nat
    BY FS_CardinalityType
  <2>2. PICK s \in Goals : Cheapest[Cardinality(States)][s] < mode.bound
    BY DEF PlanExists
  <2>3. s \in States
    BY SearchAssumption
  <2>4. status[s] = "closed"
    BY <2>1, <2>2, <2>3, CheapestIsClosed
  <2>5. pc # "trigger"
    BY DEF NothingLeft
  <2> QED  BY <2>3, <2>4, <2>5 DEF ClosedNodesSettled
<1> QED
  BY <1>1, TypeCorrect, ReachedInvariant, CostInvariant, ClosedStaySettled,
     NothingLeftInvariant, PTL
=============================================================================
