------------------------- MODULE TrajectoryScorer -------------------------
(***************************************************************************)
(* nlm-score: one process that loads a task, replays action chains from    *)
(* its initial state over one state registry, request after request, and   *)
(* answers each line of input (trajectory_scorer_main.cc,                  *)
(* action_chain_evaluator.cc, state_registry.cc); and the validation of a  *)
(* model's answer by the controller's response_processor.py, which replays *)
(* the same chains in another simulator.                                   *)
(*                                                                         *)
(* A chain is a sequence of operators' numbers, 0 standing for a name that *)
(* is no operator's.  The deadline may pass at any test of it.  What the   *)
(* heuristic computes is left out; it may throw.                           *)
(***************************************************************************)
EXTENDS PlanningTask

CONSTANTS
    Tasks,          \* a sequence of tasks; a behaviour loads one of them
    MaxChain,       \* bound: actions of a request
    MaxLines,       \* bound: lines of input
    MaxRequests,    \* --max-requests-per-process; 0: no limit
    MaxStates       \* --max-registered-states; 0: no limit

ASSUME ScorerAssumption ==
    /\ IsSeq(Tasks) /\ Tasks # <<>>
    /\ \A i \in 1 .. Len(Tasks) : WellFormed(Tasks[i])
    /\ {MaxChain, MaxLines, MaxRequests, MaxStates} \subseteq Nat

VARIABLES
    task,       \* the index of the task
    once,       \* --once instead of --stream
    pc,         \* "read" a line, "chain" under evaluation, "answer", "end"
    lines,      \* lines read so far
    handled,    \* handled_score_requests
    chain,      \* request.actions
    at,         \* next action of the chain
    path,       \* state ids from the initial state on: result.states
    cost,       \* result.path_cost
    result,     \* status and outcome, once the chain is evaluated
    pool,       \* StateRegistry: the packed states; an id is a position
    info,       \* g_cost_information of each of them
    meaning     \* history: what each registered state stood for when added

vars == <<task, once, pc, lines, handled, chain, at, path, cost, result, pool,
          info, meaning>>
registry == <<pool, info, meaning>>
request  == <<chain, at, path, cost>>

Load(t) == [task |-> t, packer |-> Packer(t), generator |-> SuccessorGenerator(t),
            costs |-> [i \in DOMAIN t.ops |-> Cost(t, t.ops[i])]]
Loaded == [i \in DOMAIN Tasks |-> Load(Tasks[i])]

T  == Loaded[task].task
PK == Loaded[task].packer

None == [status |-> "none", outcome |-> "none"]
Chains == UNION {[1..n -> {0} \cup DOMAIN T.ops] : n \in 0..MaxChain}

----------------------------------------------------------------------------
(* The registry.                                                           *)

IdsOf(buf) == {i \in DOMAIN pool : pool[i] = buf}

(* The registry keeps the old values only of a metric that is maximised    *)
(* and was better in the predecessor: of the two decisions in the code,    *)
(* the second overwrites what the first did for a minimised one.           *)
KeepsOldMetric(p, s) ==
    LET metric(q) == GetNumericVars(T, PK, q.buf, q.inst)[T.metric]
    IN  T.metric # 0 /\ ~T.minimizes /\ metric(p) > metric(s)

(* insert_id_or_pop_state, then the cost information.                      *)
Register(p, s, meant, id) ==
    IF IdsOf(s.buf) = {}
    THEN /\ id = Len(pool) + 1
         /\ pool' = Append(pool, s.buf)
         /\ info' = Append(info, s.inst)
         /\ meaning' = Append(meaning, meant)
    ELSE /\ id \in IdsOf(s.buf)
         /\ info' = IF KeepsOldMetric(p, s) THEN info
                    ELSE [info EXCEPT ![id] = s.inst]
         /\ UNCHANGED <<pool, meaning>>

Current == Last(path)
CurrentState == [buf |-> pool[Current], inst |-> info[Current]]
TestGoal(buf) == Holds(PK, buf, T.goal)

----------------------------------------------------------------------------
(* main: the initial state is registered while the task is loaded.         *)

Init ==
    /\ task \in DOMAIN Tasks /\ once \in BOOLEAN
    /\ pc = "read" /\ lines = 0 /\ handled = 0
    /\ chain = <<>> /\ at = 1 /\ path = <<>> /\ cost = 0 /\ result = None
    /\ LET s == InitialState(T, PK)
       IN  pool = <<s.buf>> /\ info = <<s.inst>>
    /\ meaning = <<MeaningInit(T)>>

ReadLine == pc = "read" /\ lines < MaxLines /\ lines' = lines + 1

(* A line that is too long or that parse_message rejects: an error answer. *)
RejectLine ==
    /\ ReadLine
    /\ result' = [status |-> "invalid_request", outcome |-> "none"]
    /\ pc' = IF once THEN "end" ELSE "read"
    /\ UNCHANGED <<task, once, handled, request, registry>>

(* A request for another task counts as handled.                           *)
Mismatch ==
    /\ ReadLine
    /\ handled' = handled + 1
    /\ result' = [status |-> "task_mismatch", outcome |-> "none"]
    /\ pc' = IF once THEN "end" ELSE "read"
    /\ UNCHANGED <<task, once, request, registry>>

(* A shutdown message, or the end of the input.                            *)
Shutdown ==
    /\ pc = "read"
    /\ pc' = "end" /\ result' = None
    /\ UNCHANGED <<task, once, lines, handled, request, registry>>

(* ActionChainEvaluator::evaluate up to the loop.                          *)
BeginScore(actions) ==
    /\ ReadLine
    /\ handled' = handled + 1
    /\ chain' = actions /\ at' = 1 /\ path' = <<1>> /\ cost' = 0
    /\ IF TestGoal(pool[1])
       THEN /\ result' = [status |-> "ok", outcome |-> "goal_reached"]
            /\ pc' = "answer"
       ELSE result' = None /\ pc' = "chain"
    /\ UNCHANGED <<task, once, registry>>

(* The heuristic throws on the initial state.                              *)
InitialThrows ==
    /\ ReadLine
    /\ handled' = handled + 1
    /\ result' = [status |-> "internal_error", outcome |-> "none"]
    /\ pc' = IF once THEN "end" ELSE "read"
    /\ UNCHANGED <<task, once, request, registry>>

Finish(status, outcome) ==
    /\ result' = [status |-> status, outcome |-> outcome]
    /\ pc' = "answer"

(* max_score_seconds is positive: the deadline is tested before and after  *)
(* every action.                                                           *)
Expire ==
    /\ pc = "chain"
    /\ Finish("scorer_timeout", "none")
    /\ UNCHANGED <<task, once, lines, handled, request, registry>>

(* resolve_action finds an operator, and it is applicable.                 *)
Resolves(i) == i # 0 /\ IsApplicable(PK, pool[Current], T.ops[i])

InvalidAction ==
    /\ pc = "chain" /\ at <= Len(chain)
    /\ ~Resolves(chain[at])
    /\ Finish("ok", "invalid")
    /\ UNCHANGED <<task, once, lines, handled, request, registry>>

(* apply_action, the state's entry in the result, and the goal test; the   *)
(* heuristic may throw once the state is registered: internal_error.       *)
ApplyAction ==
    /\ pc = "chain" /\ at <= Len(chain) /\ Resolves(chain[at])
    /\ LET op == T.ops[chain[at]]
           s  == SuccessorState(T, PK, CurrentState, op)
       IN  \E id \in 1 .. Len(pool) + 1 :
                /\ Register(CurrentState, s, Meant(T, meaning[Current], op), id)
                /\ \/ /\ path' = Append(path, id)
                      /\ cost' = cost + Loaded[task].costs[chain[at]]
                      /\ at' = at + 1
                      /\ IF TestGoal(s.buf) THEN Finish("ok", "goal_reached")
                         ELSE UNCHANGED <<pc, result>>
                   \/ /\ result' = [status |-> "internal_error",
                                    outcome |-> "none"]
                      /\ pc' = IF once THEN "end" ELSE "read"
                      /\ UNCHANGED <<path, cost, at>>
    /\ UNCHANGED <<task, once, lines, handled, chain>>

ChainEnds ==
    /\ pc = "chain" /\ at > Len(chain)
    /\ Finish("ok", "legal_incomplete")
    /\ UNCHANGED <<task, once, lines, handled, request, registry>>

(* recycle_recommended: the process stops after this answer.               *)
Recycle ==
    \/ result.status = "scorer_timeout"
    \/ MaxRequests > 0 /\ handled >= MaxRequests
    \/ MaxStates > 0 /\ Len(pool) >= MaxStates

Answer ==
    /\ pc = "answer"
    /\ pc' = IF once \/ Recycle THEN "end" ELSE "read"
    /\ UNCHANGED <<task, once, lines, handled, request, result, registry>>

Stopped == pc = "end" /\ UNCHANGED vars

Next ==
    \/ RejectLine \/ Mismatch \/ Shutdown \/ InitialThrows
    \/ \E actions \in Chains : BeginScore(actions)
    \/ Expire \/ InvalidAction \/ ApplyAction \/ ChainEnds \/ Answer
    \/ Stopped

Spec == Init /\ [][Next]_vars

----------------------------------------------------------------------------
(* The controller's validation of the same chain: PlanResponseProcessor    *)
(* and UnifiedPlanningPrefixValidator, whose simulator runs the task as    *)
(* PDDL means it.  Python's indices start at 0.                            *)

Simulates(s, action) ==
    action # 0 /\ T.ops[action].pre \subseteq FactsIn(T, s)
IsGoal(s) == T.goal \subseteq FactsIn(T, s)

(* The state after the first k actions.                                    *)
After(actions, k) ==
    Fold(LAMBDA s, j : IF actions[j] = 0 THEN s ELSE Meant(T, s, T.ops[actions[j]]),
         MeaningInit(T), k)
Prefix(actions, ends) ==
    LET n == CHOOSE n \in ends : \A k \in ends : n <= k
    IN  [k \in 1 .. n + 1 |-> After(actions, k - 1)]
Ends(actions) ==
    {k \in 0 .. Len(actions) :
        k = Len(actions) \/ ~Simulates(After(actions, k), actions[k + 1])}

(* Variant: the goal does not end the replay.                              *)
ReplayAll(actions) == Prefix(actions, Ends(actions))
Replay(actions) ==
    Prefix(actions, Ends(actions)
                      \cup {k \in 0 .. Len(actions) : IsGoal(After(actions, k))})

Verdict(actions, legal, goal) ==
    [legal |-> legal, goal_reached |-> goal,
     invalid_index |-> IF ~goal /\ legal < Len(actions) THEN legal ELSE -1]
Validated(actions, states) ==
    Verdict(actions, Len(states) - 1, IsGoal(Last(states)))
Validate(actions) == Validated(actions, Replay(actions))

(* process, once the actions are parsed and validated.                     *)
Process(actions, v) ==
    CASE actions = <<>> -> "parse_error"
      [] actions # <<>> /\ v.legal = 0 -> "invalid_plan"
      [] v.legal > 0 /\ (v.goal_reached \/ v.legal = Len(actions)) -> "ok"
      [] OTHER -> "partial"

----------------------------------------------------------------------------
Answered == pc = "answer" /\ result.status = "ok"

(* Whatever was scored before in this process, and however the registry    *)
(* was filled, an answer is the replay of its own chain from the initial   *)
(* state: the states on the path are those the task means, and the cost is *)
(* their operators' (reward_mechanism_design.md, 5.5).                     *)
ScoreIsReplay ==
    Answered =>
        LET states == Replay(chain)
        IN  /\ Len(path) = Len(states)
            /\ \A k \in DOMAIN path : meaning[path[k]] = states[k]
            /\ cost = Fold(LAMBDA c, k : c + Cost(T, T.ops[chain[k]]), 0,
                           Len(path) - 1)

(* A state id stands for one state: every packed state, derived variables  *)
(* included, holds just the facts of what it stands for, and no two ids    *)
(* stand for the same; a repeated id in an answer is a repeated state.     *)
IdsAreStates ==
    /\ \A i \in DOMAIN pool :
         /\ {<<v, Get(PK, pool[i], <<"var", v>>)>> : v \in Logic(T)}
              = FactsIn(T, meaning[i])
         /\ \A v \in OfType(T, "regular") :
              pool[i][PK[<<"num", v>>].bin] = meaning[i].nums[v]
    /\ \A i, j \in DOMAIN pool : meaning[i] = meaning[j] => i = j

(* The search expands the operators of the generator's tree, an injected   *)
(* or scored chain tests each precondition: in every registered state both *)
(* admit the same operators.                                               *)
GeneratorFindsApplicable ==
    \A i \in DOMAIN pool :
        Generated(T, Loaded[task].generator, PK, pool[i])
          = {k \in DOMAIN T.ops : IsApplicable(PK, pool[i], T.ops[k])}

AgreesWith(v) ==
    /\ v.legal = Len(path) - 1
    /\ v.goal_reached <=> result.outcome = "goal_reached"
    /\ v.invalid_index >= 0 <=> result.outcome = "invalid"
    /\ Process(chain, v) = "ok" <=> v.legal > 0 /\ result.outcome # "invalid"

(* The controller passes on a prefix and a verdict that the planner agrees *)
(* with: the same actions are legal, the goal is reached at the same place *)
(* and the same action is the first that is not legal.                     *)
ProcessorAgrees ==
    Answered /\ chain # <<>> => AgreesWith(Validate(chain))
=============================================================================
