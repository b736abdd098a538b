---------------------------- MODULE HybridSearch ----------------------------
(***************************************************************************)
(* The search thread of the hybrid planner: EagerSearch with its search    *)
(* space, its open list and the pending/suspended bookkeeping of           *)
(* LLMTriggerMonitor (search_engines/eager_search.cc, search_space.cc,     *)
(* search_engine.cc).  LLM answers arrive at any time and in any order and *)
(* are applied when the thread polls.                                      *)
(*                                                                         *)
(* Abstracted: the order in which the open list gives its entries (any     *)
(* entry may be the minimum), when the triggers fire and for which         *)
(* expanded state (any, at any expansion), heuristic values other than     *)
(* "dead end", and what the LLM answers (any chain of actions).  The       *)
(* bridge is what RequestLifecycle promises of it.                         *)
(*                                                                         *)
(* Multi-path dependence (mpd) and operator pruning are off, as in every   *)
(* configuration the controller starts.                                    *)
(***************************************************************************)
EXTENDS Integers, FiniteSets

CONSTANTS
    States, Ops, NoState, NoOp,
    InitState,
    Succ,         \* function from <<state, applicable operator>> to state
    Cost,         \* get_cost() of each operator
    AdjCost,      \* get_adjusted_cost(), by cost_type
    Unit,         \* costs are multiples of 1/Unit; a stored g is an integer
    Goals,
    DeadEnds,     \* states whose heuristic value is infinite
    Violating,    \* states that violate the global constraint
    Modes,        \* the configurations to start from
    MaxRequests, MaxPending,  \* NLM_LLM_MAX_REQUESTS, _MAX_PENDING; 0: no limit
    MaxSamples,   \* bound: chains per response
    MaxChain      \* bound: actions per chain

(* What environment, options and set_bound() fix before the search starts. *)
(* bound is exclusive, on the real cost, in 1/Unit.                        *)
Mode == [llm : {"off", "log", "http"}, skip : BOOLEAN,
         reopen : BOOLEAN, initial : BOOLEAN, bound : Nat]

ASSUME SearchAssumption ==
    /\ NoState \notin States /\ NoOp \notin Ops
    /\ InitState \in States
    /\ DOMAIN Succ \subseteq States \X Ops
    /\ \A e \in DOMAIN Succ : Succ[e] \in States
    /\ Cost \in [Ops -> Nat] /\ AdjCost \in [Ops -> Nat]
    /\ Unit \in Nat \ {0}
    /\ Goals \subseteq States /\ DeadEnds \subseteq States
    /\ Violating \subseteq States
    /\ Modes \subseteq Mode
    /\ MaxRequests \in Nat /\ MaxPending \in Nat
    /\ MaxSamples \in Nat /\ MaxChain \in Nat

VARIABLES
    mode,       \* the configuration; never changes
    \* SearchSpace
    status, g, real_g, parent, via,
    \* the open list: how many entries each state has
    open_list,
    \* LLMTriggerMonitor
    expanded,   \* states it has seen expanded: what it may ask about
    requested_states, requests_submitted,
    pending_states, suspended_states,
    \* the bridge: submitted and unanswered; answered and not polled
    in_flight, answered,
    \* the search thread
    pc,         \* where it is
    after,      \* where it goes when poll_llm_responses returns
    batch,      \* responses poll_bridge returned that are still to be applied
    source,     \* the state whose response is being applied ...
    was_suspended, \* ... and whether it was suspended
    samples,    \* chains of the response still to be injected
    cur,        \* the state being expanded, or the end of the injected prefix
    todo,       \* operators of the expansion still to be tried
    steps,      \* actions the chain may still have
    \* SearchEngine
    engine,     \* status
    solution_found

nodeVars    == <<status, g, real_g, parent, via, open_list>>
monitorVars == <<expanded, requested_states, requests_submitted,
                 pending_states, suspended_states>>
bridgeVars  == <<in_flight, answered>>
pollVars    == <<after, batch, source, was_suspended, samples>>
cursorVars  == <<cur, todo, steps>>
engineVars  == <<engine, solution_found>>
vars == <<mode, nodeVars, monitorVars, bridgeVars, pc, pollVars, cursorVars,
          engineVars>>

NodeStatus == {"new", "open", "closed", "dead"}
Reply == [state : States, usable : BOOLEAN]
Points == {"initialize", "deadline", "poll", "responses", "chains", "inject",
           "fetch", "trigger", "expand", "done"}

Sources(replies) == {x.state : x \in replies}

----------------------------------------------------------------------------
(* The search space.                                                       *)

Applicable(s) == {o \in Ops : <<s, o>> \in DOMAIN Succ}

(* SearchNodeInfo keeps g and real_g in int fields: a fraction is cut off  *)
(* each time a node is opened, reopened or given a new parent.             *)
Stored(x) == (x \div Unit) * Unit

(* Variant: a new parent without its operator.                             *)
ReachKeepsOperator(t, p, o, st) ==
    /\ status' = [status EXCEPT ![t] = st]
    /\ g'      = [g EXCEPT ![t] = Stored(g[p] + AdjCost[o])]
    /\ real_g' = [real_g EXCEPT ![t] = Stored(real_g[p] + Cost[o])]
    /\ parent' = [parent EXCEPT ![t] = p]
    /\ via'    = [via EXCEPT ![t] = IF @ = NoOp THEN o ELSE @]

(* Variant: a closed node is given the lower g and stays closed.           *)
ReachKeepsClosed(t, p, o, st) ==
    /\ status' = [status EXCEPT ![t] = IF @ = "closed" THEN @ ELSE st]
    /\ g'      = [g EXCEPT ![t] = Stored(g[p] + AdjCost[o])]
    /\ real_g' = [real_g EXCEPT ![t] = Stored(real_g[p] + Cost[o])]
    /\ parent' = [parent EXCEPT ![t] = p]
    /\ via'    = [via EXCEPT ![t] = o]

(* open, reopen and update_parent write the same five fields.              *)
Reach(t, p, o, st) ==
    /\ status' = [status EXCEPT ![t] = st]
    /\ g'      = [g EXCEPT ![t] = Stored(g[p] + AdjCost[o])]
    /\ real_g' = [real_g EXCEPT ![t] = Stored(real_g[p] + Cost[o])]
    /\ parent' = [parent EXCEPT ![t] = p]
    /\ via'    = [via EXCEPT ![t] = o]

(* Variant: a state that awaits an answer is not inserted.                 *)
InsertUnlessPending(t) ==
    open_list' = [open_list EXCEPT ![t] = IF t \in pending_states THEN @ ELSE @ + 1]

Insert(t) == open_list' = [open_list EXCEPT ![t] = @ + 1]

MarkDead(t) ==
    /\ status' = [status EXCEPT ![t] = "dead"]
    /\ UNCHANGED <<g, real_g, parent, via, open_list>>

(* p reaches t by o within the bound: the treatment step() and inject_llm_ *)
(* action_chain() share.                                                   *)
Relax(p, o, t) ==
    LET cheaper == status[t] \in {"open", "closed"} /\ g[t] > g[p] + AdjCost[o]
    IN  \/ status[t] = "new" /\ t \in DeadEnds /\ MarkDead(t)
        \/ /\ status[t] = "new" /\ t \notin DeadEnds
           /\ Reach(t, p, o, "open") /\ Insert(t)
        \/ /\ cheaper /\ mode.reopen
           /\ Reach(t, p, o, "open") /\ Insert(t)
        \/ /\ cheaper /\ ~mode.reopen
           /\ Reach(t, p, o, status[t]) /\ UNCHANGED open_list
        \/ /\ status[t] # "new" /\ ~cheaper
           /\ UNCHANGED nodeVars

(* Variant: the bound is inclusive.                                        *)
UpToBound(p, o) == real_g[p] + Cost[o] <= mode.bound

WithinBound(p, o) == real_g[p] + Cost[o] < mode.bound

----------------------------------------------------------------------------
(* LLMTriggerMonitor::request_state, where it accepts; a refusal only      *)
(* counts.  The spacing rule is part of when triggers fire.                *)

(* Variant: a state may be asked about again once it is answered.          *)
CanRequestAgain(s) ==
    /\ mode.llm # "off"
    /\ MaxRequests = 0 \/ requests_submitted < MaxRequests
    /\ s \notin pending_states
    /\ MaxPending = 0 \/ Cardinality(pending_states) < MaxPending

CanRequest(s) ==
    /\ mode.llm # "off"
    /\ MaxRequests = 0 \/ requests_submitted < MaxRequests
    /\ s \notin requested_states
    /\ MaxPending = 0 \/ Cardinality(pending_states) < MaxPending

RequestState(s) ==
    /\ CanRequest(s)
    /\ requests_submitted' = requests_submitted + 1
    /\ requested_states' = requested_states \cup {s}
    /\ IF mode.llm = "http"    \* log mode never produces a completion
       THEN /\ pending_states' = pending_states \cup {s}
            /\ in_flight' = in_flight \cup {s}
       ELSE UNCHANGED <<pending_states, in_flight>>
    /\ UNCHANGED answered

----------------------------------------------------------------------------
Init ==
    /\ mode \in Modes
    /\ status = [s \in States |-> "new"]
    /\ g      = [s \in States |-> 0 - Unit]
    /\ real_g = [s \in States |-> 0 - Unit]
    /\ parent = [s \in States |-> NoState]
    /\ via    = [s \in States |-> NoOp]
    /\ open_list = [s \in States |-> 0]
    /\ expanded = {} /\ requested_states = {} /\ requests_submitted = 0
    /\ pending_states = {} /\ suspended_states = {}
    /\ in_flight = {} /\ answered = {}
    /\ pc = "initialize" /\ after = "fetch"
    /\ batch = {} /\ source = NoState /\ was_suspended = FALSE
    /\ samples = 0
    /\ cur = NoState /\ todo = {} /\ steps = 0
    /\ engine = "in_progress" /\ solution_found = FALSE

(* EagerSearch::initialize.                                                *)
Initialize ==
    /\ pc = "initialize"
    /\ pc' = "deadline"
    /\ \/ /\ InitState \in DeadEnds
          /\ UNCHANGED <<nodeVars, monitorVars, bridgeVars>>
       \/ /\ InitState \notin DeadEnds
          /\ status' = [status EXCEPT ![InitState] = "open"]
          /\ g'      = [g EXCEPT ![InitState] = 0]
          /\ real_g' = [real_g EXCEPT ![InitState] = 0]
          /\ Insert(InitState)
          /\ UNCHANGED <<parent, via, expanded, suspended_states>>
          /\ \/ mode.initial /\ RequestState(InitState)
             \/ /\ ~(mode.initial /\ CanRequest(InitState))
                /\ UNCHANGED <<requested_states, requests_submitted,
                               pending_states, bridgeVars>>
    /\ UNCHANGED <<mode, pollVars, cursorVars, engineVars>>

----------------------------------------------------------------------------
(* SearchEngine::search, between two steps: a status other than            *)
(* in_progress ends the loop, and an expired deadline overwrites it, even  *)
(* when the step has just set a plan.                                      *)
CheckDeadline ==
    /\ pc = "deadline"
    /\ \/ engine' = "timeout" /\ pc' = "done"
       \/ engine = "in_progress" /\ pc' = "poll" /\ UNCHANGED engine
       \/ engine # "in_progress" /\ pc' = "done" /\ UNCHANGED engine
    /\ after' = "fetch"
    /\ UNCHANGED <<mode, nodeVars, monitorVars, bridgeVars, batch, source,
                   was_suspended, samples, cursorVars, solution_found>>

----------------------------------------------------------------------------
(* poll_llm_responses.                                                     *)

(* Variant: a failed answer does not end the wait for it.                  *)
StillPendingAfterFailure ==
    pending_states \ Sources({x \in answered : x.usable})

(* poll_bridge: none of the returned responses is pending from here on.    *)
StillPending == pending_states \ Sources(answered)

PollBridge ==
    /\ pc = "poll"
    /\ pc' = "responses"
    /\ batch' = answered
    /\ answered' = {}
    /\ pending_states' = StillPending
    /\ UNCHANGED <<mode, nodeVars, expanded, requested_states,
                   requests_submitted, suspended_states, in_flight, after,
                   source, was_suspended, samples, cursorVars, engineVars>>

(* The next response: take_suspended, then its chains if it has a usable   *)
(* status.  A failed transport, an unreadable body and a status other than *)
(* ok or partial all mean no chains.                                       *)
TakeResponse(x) ==
    /\ pc = "responses"
    /\ x \in batch
    /\ batch' = batch \ {x}
    /\ source' = x.state
    /\ was_suspended' = (x.state \in suspended_states)
    /\ suspended_states' = suspended_states \ {x.state}
    /\ samples' = IF x.usable THEN MaxSamples ELSE 0
    /\ pc' = "chains"
    /\ UNCHANGED <<mode, nodeVars, expanded, requested_states,
                   requests_submitted, pending_states, bridgeVars, after,
                   cursorVars, engineVars>>

ResponsesDone ==
    /\ pc = "responses"
    /\ batch = {}
    /\ pc' = after
    /\ UNCHANGED <<mode, nodeVars, monitorVars, bridgeVars, pollVars,
                   cursorVars, engineVars>>

(* inject_llm_action_chain starts at the requested state.                  *)
StartChain ==
    /\ pc = "chains"
    /\ samples > 0
    /\ samples' = samples - 1
    /\ cur' = source /\ steps' = MaxChain
    /\ pc' = "inject"
    /\ UNCHANGED <<mode, nodeVars, monitorVars, bridgeVars, after, batch,
                   source, was_suspended, todo, engineVars>>

(* One action of a chain.  There is no test of the global constraint.      *)
InjectAction(o) ==
    /\ pc = "inject"
    /\ steps > 0
    /\ o \in Applicable(cur)
    /\ status[cur] # "dead" /\ WithinBound(cur, o)
    /\ LET t == Succ[<<cur, o>>]
       IN  /\ status[t] # "dead"
           /\ Relax(cur, o, t)
           /\ IF status'[t] = "dead"
              THEN pc' = "chains" /\ cur' = NoState /\ steps' = 0
              ELSE cur' = t /\ steps' = steps - 1 /\ UNCHANGED pc
    /\ UNCHANGED <<mode, monitorVars, bridgeVars, pollVars, todo, engineVars>>

(* The chain is over, or its next action is unknown, inapplicable, leads   *)
(* to the bound or to a known dead end.                                    *)
EndChain ==
    /\ pc = "inject"
    /\ pc' = "chains"
    /\ cur' = NoState /\ steps' = 0
    /\ UNCHANGED <<mode, nodeVars, monitorVars, bridgeVars, pollVars, todo,
                   engineVars>>

(* The response holds no further chain: requeue_llm_source, if the source  *)
(* had been taken off the open list, and it is still open.                 *)
FinishResponse ==
    /\ pc = "chains"
    /\ pc' = "responses"
    /\ IF was_suspended /\ mode.skip /\ status[source] = "open"
       THEN IF source \in DeadEnds THEN MarkDead(source)
            ELSE /\ Insert(source)
                 /\ UNCHANGED <<status, g, real_g, parent, via>>
       ELSE UNCHANGED nodeVars
    /\ source' = NoState /\ was_suspended' = FALSE /\ samples' = 0
    /\ UNCHANGED <<mode, monitorVars, bridgeVars, after, batch, cursorVars,
                   engineVars>>

----------------------------------------------------------------------------
(* fetch_next_node.                                                        *)

OpenListEmpty == \A s \in States : open_list[s] = 0

(* The open list is empty but an answer is due: sleep 10 ms and poll.      *)
WaitForPending ==
    /\ pc = "fetch"
    /\ OpenListEmpty
    /\ pending_states # {}
    /\ pc' = "poll"
    /\ UNCHANGED <<mode, nodeVars, monitorVars, bridgeVars, pollVars,
                   cursorVars, engineVars>>

(* "Completely explored state space -- no solution!"                       *)
Exhausted ==
    /\ pc = "fetch"
    /\ OpenListEmpty
    /\ pending_states = {}
    /\ engine' = "failed"
    /\ pc' = "deadline"
    /\ UNCHANGED <<mode, nodeVars, monitorVars, bridgeVars, pollVars,
                   cursorVars, solution_found>>

(* An entry that is not expanded now: its state violates the global        *)
(* constraint or is closed already.                                        *)
Discards(s) == s \in Violating \/ status[s] = "closed"

(* Variant: whether the answer has come is not looked at.                  *)
SuspendsRequested(s) ==
    mode.llm # "off" /\ mode.skip /\ s \in requested_states

(* suspend_if_pending.                                                     *)
Suspends(s) == mode.llm # "off" /\ mode.skip /\ s \in pending_states

(* Variant: the entry may be gone already.                                 *)
RemoveAny(s) ==
    /\ pc = "fetch"
    /\ open_list' = [open_list EXCEPT ![s] = @ - 1]

RemoveMin(s) ==
    /\ pc = "fetch"
    /\ open_list[s] > 0
    /\ open_list' = [open_list EXCEPT ![s] = @ - 1]

PopDiscarded(s) ==
    /\ RemoveMin(s)
    /\ Discards(s)
    /\ pc' = "poll"
    /\ UNCHANGED <<mode, status, g, real_g, parent, via, monitorVars,
                   bridgeVars, pollVars, cursorVars, engineVars>>

PopSuspended(s) ==
    /\ RemoveMin(s)
    /\ ~Discards(s) /\ Suspends(s)
    /\ suspended_states' = suspended_states \cup {s}
    /\ pc' = "poll"
    /\ UNCHANGED <<mode, status, g, real_g, parent, via, expanded,
                   requested_states, requests_submitted, pending_states,
                   bridgeVars, pollVars, cursorVars, engineVars>>

PopExpanded(s) ==
    /\ RemoveMin(s)
    /\ ~Discards(s) /\ ~Suspends(s)
    /\ status' = [status EXCEPT ![s] = "closed"]
    /\ expanded' = expanded \cup {s}
    /\ cur' = s
    /\ pc' = "trigger"
    /\ UNCHANGED <<mode, g, real_g, parent, via, requested_states,
                   requests_submitted, pending_states, suspended_states,
                   bridgeVars, pollVars, todo, steps, engineVars>>

(* record_expanded and the ancestor check: requests for representatives of *)
(* layers (states expanded earlier, perhaps reopened since) or for the     *)
(* state just closed.                                                      *)
Trigger(s) ==
    /\ pc = "trigger"
    /\ s \in expanded
    /\ RequestState(s)
    /\ UNCHANGED <<mode, nodeVars, expanded, suspended_states, pc, pollVars,
                   cursorVars, engineVars>>

----------------------------------------------------------------------------
(* step.                                                                   *)

(* A goal: the plan is traced, completed answers are polled and ignored.   *)
GoalReached ==
    /\ pc = "trigger"
    /\ cur \in Goals
    /\ engine' = "solved" /\ solution_found' = TRUE
    /\ pending_states' = StillPending
    /\ answered' = {}
    /\ pc' = "deadline"
    /\ UNCHANGED <<mode, nodeVars, expanded, requested_states,
                   requests_submitted, suspended_states, in_flight, pollVars,
                   cursorVars>>

StartExpansion ==
    /\ pc = "trigger"
    /\ cur \notin Goals
    /\ todo' = Applicable(cur)
    /\ pc' = "expand"
    /\ UNCHANGED <<mode, nodeVars, monitorVars, bridgeVars, pollVars, cur,
                   steps, engineVars>>

GenerateSuccessor(o) ==
    /\ pc = "expand"
    /\ o \in todo
    /\ todo' = todo \ {o}
    /\ IF WithinBound(cur, o)
       THEN Relax(cur, o, Succ[<<cur, o>>])
       ELSE UNCHANGED nodeVars
    /\ UNCHANGED <<mode, monitorVars, bridgeVars, pc, pollVars, cur, steps,
                   engineVars>>

EndExpansion ==
    /\ pc = "expand"
    /\ todo = {}
    /\ after' = "deadline"
    /\ pc' = "poll"
    /\ cur' = NoState
    /\ UNCHANGED <<mode, nodeVars, monitorVars, bridgeVars, batch, source,
                   was_suspended, samples, todo, steps, engineVars>>

----------------------------------------------------------------------------
(* The bridge: some submitted request completes, usably or not.            *)
Complete(s) ==
    /\ pc # "done"
    /\ s \in in_flight
    /\ in_flight' = in_flight \ {s}
    /\ \E u \in BOOLEAN : answered' = answered \cup {[state |-> s, usable |-> u]}
    /\ UNCHANGED <<mode, nodeVars, monitorVars, pc, pollVars, cursorVars,
                   engineVars>>

----------------------------------------------------------------------------
PollSteps ==
    \/ PollBridge \/ ResponsesDone \/ StartChain \/ EndChain \/ FinishResponse
    \/ \E x \in batch : TakeResponse(x)
    \/ \E o \in Ops : InjectAction(o)

FetchSteps ==
    \/ WaitForPending \/ Exhausted
    \/ \E s \in States : PopDiscarded(s) \/ PopSuspended(s) \/ PopExpanded(s)

StepSteps ==
    \/ \E s \in States : Trigger(s)
    \/ GoalReached \/ StartExpansion \/ EndExpansion
    \/ \E o \in Ops : GenerateSuccessor(o)

SearchThread ==
    Initialize \/ CheckDeadline \/ PollSteps \/ FetchSteps \/ StepSteps

Ended == pc = "done" /\ UNCHANGED vars

Next == SearchThread \/ (\E s \in States : Complete(s)) \/ Ended

Spec == Init /\ [][Next]_vars

(* The thread runs, and each request is answered in bounded time           *)
(* (LLMBridge: a worker takes it, the socket timeouts end the exchange).   *)
Fairness ==
    /\ WF_vars(SearchThread)
    /\ \A s \in States : WF_vars(Complete(s))

FairSpec == Spec /\ Fairness

----------------------------------------------------------------------------
(* Properties.                                                             *)

NodeTypeOK ==
    /\ status \in [States -> NodeStatus]
    /\ g \in [States -> Int] /\ real_g \in [States -> Int]
    /\ parent \in [States -> States \cup {NoState}]
    /\ via \in [States -> Ops \cup {NoOp}]
    /\ open_list \in [States -> Nat]

MonitorTypeOK ==
    /\ expanded \subseteq States /\ requested_states \subseteq States
    /\ requests_submitted \in Nat
    /\ pending_states \subseteq States /\ suspended_states \subseteq States
    /\ in_flight \subseteq States /\ answered \subseteq Reply

ControlTypeOK ==
    /\ mode \in Modes
    /\ pc \in Points /\ after \in {"fetch", "deadline"}
    /\ batch \subseteq Reply /\ source \in States \cup {NoState}
    /\ was_suspended \in BOOLEAN /\ samples \in Nat
    /\ cur \in States \cup {NoState} /\ todo \subseteq Ops /\ steps \in Nat
    /\ engine \in {"in_progress", "solved", "failed", "timeout"}
    /\ solution_found \in BOOLEAN

TypeOK == NodeTypeOK /\ MonitorTypeOK /\ ControlTypeOK

(* A state that is still to be expanded is never forgotten: an open node   *)
(* has an entry in the open list, or it is suspended, or the answer that   *)
(* frees it is being applied.  The exception is a state that violates the  *)
(* global constraint: its entry is dropped and the node stays open.        *)
Reachable(s) ==
    \/ open_list[s] > 0
    \/ s \in suspended_states
    \/ was_suspended /\ source = s
    \/ s \in Violating
NoOpenNodeLost ==
    \A s \in States : status[s] = "open" => Reachable(s)

(* A suspended state waits for an answer that will come: its request is    *)
(* pending or its response is in the batch being applied; and a request is *)
(* pending exactly while it is in flight or answered and unpolled.  With a *)
(* pending entry that has no answer coming, an empty open list would make  *)
(* fetch_next_node wait for ever.                                          *)
AnswersAwaited ==
    /\ pending_states = in_flight \cup Sources(answered)
    /\ pc # "done" /\ engine = "in_progress" =>
           suspended_states \subseteq pending_states \cup Sources(batch)

(* One request per state, whatever is reopened, injected or requeued, and  *)
(* the two limits hold.                                                    *)
RequestBudget ==
    /\ requests_submitted = Cardinality(requested_states)
    /\ MaxRequests > 0 => requests_submitted <= MaxRequests
    /\ MaxPending > 0 => Cardinality(pending_states) <= MaxPending
    /\ in_flight \cap Sources(answered) = {}

(* trace_path from s: the real cost of the operators it collects in k      *)
(* steps, or Unending when it has not come to a state without a parent.    *)
(* More steps than states mean that the pointers run in a circle.          *)
Unending == -1
Traced[k \in Nat] ==
    [s \in States |->
        IF parent[s] = NoState THEN 0
        ELSE IF k = 0 \/ Traced[k - 1][parent[s]] = Unending THEN Unending
        ELSE Traced[k - 1][parent[s]] + Cost[via[s]]]
PlanCost(s) == Traced[Cardinality(States)][s]

Reached(s) == status[s] \in {"open", "closed"}

(* Each node is certified by its parent, for the costs the g values are    *)
(* exact for: the parent is a reached node, the operator leads from it to  *)
(* s, and s costs no less than the parent and the operator, and less than  *)
(* the bound.  update_parent and reopen keep it although a node's          *)
(* ancestors change after it was reached: improvements of an ancestor that *)
(* never reached the descendants make the traced plan cheaper than the     *)
(* stored g, never dearer.                                                 *)
ExactCosts == Unit = 1 /\ AdjCost = Cost
CertifiedByParent(s) ==
    /\ parent[s] \in States /\ Reached(parent[s])
    /\ via[s] \in Applicable(parent[s])
    /\ Succ[<<parent[s], via[s]>>] = s
    /\ real_g[parent[s]] + Cost[via[s]] <= real_g[s]
    /\ real_g[s] < mode.bound
ParentsCertifyG ==
    ExactCosts => \A s \in States \ {InitState} :
                      Reached(s) => CertifiedByParent(s)

(* A search that reopens nodes keeps up with what the answers inject: in   *)
(* every state, each operator of a closed node that stays below the bound  *)
(* leads to a dead end or to a node that is known at no higher g, except   *)
(* those the current expansion still has to try; and no closed node is a   *)
(* goal, except the one just closed.  At "completely explored" nothing is  *)
(* excepted.                                                               *)
Settled(s, o) ==
    LET t == Succ[<<s, o>>]
    IN  t \in DeadEnds \/ (Reached(t) /\ g[t] <= g[s] + Cost[o])
StillToTry(s, o) ==
    cur = s /\ (pc = "trigger" \/ (pc = "expand" /\ o \in todo))
ClosedNodesSettled ==
    ExactCosts /\ mode.reopen /\ engine \in {"in_progress", "failed"} =>
        \A s \in States : status[s] = "closed" =>
            /\ \A o \in Applicable(s) :
                  WithinBound(s, o) /\ ~StillToTry(s, o) => Settled(s, o)
            /\ s \in Goals => pc = "trigger" /\ cur = s

(* trace_path comes to an end, and the plan of a phase costs less than the *)
(* bound the phase ran with (search_engine.cc: "exclusive depth bound ...  *)
(* Cutoffs are always performed according to the real cost").  The cutoffs *)
(* are at successors: an initial state that is a goal is a plan under any  *)
(* bound.                                                                  *)
PlanBeatsBound ==
    solution_found =>
        /\ PlanCost(cur) # Unending
        /\ cur # InitState => PlanCost(cur) < mode.bound

(* The states a traced plan goes through.                                  *)
OnPath[k \in Nat, s \in States] ==
    IF k = 0 \/ parent[s] = NoState THEN {s}
    ELSE {s} \cup OnPath[k - 1, parent[s]]

(* No state of the plan violates the global constraint.                    *)
PlanKeepsConstraint ==
    solution_found =>
        OnPath[Cardinality(States), cur] \cap Violating = {}

(* The cheapest way to each state through at most k operators, over states *)
(* that are neither dead ends nor violate the constraint; the bound if     *)
(* none is below it.                                                       *)
MinCost(C) == CHOOSE m \in C : \A c \in C : m <= c
Usable(s) == s \notin DeadEnds \cup Violating
Cheapest[k \in Nat] ==
    IF k = 0
    THEN [s \in States |-> IF s = InitState /\ Usable(s) THEN 0 ELSE mode.bound]
    ELSE [s \in States |->
             MinCost({Cheapest[k - 1][s], mode.bound} \cup
                     {Cheapest[k - 1][e[1]] + Cost[e[2]] :
                         e \in {d \in DOMAIN Succ :
                                   Succ[d] = s /\ Usable(s)}})]
PlanExists == \E s \in Goals : Cheapest[Cardinality(States)][s] < mode.bound

(* "Completely explored state space -- no solution!" is only said when     *)
(* there is none below the bound.                                          *)
ExhaustedIsComplete == engine = "failed" => ~PlanExists

(* The same for searches that reopen closed nodes.                         *)
ReopeningExhaustsAll == mode.reopen => ExhaustedIsComplete

(* A phase ends: the wait for pending answers cannot go on for ever, and   *)
(* neither can the exchange of a state between the open list and the       *)
(* suspended set.                                                          *)
SearchEnds == <>(pc = "done")
============================================================================
