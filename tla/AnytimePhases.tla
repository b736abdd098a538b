---------------------------- MODULE AnytimePhases ----------------------------
(***************************************************************************)
(* An anytime run: the planner of IteratedSearch tells the controller      *)
(* where it is through lines on its standard output, while its bridge      *)
(* talks to the controller over HTTP.  In the controller three kinds of    *)
(* threads share the registry of the active phase and the records          *)
(* (hybrid_planner/anytime.py): the one that reads the lines, one handler  *)
(* for each HTTP request, and the event loop that completes the model's    *)
(* futures (hybrid_planner/console.py).  Nothing orders what arrives on    *)
(* the two channels.                                                       *)
(*                                                                         *)
(* The bridge is what LLMBridge shows of it: a submitted request is        *)
(* dispatched, answered and polled or, at the end of the phase, dropped    *)
(* from the queue or discarded.                                            *)
(***************************************************************************)
EXTENDS IteratedSearch, FiniteSets

CONSTANTS
    Requests,
    Direct      \* a search without iterated(): no phase lines are written

ASSUME AnytimeAssumption == IsFiniteSet(Requests) /\ Direct \in BOOLEAN

VARIABLES
    stdout,     \* lines written and not yet read
    \* the bridge of the current child
    life, iteration,
    answer,     \* the status in the response, if one arrived
    wire,       \* sent, and not yet received
    \* ActiveIterationRegistry
    active_iteration, lifecycle_seen, futures,
    \* the handler of each request, and its model future
    hpc, hstatus, future,
    \* AnytimeRunRecorder
    row,
    \* the main thread, that reads the lines
    rpc,
    marking,      \* the phase it is about to mark stale
    transport_ok  \* the requests whose row it gave transport_ok = 1

bridgeVars   == <<life, iteration, answer, wire>>
registryVars == <<active_iteration, lifecycle_seen, futures>>
handlerVars  == <<hpc, hstatus, future>>
readerVars   == <<rpc, marking, transport_ok>>
vars == <<plannerVars, stdout, bridgeVars, registryVars, handlerVars, row,
          readerVars>>

None == 0       \* no iteration: they count from one

Line(kind, i, rs) == [kind |-> kind, iteration |-> i, requests |-> rs]

Stale == {"stale_iteration", "discarded_phase_end"}

(* Each request in one of some stages moves to another one.                *)
Moved(from, to) ==
    [r \in Requests |-> IF life[r] \in from THEN to ELSE life[r]]

Init ==
    /\ PlannerInit
    /\ stdout = <<>>
    /\ life = [r \in Requests |-> "new"]
    /\ iteration = [r \in Requests |-> None]
    /\ answer = [r \in Requests |-> "none"]
    /\ wire = {}
    /\ active_iteration = None /\ lifecycle_seen = FALSE /\ futures = {}
    /\ hpc = [r \in Requests |-> "none"]
    /\ hstatus = [r \in Requests |-> "none"]
    /\ future = [r \in Requests |-> "none"]
    /\ row = [r \in Requests |-> "none"]
    /\ rpc = "read" /\ marking = None /\ transport_ok = {}

----------------------------------------------------------------------------
(* The planner and its bridge.                                             *)

Write(line) == stdout' = Append(stdout, line)

WritePhase(line) == IF Direct THEN UNCHANGED stdout ELSE Write(line)

PhaseStarts ==
    /\ StartPhase
    /\ WritePhase(Line("phase_start", phase', {}))
    /\ UNCHANGED <<bridgeVars, registryVars, handlerVars, row, readerVars>>

PhaseEnds ==
    /\ EndPhase
    /\ WritePhase(Line("phase_end", phase, {}))
    /\ UNCHANGED <<bridgeVars, registryVars, handlerVars, row, readerVars>>

BetweenPhases ==
    /\ NoPhase \/ SavePlan \/ Decide
    /\ UNCHANGED <<stdout, bridgeVars, registryVars, handlerVars, row,
                   readerVars>>

(* LLMBridge::stop and the final poll: what is queued is dropped, every    *)
(* other request that was not polled is reported as discarded.  What was   *)
(* sent may or may not have reached the controller.                        *)
StopBridge ==
    /\ Cleanup
    /\ LET discarded == {r \in Requests : life[r] \in {"sent", "answered"}}
       IN  /\ life' = [r \in Requests |->
                          CASE life[r] = "queued" -> "dropped"
                            [] r \in discarded    -> "discarded"
                            [] OTHER              -> life[r]]
           /\ IF discarded = {} THEN UNCHANGED stdout
              ELSE Write(Line("discarded", phase, discarded))
    /\ \E lost \in SUBSET wire : wire' = wire \ lost
    /\ UNCHANGED <<iteration, answer, registryVars, handlerVars, row,
                   readerVars>>

(* The process dies: its sockets close, and nothing more is written.       *)
KillPlanner ==
    /\ Kill
    /\ life' = Moved({"queued", "sent", "answered"}, "discarded")
    /\ \E lost \in SUBSET wire : wire' = wire \ lost
    /\ UNCHANGED <<stdout, iteration, answer, registryVars, handlerVars, row,
                   readerVars>>

ExpireDeadline ==
    /\ Expire
    /\ UNCHANGED <<stdout, bridgeVars, registryVars, handlerVars, row,
                   readerVars>>

Searching == ppc = "search" /\ ~killed

(* The bridge is alive until the child is cleaned up.                      *)
BridgeUp == ppc \in {"search", "save", "cleanup"} /\ ~killed

Submit(r) ==
    /\ Searching /\ life[r] = "new"
    /\ life' = [life EXCEPT ![r] = "queued"]
    /\ iteration' = [iteration EXCEPT ![r] = phase]
    /\ UNCHANGED <<plannerVars, stdout, answer, wire, registryVars,
                   handlerVars, row, readerVars>>

Dispatch(r) ==
    /\ BridgeUp /\ life[r] = "queued"
    /\ life' = [life EXCEPT ![r] = "sent"]
    /\ wire' = wire \cup {r}
    /\ UNCHANGED <<plannerVars, stdout, iteration, answer, registryVars,
                   handlerVars, row, readerVars>>

(* Connecting fails, the HTTP timeout passes, or the exchange breaks off.  *)
Fail(r) ==
    /\ BridgeUp /\ life[r] = "sent"
    /\ life' = [life EXCEPT ![r] = "answered"]
    /\ \E lost \in SUBSET {r} : wire' = wire \ lost
    /\ UNCHANGED <<plannerVars, stdout, iteration, answer, registryVars,
                   handlerVars, row, readerVars>>

(* poll_bridge: every completed exchange is taken, and written down with   *)
(* its transport_ok; one line stands for theirs, and names those that      *)
(* brought a response.                                                     *)
Poll ==
    /\ Searching
    /\ \E r \in Requests : life[r] = "answered"
    /\ life' = Moved({"answered"}, "delivered")
    /\ Write(Line("completed", None,
                  {r \in Requests : life[r] = "answered"
                                    /\ answer[r] # "none"}))
    /\ UNCHANGED <<plannerVars, iteration, answer, wire, registryVars,
                   handlerVars, row, readerVars>>

----------------------------------------------------------------------------
(* The handler of a request: do_POST.  is_active and accept_request are    *)
(* asked at several points; between two of them the phase may end.         *)

ServerUp == rpc \in {"read", "mark", "stop"}

IsActive(r) == active_iteration = iteration[r]

GoTo(r, point, status) ==
    /\ hpc' = [hpc EXCEPT ![r] = point]
    /\ hstatus' = [hstatus EXCEPT ![r] = status]

Handling == UNCHANGED <<plannerVars, stdout, bridgeVars, readerVars>>

(* request_received enters the request in the records.                     *)
Receive(r) ==
    /\ ServerUp /\ r \in wire
    /\ wire' = wire \ {r}
    /\ row' = [row EXCEPT ![r] = "received"]
    /\ GoTo(r, "received", "none")
    /\ UNCHANGED <<plannerVars, stdout, life, iteration, answer,
                   registryVars, future, readerVars>>

(* accept_request: without any phase line so far, a request activates its  *)
(* own iteration.                                                          *)
Accept(r) ==
    /\ hpc[r] = "received"
    /\ active_iteration' = IF active_iteration = None /\ ~lifecycle_seen
                           THEN iteration[r] ELSE active_iteration
    /\ IF active_iteration' = iteration[r]
       THEN GoTo(r, "prompt", "none")
       ELSE GoTo(r, "record", "stale_iteration")
    /\ Handling /\ UNCHANGED <<lifecycle_seen, futures, future, row>>

(* The prompt is built; while the phase is active the model is asked.      *)
BuildPrompt(r) ==
    /\ hpc[r] = "prompt"
    /\ \/ GoTo(r, "final", "error") /\ UNCHANGED future
       \/ /\ IsActive(r)
          /\ GoTo(r, "register", "none")
          /\ future' = [future EXCEPT ![r] = "running"]
       \/ /\ ~IsActive(r)
          /\ GoTo(r, "record", "stale_iteration") /\ UNCHANGED future
    /\ Handling /\ UNCHANGED <<registryVars, row>>

(* Variant: a future is registered without a look at the phase.            *)
RegisterAnyFuture(r) ==
    /\ hpc[r] = "register"
    /\ futures' = futures \cup {r} /\ GoTo(r, "wait", "none")
    /\ Handling
    /\ UNCHANGED <<active_iteration, lifecycle_seen, future, row>>

RegisterFuture(r) ==
    /\ hpc[r] = "register"
    /\ \/ /\ IsActive(r)
          /\ futures' = futures \cup {r} /\ GoTo(r, "wait", "none")
          /\ UNCHANGED future
       \/ /\ ~IsActive(r)
          /\ future' = [future EXCEPT
                            ![r] = IF @ = "running" THEN "cancelled" ELSE @]
          /\ GoTo(r, "record", "stale_iteration") /\ UNCHANGED futures
    /\ Handling
    /\ UNCHANGED <<active_iteration, lifecycle_seen, row>>

(* The event loop completes the future.                                    *)
ModelDone(r) ==
    /\ future[r] = "running"
    /\ future' = [future EXCEPT ![r] = "done"]
    /\ Handling /\ UNCHANGED <<registryVars, hpc, hstatus, row>>

(* future.result() returns or raises; an exception of the model call ends  *)
(* in internal_error.                                                      *)
Collect(r) ==
    /\ hpc[r] = "wait" /\ future[r] \in {"done", "cancelled"}
    /\ futures' = futures \ {r}
    /\ \/ future[r] = "done" /\ GoTo(r, "process", "none")
       \/ future[r] = "done" /\ GoTo(r, "final", "error")
       \/ future[r] = "cancelled" /\ GoTo(r, "record", "stale_iteration")
    /\ Handling /\ UNCHANGED <<active_iteration, lifecycle_seen, future, row>>

(* The samples are validated.  ok stands for ok and partial; unusable for  *)
(* parse_error, validation_error and invalid_plan, which are not final;    *)
(* error for llm_error, and with prompt_error and internal_error above     *)
(* for the ones that are.                                                  *)
Process(r) ==
    /\ hpc[r] = "process"
    /\ IF IsActive(r)
       THEN \E status \in {"ok", "unusable", "error"} :
               GoTo(r, "final", status)
       ELSE GoTo(r, "record", "stale_iteration")
    /\ Handling /\ UNCHANGED <<registryVars, future, row>>

FinalCheck(r) ==
    /\ hpc[r] = "final"
    /\ GoTo(r, "record", IF IsActive(r) THEN hstatus[r]
                                        ELSE "stale_iteration")
    /\ Handling /\ UNCHANGED <<registryVars, future, row>>

(* Variant: a late handler overwrites the status of its row.               *)
Overwritten(r) == hstatus[r]

(* request_finished.                                                       *)
Finished(r) == IF row[r] \in Stale THEN row[r] ELSE hstatus[r]

Record(r) ==
    /\ hpc[r] = "record"
    /\ row' = [row EXCEPT ![r] = Finished(r)]
    /\ hpc' = [hpc EXCEPT ![r] = "respond"]
    /\ Handling /\ UNCHANGED <<registryVars, hstatus, future>>

(* The response is sent, or abandoned when the planner has hung up.        *)
Respond(r) ==
    /\ hpc[r] = "respond"
    /\ hpc' = [hpc EXCEPT ![r] = "gone"]
    /\ IF life[r] = "sent"
       THEN /\ life' = [life EXCEPT ![r] = "answered"]
            /\ answer' = [answer EXCEPT ![r] = hstatus[r]]
       ELSE UNCHANGED <<life, answer>>
    /\ UNCHANGED <<plannerVars, stdout, iteration, wire, registryVars,
                   hstatus, future, row, readerVars>>

Handler(r) ==
    \/ Accept(r) \/ BuildPrompt(r) \/ RegisterFuture(r) \/ Collect(r)
    \/ Process(r) \/ FinalCheck(r) \/ Record(r) \/ Respond(r)

----------------------------------------------------------------------------
(* The main thread: handle_planner_line, and the end of main.              *)

Reading == UNCHANGED <<plannerVars, bridgeVars, hpc, hstatus>>

NextLine(kind) ==
    /\ rpc = "read" /\ stdout # <<>> /\ Head(stdout).kind = kind
    /\ stdout' = Tail(stdout)

ReadStart ==
    /\ NextLine("phase_start")
    /\ active_iteration' = Head(stdout).iteration
    /\ lifecycle_seen' = TRUE
    /\ Reading /\ UNCHANGED <<futures, future, row, readerVars>>

(* Future.cancel() fails when the future is done.                          *)
Cancel(rs) ==
    future' = [r \in Requests |-> IF r \in rs /\ future[r] = "running"
                                  THEN "cancelled" ELSE future[r]]

(* Variant: futures stay in flight when their phase ends.                  *)
EndIterationOnly(i) ==
    /\ active_iteration' = IF active_iteration = i THEN None
                           ELSE active_iteration
    /\ UNCHANGED <<futures, future>>

(* end_iteration.                                                          *)
EndIteration(i) ==
    LET ended == {r \in futures : iteration[r] = i}
    IN  /\ active_iteration' = IF active_iteration = i THEN None
                               ELSE active_iteration
        /\ futures' = futures \ ended
        /\ Cancel(ended)

ReadEnd ==
    /\ NextLine("phase_end")
    /\ EndIteration(Head(stdout).iteration)
    /\ rpc' = "mark" /\ marking' = Head(stdout).iteration
    /\ Reading /\ UNCHANGED <<lifecycle_seen, row, transport_ok>>

(* _mark_iteration_stale: every row the phase's requests have entered that *)
(* is neither usable nor an error of the controller; what the validation   *)
(* has turned down is overwritten, too.                                    *)
Marked(i) ==
    [r \in Requests |->
        IF /\ iteration[r] = i /\ hpc[r] # "none"
           /\ row[r] \notin {"ok", "error"}
        THEN "stale_iteration" ELSE row[r]]

MarkStale ==
    /\ rpc = "mark"
    /\ row' = Marked(marking)
    /\ rpc' = "read" /\ marking' = None
    /\ Reading /\ UNCHANGED <<stdout, registryVars, future, transport_ok>>

(* The line of a completed exchange adds its fields to the row.            *)
ReadCompleted ==
    /\ NextLine("completed")
    /\ transport_ok' = transport_ok \cup Head(stdout).requests
    /\ Reading /\ UNCHANGED <<registryVars, future, row, rpc, marking>>

(* Variant: only rows without a final status become discarded.             *)
DiscardUnfinished(s) == IF s = "ok" THEN s ELSE "discarded_phase_end"

DiscardedStatus(s) ==
    IF s = "stale_iteration" THEN s ELSE "discarded_phase_end"

ReadDiscarded ==
    /\ NextLine("discarded")
    /\ row' = [r \in Requests |-> IF r \in Head(stdout).requests
                                  THEN DiscardedStatus(row[r]) ELSE row[r]]
    /\ Reading /\ UNCHANGED <<registryVars, future, readerVars>>

(* planner_stopped after the last line: registry.close().                  *)
CloseRegistry ==
    /\ rpc = "read" /\ stdout = <<>> /\ (ppc = "exited" \/ killed)
    /\ marking' = active_iteration
    /\ active_iteration' = None /\ futures' = {}
    /\ Cancel(futures)
    /\ rpc' = "stop"
    /\ Reading /\ UNCHANGED <<stdout, lifecycle_seen, row, transport_ok>>

(* The rest of planner_stopped; then the server accepts no more requests.  *)
ShutDown ==
    /\ rpc = "stop"
    /\ row' = IF marking = None THEN row ELSE Marked(marking)
    /\ marking' = None /\ rpc' = "joining"
    /\ Reading /\ UNCHANGED <<stdout, registryVars, future, transport_ok>>

(* Variant: the handlers are not joined (block_on_close unset).            *)
HandlersMayRun == TRUE

HandlersGone == \A r \in Requests : hpc[r] \in {"none", "gone"}

(* server_close joins the handlers; recorder.close() stops the planner's   *)
(* records once more and writes them out for the last time.                *)
CloseRecords ==
    /\ rpc = "joining" /\ HandlersGone
    /\ row' = IF active_iteration = None THEN row
              ELSE Marked(active_iteration)
    /\ active_iteration' = None /\ futures' = {}
    /\ Cancel(futures)
    /\ rpc' = "closed"
    /\ Reading
    /\ UNCHANGED <<stdout, lifecycle_seen, marking, transport_ok>>

MainThread ==
    \/ ReadStart \/ ReadCompleted \/ ReadEnd \/ MarkStale
    \/ ReadDiscarded
    \/ CloseRegistry \/ ShutDown \/ CloseRecords

(* The run is over, or has used up the bound on its phases.                *)
Done ==
    /\ rpc = "closed" \/ Over
    /\ UNCHANGED vars

Planner == PhaseStarts \/ BetweenPhases \/ PhaseEnds \/ StopBridge

Next ==
    \/ Planner \/ KillPlanner \/ ExpireDeadline \/ Poll \/ MainThread \/ Done
    \/ \E r \in Requests :
          \/ Submit(r) \/ Dispatch(r) \/ Fail(r) \/ Receive(r)
          \/ Handler(r) \/ ModelDone(r)

Spec == Init /\ [][Next]_vars

(* The planner, the handlers and the main thread run on.  The model owes   *)
(* no answer: nothing rests on WF of ModelDone.                            *)
FairSpec ==
    /\ Spec
    /\ WF_vars(Planner) /\ WF_vars(MainThread)
    /\ \A r \in Requests : WF_vars(Handler(r))

----------------------------------------------------------------------------
TypeOK ==
    /\ PlannerTypeOK
    /\ stdout \in Seq([kind : {"phase_start", "completed", "phase_end",
                               "discarded"},
                       iteration : 0..MaxPhases,
                       requests : SUBSET Requests])
    /\ life \in [Requests -> {"new", "queued", "sent", "answered",
                              "delivered", "dropped", "discarded"}]
    /\ iteration \in [Requests -> 0..MaxPhases]
    /\ answer \in [Requests -> {"none", "ok", "unusable", "error",
                                "stale_iteration"}]
    /\ wire \subseteq Requests
    /\ active_iteration \in 0..MaxPhases /\ lifecycle_seen \in BOOLEAN
    /\ futures \subseteq Requests
    /\ hpc \in [Requests -> {"none", "received", "prompt", "register",
                             "wait", "process", "final", "record",
                             "respond", "gone"}]
    /\ hstatus \in [Requests -> {"none", "ok", "unusable", "error",
                                 "stale_iteration"}]
    /\ future \in [Requests -> {"none", "running", "done", "cancelled"}]
    /\ row \in [Requests -> {"none", "received", "ok", "unusable", "error"}
                             \cup Stale]
    /\ rpc \in {"read", "mark", "stop", "joining", "closed"}
    /\ marking \in 0..MaxPhases
    /\ transport_ok \subseteq Requests

(* A handler that waits for the model can be reached: its future is        *)
(* registered, and the line or the close that cancels it is still to come, *)
(* even when the main thread lags behind by phases (register_future looks  *)
(* at the phase again after the submission).                               *)
WaitersAreReached ==
    \A r \in Requests :
        hpc[r] = "wait" /\ future[r] = "running" =>
            /\ r \in futures
            /\ rpc \in {"read", "mark"}
            /\ \/ killed
               \/ iteration[r] = phase /\ ppc = "search"
               \/ Line("phase_end", iteration[r], {}) \in
                     {stdout[k] : k \in 1..Len(stdout)}

(* Once a phase is stale, a late handler must never turn it back into an   *)
(* apparently usable completion (the comment in request_finished).         *)
StaleStaysStale ==
    [][\A r \in Requests : row[r] \in Stale => row'[r] # "ok"]_vars

(* The planner made use of the answer: poll_llm_responses took it, its     *)
(* exchange had succeeded, and its status was usable.                      *)
Used(r) == life[r] = "delivered" /\ answer[r] = "ok"

(* What the planner made use of is recorded as ok, whatever raced with the *)
(* end of the phase.  When the run is over the row tells whether it did,   *)
(* even if the planner was killed: an ok row has transport_ok exactly when *)
(* the planner used the answer.  An ok row alone does not say so, for the  *)
(* planner may have given the exchange up (HTTP timeout) while the handler *)
(* went on to an answer nobody took; but unless the planner was killed it  *)
(* was then done with the request within its phase: one that it discarded  *)
(* at the end of the phase is never left as ok.                            *)
OkMeansUsed ==
    /\ \A r \in Requests : Used(r) => row[r] = "ok"
    /\ rpc = "closed" => \A r \in Requests :
          /\ row[r] = "ok" /\ r \in transport_ok <=> Used(r)
          /\ row[r] = "ok" /\ ~killed => life[r] = "delivered"

(* "Join request threads before writing the final CSVs so no late handler  *)
(* can mutate records after they have been flushed" (console.py, main).    *)
FlushedIsFinal == [][rpc = "closed" => row' = row]_vars

(* "Phase-end cancellation makes model waits bounded" (console.py, main):  *)
(* once the registry is closed nobody waits for a model that still runs.   *)
NoWaitAfterStop ==
    rpc = "joining" =>
        \A r \in Requests : hpc[r] = "wait" => future[r] # "running"

(* accept_request accepts the active phase: a request of the phase the     *)
(* planner is searching is not turned away as stale.                       *)
ActivePhaseAccepted ==
    [][\A r \in Requests :
          hpc[r] = "received" /\ hpc'[r] = "record"
          => ~(Searching /\ iteration[r] = phase)]_vars

(* When the planner has ended so does the controller, whether or not the   *)
(* model answers.                                                          *)
ControllerEnds == (ppc = "exited" \/ killed) ~> rpc = "closed"
=============================================================================
