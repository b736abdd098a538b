----------------------------- MODULE LLMBridge -----------------------------
(***************************************************************************)
(* The communication boundary between the search thread and the Python     *)
(* controller: class LLMBridge of search_engines/eager_search.cc, in HTTP  *)
(* mode.  The search thread only submits, polls and stops; blocking I/O    *)
(* happens in the worker threads.                                          *)
(*                                                                         *)
(* Granularity: one action per critical section of queue_mutex or          *)
(* socket_mutex and one per system call that can block.  register_socket_  *)
(* if_running holds both mutexes, so it is a single step.  The kernel's    *)
(* sockets are the only external part.                                     *)
(***************************************************************************)
EXTENDS Integers, Sequences, FiniteSets

CONSTANTS
    Requests,   \* the requests the search may submit during the phase
    Workers,    \* the threads of worker_threads
    MaxQueue,   \* NLM_LLM_HTTP_MAX_QUEUE; 0 means unbounded
    MaxAddrs,   \* bound: how many addresses getaddrinfo may return
    NoReq, NoFd \* no request, no file descriptor

ASSUME BridgeAssumption ==
    /\ IsFiniteSet(Requests) /\ IsFiniteSet(Workers) /\ Workers # {}
    /\ MaxQueue \in Nat
    /\ MaxAddrs \in Nat \ {0}
    /\ NoReq \notin Requests
    /\ NoFd \notin 1..Cardinality(Workers)

(* A worker owns at most one descriptor, so one per worker is enough for   *)
(* the kernel to hand out; a closed one is handed out again.               *)
Fds == 1..Cardinality(Workers)

VARIABLES
    \* under queue_mutex
    outgoing,               \* the FIFO of submitted requests
    completed,              \* the FIFO of responses
    active_requests,        \* dispatched and not yet pushed
    stopping,
    queued_discarded_on_stop,
    active_cancelled_on_stop,
    completed_unconsumed_on_stop,
    \* under socket_mutex
    active_sockets,
    \* the worker threads
    wpc, wreq, wfd, waddrs, wok,
    \* the kernel: what each descriptor is
    sock,
    \* the search thread
    spc,                    \* where it is in submit() or stop()
    rejected,               \* requests submit() returned false for
    dropped,                \* requests stop() found in outgoing and cleared
    delivered,              \* responses poll_bridge() returned to the search
    discarded               \* responses the final poll threw away

queueVars   == <<outgoing, completed, active_requests, stopping,
                 queued_discarded_on_stop, active_cancelled_on_stop,
                 completed_unconsumed_on_stop>>
workerVars  == <<wpc, wreq, wfd, waddrs, wok>>
socketVars  == <<active_sockets, sock>>
searchVars  == <<spc, rejected, dropped, delivered, discarded>>
counterVars == <<queued_discarded_on_stop, active_cancelled_on_stop,
                 completed_unconsumed_on_stop>>
vars == <<queueVars, socketVars, workerVars, searchVars>>

Response == [req : Requests, ok : BOOLEAN]

(* The program points a worker can be at.  "check" is the predicate of     *)
(* queue_cv.wait, "waiting" is blocked in it.                              *)
WorkerPoints == {"check", "waiting", "resolve", "socket", "register",
                 "connect", "send", "recv", "push", "exited"}
SearchPoints == {"run", "notify", "stop_notify", "stop_sweep", "stop_join",
                 "final_poll", "done"}
SockStates == {"free", "fresh", "connected", "shut"}

----------------------------------------------------------------------------
(* Derived sets, for guards and properties.                                *)

InQueue    == {outgoing[i] : i \in DOMAIN outgoing}
InFlight   == {wreq[w] : w \in Workers} \ {NoReq}
InCompleted == {completed[i].req : i \in DOMAIN completed}
Answered(rs) == {x.req : x \in rs}

Submitted == InQueue \cup InFlight \cup InCompleted \cup dropped
                \cup Answered(delivered) \cup Answered(discarded)

----------------------------------------------------------------------------
(* start(): worker_count threads, each about to wait on the empty queue.   *)
Init ==
    /\ outgoing = <<>> /\ completed = <<>>
    /\ active_requests = 0
    /\ stopping = FALSE
    /\ queued_discarded_on_stop = 0
    /\ active_cancelled_on_stop = 0
    /\ completed_unconsumed_on_stop = 0
    /\ active_sockets = {}
    /\ wpc    = [w \in Workers |-> "check"]
    /\ wreq   = [w \in Workers |-> NoReq]
    /\ wfd    = [w \in Workers |-> NoFd]
    /\ waddrs = [w \in Workers |-> 0]
    /\ wok    = [w \in Workers |-> FALSE]
    /\ sock   = [fd \in Fds |-> "free"]
    /\ spc = "run"
    /\ rejected = {} /\ dropped = {} /\ delivered = {} /\ discarded = {}

----------------------------------------------------------------------------
(* The search thread.                                                      *)

QueueFull == MaxQueue > 0 /\ Len(outgoing) >= MaxQueue

(* submit() up to the unlock.  A request is made once: its id is new.      *)
Submit(r) ==
    /\ spc = "run"
    /\ r \notin Submitted \cup rejected
    /\ \/ /\ ~stopping /\ ~QueueFull
          /\ outgoing' = Append(outgoing, r)
          /\ spc' = "notify"
          /\ UNCHANGED rejected
       \/ /\ stopping \/ QueueFull
          /\ rejected' = rejected \cup {r}
          /\ UNCHANGED <<outgoing, spc>>
    /\ UNCHANGED <<completed, active_requests, stopping, counterVars,
                   socketVars, workerVars, dropped, delivered, discarded>>

Waiting == {w \in Workers : wpc[w] = "waiting"}

(* queue_cv.notify_one(), after the lock is released: one blocked worker,  *)
(* if there is one, goes back to its predicate.                            *)
NotifyOne ==
    /\ spc = "notify"
    /\ spc' = "run"
    /\ \/ /\ Waiting = {}
          /\ UNCHANGED wpc
       \/ \E w \in Waiting : wpc' = [wpc EXCEPT ![w] = "check"]
    /\ UNCHANGED <<queueVars, socketVars, wreq, wfd, waddrs, wok,
                   rejected, dropped, delivered, discarded>>

(* poll_bridge() -> poll_completed(): everything completed so far.         *)
Poll ==
    /\ spc = "run"
    /\ completed # <<>>
    /\ delivered' = delivered \cup {completed[i] : i \in DOMAIN completed}
    /\ completed' = <<>>
    /\ UNCHANGED <<outgoing, active_requests, stopping, counterVars,
                   socketVars, workerVars, spc, rejected, dropped, discarded>>

(* stop(), first critical section.                                         *)
BeginStop ==
    /\ spc = "run"
    /\ ~stopping
    /\ stopping' = TRUE
    /\ queued_discarded_on_stop' = queued_discarded_on_stop + Len(outgoing)
    /\ active_cancelled_on_stop' = active_cancelled_on_stop + active_requests
    /\ completed_unconsumed_on_stop' =
           completed_unconsumed_on_stop + Len(completed)
    /\ dropped' = dropped \cup InQueue
    /\ outgoing' = <<>>
    /\ spc' = "stop_notify"
    /\ UNCHANGED <<completed, active_requests, socketVars, workerVars,
                   rejected, delivered, discarded>>

(* Variant: stop() wakes one worker only.                                  *)
NotifyAllWakesOne ==
    /\ spc = "stop_notify"
    /\ spc' = "stop_sweep"
    /\ \/ Waiting = {} /\ UNCHANGED wpc
       \/ \E w \in Waiting : wpc' = [wpc EXCEPT ![w] = "check"]
    /\ UNCHANGED <<queueVars, socketVars, wreq, wfd, waddrs, wok,
                   rejected, dropped, delivered, discarded>>

(* queue_cv.notify_all().                                                  *)
NotifyAll ==
    /\ spc = "stop_notify"
    /\ spc' = "stop_sweep"
    /\ wpc' = [w \in Workers |->
                  IF w \in Waiting THEN "check" ELSE wpc[w]]
    /\ UNCHANGED <<queueVars, socketVars, wreq, wfd, waddrs, wok,
                   rejected, dropped, delivered, discarded>>

(* stop(), second critical section: shutdown() on every registered socket. *)
(* On a socket that is not connected yet the call reports ENOTCONN, and    *)
(* whether it has an effect is the kernel's choice.                        *)
Sweep ==
    /\ spc = "stop_sweep"
    /\ spc' = "stop_join"
    /\ \E spared \in SUBSET {fd \in active_sockets : sock[fd] = "fresh"} :
           sock' = [fd \in Fds |->
                       IF fd \in active_sockets \ spared
                       THEN "shut" ELSE sock[fd]]
    /\ UNCHANGED <<queueVars, active_sockets, workerVars,
                   rejected, dropped, delivered, discarded>>

(* stop() joins the pool.                                                  *)
Join ==
    /\ spc = "stop_join"
    /\ \A w \in Workers : wpc[w] = "exited"
    /\ spc' = "final_poll"
    /\ UNCHANGED <<queueVars, socketVars, workerVars,
                   rejected, dropped, delivered, discarded>>

(* finalize_and_print(): poll_bridge(true) discards what is left.          *)
FinalPoll ==
    /\ spc = "final_poll"
    /\ spc' = "done"
    /\ discarded' = discarded \cup {completed[i] : i \in DOMAIN completed}
    /\ completed' = <<>>
    /\ UNCHANGED <<outgoing, active_requests, stopping, counterVars,
                   socketVars, workerVars, rejected, dropped, delivered>>

----------------------------------------------------------------------------
(* A worker thread.                                                        *)

At(w, point) == wpc[w] = point
Goto(w, point) == wpc' = [wpc EXCEPT ![w] = point]

(* worker_loop: the predicate of queue_cv.wait is false.                   *)
Block(w) ==
    /\ At(w, "check") /\ ~stopping /\ outgoing = <<>>
    /\ Goto(w, "waiting")
    /\ UNCHANGED <<queueVars, socketVars, wreq, wfd, waddrs, wok, searchVars>>

(* The condition variable may wake a thread without a notification.        *)
SpuriousWakeup(w) ==
    /\ At(w, "waiting")
    /\ Goto(w, "check")
    /\ UNCHANGED <<queueVars, socketVars, wreq, wfd, waddrs, wok, searchVars>>

(* worker_loop: stopping wins over queued work.                            *)
Exit(w) ==
    /\ At(w, "check") /\ stopping
    /\ Goto(w, "exited")
    /\ UNCHANGED <<queueVars, socketVars, wreq, wfd, waddrs, wok, searchVars>>

(* Variant: the counter only says whether any worker is busy.              *)
DispatchMarksBusy(w) ==
    /\ At(w, "check") /\ ~stopping /\ outgoing # <<>>
    /\ wreq' = [wreq EXCEPT ![w] = Head(outgoing)]
    /\ outgoing' = Tail(outgoing)
    /\ active_requests' = IF active_requests = 0 THEN 1 ELSE active_requests
    /\ Goto(w, "resolve")
    /\ UNCHANGED <<completed, stopping, counterVars, socketVars,
                   wfd, waddrs, wok, searchVars>>

Dispatch(w) ==
    /\ At(w, "check") /\ ~stopping /\ outgoing # <<>>
    /\ wreq' = [wreq EXCEPT ![w] = Head(outgoing)]
    /\ outgoing' = Tail(outgoing)
    /\ active_requests' = active_requests + 1
    /\ Goto(w, "resolve")
    /\ UNCHANGED <<completed, stopping, counterVars, socketVars,
                   wfd, waddrs, wok, searchVars>>

(* Variant: a failed lookup returns to the loop without pushing.           *)
ResolveForgets(w) ==
    /\ At(w, "resolve")
    /\ wok' = [wok EXCEPT ![w] = FALSE]
    /\ \/ /\ Goto(w, "check")
          /\ UNCHANGED waddrs
       \/ /\ \E n \in 1..MaxAddrs : waddrs' = [waddrs EXCEPT ![w] = n]
          /\ Goto(w, "socket")
    /\ UNCHANGED <<queueVars, socketVars, wreq, wfd, searchVars>>

(* getaddrinfo: fails, or gives 1..MaxAddrs addresses.                     *)
Resolve(w) ==
    /\ At(w, "resolve")
    /\ wok' = [wok EXCEPT ![w] = FALSE]
    /\ \/ /\ Goto(w, "push")
          /\ UNCHANGED waddrs
       \/ /\ \E n \in 1..MaxAddrs : waddrs' = [waddrs EXCEPT ![w] = n]
          /\ Goto(w, "socket")
    /\ UNCHANGED <<queueVars, socketVars, wreq, wfd, searchVars>>

(* socket() for the next address: no address is left, the call fails, or   *)
(* the kernel hands out a free descriptor.                                 *)
OpenSocket(w) ==
    /\ At(w, "socket")
    /\ \/ /\ waddrs[w] = 0
          /\ Goto(w, "push")
          /\ UNCHANGED <<sock, wfd, waddrs>>
       \/ /\ waddrs[w] > 0
          /\ waddrs' = [waddrs EXCEPT ![w] = @ - 1]
          /\ UNCHANGED <<sock, wfd, wpc>>
       \/ /\ waddrs[w] > 0
          /\ \E fd \in Fds :
                /\ sock[fd] = "free"
                /\ sock' = [sock EXCEPT ![fd] = "fresh"]
                /\ wfd' = [wfd EXCEPT ![w] = fd]
          /\ waddrs' = [waddrs EXCEPT ![w] = @ - 1]
          /\ Goto(w, "register")
    /\ UNCHANGED <<queueVars, active_sockets, wreq, wok, searchVars>>

(* close(fd): the descriptor is free for any thread from here on.          *)
Close(w) ==
    /\ sock' = [sock EXCEPT ![wfd[w]] = "free"]
    /\ wfd' = [wfd EXCEPT ![w] = NoFd]

(* Variant: the socket is closed but stays registered.                     *)
CloseOnly(w) == UNCHANGED active_sockets /\ Close(w)

(* close_registered_socket: erase and close under socket_mutex.            *)
CloseRegistered(w) ==
    /\ active_sockets' = active_sockets \ {wfd[w]}
    /\ Close(w)

(* Variant: the insertion does not test stopping.                          *)
RegisterAlways(w) ==
    /\ At(w, "register")
    /\ active_sockets' = active_sockets \cup {wfd[w]}
    /\ Goto(w, "connect")
    /\ UNCHANGED <<queueVars, sock, wfd, wreq, waddrs, wok, searchVars>>

(* register_socket_if_running: the test of stopping and the insertion are  *)
(* one critical section of queue_mutex.  A refused socket is closed.       *)
Register(w) ==
    /\ At(w, "register")
    /\ \/ /\ stopping
          /\ Close(w)
          /\ Goto(w, "push")
          /\ UNCHANGED active_sockets
       \/ /\ ~stopping
          /\ active_sockets' = active_sockets \cup {wfd[w]}
          /\ Goto(w, "connect")
          /\ UNCHANGED <<sock, wfd>>
    /\ UNCHANGED <<queueVars, wreq, waddrs, wok, searchVars>>

(* connect(), bounded by SO_SNDTIMEO.                                      *)
Connect(w) ==
    /\ At(w, "connect")
    /\ \/ /\ sock' = [sock EXCEPT ![wfd[w]] =
                         IF @ = "fresh" THEN "connected" ELSE @]
          /\ Goto(w, "send")
          /\ UNCHANGED <<active_sockets, wfd>>
       \/ /\ CloseRegistered(w)
          /\ Goto(w, "socket")
    /\ UNCHANGED <<queueVars, wreq, waddrs, wok, searchVars>>

(* send_all(), bounded by SO_SNDTIMEO; a shut socket cannot send.          *)
Send(w) ==
    /\ At(w, "send")
    /\ \/ /\ sock[wfd[w]] # "shut"
          /\ Goto(w, "recv")
          /\ UNCHANGED <<active_sockets, sock, wfd>>
       \/ /\ CloseRegistered(w)
          /\ Goto(w, "push")
    /\ UNCHANGED <<queueVars, wreq, waddrs, wok, searchVars>>

(* The recv loop to its end: a 2xx response, another or a short one, an    *)
(* error or a timeout (SO_RCVTIMEO).  Bytes that arrived before a shutdown *)
(* can still be read, so a shut socket may yield either.                   *)
Receive(w) ==
    /\ At(w, "recv")
    /\ \E ok \in BOOLEAN : wok' = [wok EXCEPT ![w] = ok]
    /\ CloseRegistered(w)
    /\ Goto(w, "push")
    /\ UNCHANGED <<queueVars, wreq, waddrs, searchVars>>

PushCompleted(w) ==
    /\ At(w, "push")
    /\ active_requests' = active_requests - 1
    /\ completed' = Append(completed, [req |-> wreq[w], ok |-> wok[w]])
    /\ wreq' = [wreq EXCEPT ![w] = NoReq]
    /\ Goto(w, "check")
    /\ UNCHANGED <<outgoing, stopping, counterVars, socketVars,
                   wfd, waddrs, wok, searchVars>>

----------------------------------------------------------------------------
(* What a worker does by itself, without a wake-up from elsewhere.         *)
Worker(w) ==
    \/ Block(w) \/ Exit(w) \/ Dispatch(w) \/ Resolve(w) \/ OpenSocket(w)
    \/ Register(w) \/ Connect(w) \/ Send(w) \/ Receive(w) \/ PushCompleted(w)

StopSteps == NotifyAll \/ Sweep \/ Join \/ FinalPoll

Terminated == spc = "done" /\ UNCHANGED vars

Next ==
    \/ \E r \in Requests : Submit(r)
    \/ NotifyOne \/ Poll \/ BeginStop \/ StopSteps
    \/ \E w \in Workers : Worker(w) \/ SpuriousWakeup(w)
    \/ Terminated

Spec == Init /\ [][Next]_vars

(* Threads are scheduled, and every blocking call of a worker ends: socket *)
(* timeouts bound connect, send and recv, the resolver bounds getaddrinfo. *)
(* Whether and when the search submits, polls or ends is its own choice.   *)
Fairness ==
    /\ WF_vars(NotifyOne) /\ WF_vars(StopSteps)
    /\ \A w \in Workers : WF_vars(Worker(w))

FairSpec == Spec /\ Fairness

----------------------------------------------------------------------------
(* Properties.                                                             *)

TypeOK ==
    /\ outgoing \in Seq(Requests) /\ completed \in Seq(Response)
    /\ active_requests \in Nat /\ stopping \in BOOLEAN
    /\ queued_discarded_on_stop \in Nat
    /\ active_cancelled_on_stop \in Nat
    /\ completed_unconsumed_on_stop \in Nat
    /\ active_sockets \subseteq Fds \cup {NoFd}
    /\ wpc \in [Workers -> WorkerPoints]
    /\ wreq \in [Workers -> Requests \cup {NoReq}]
    /\ wfd \in [Workers -> Fds \cup {NoFd}]
    /\ waddrs \in [Workers -> 0..MaxAddrs]
    /\ wok \in [Workers -> BOOLEAN]
    /\ sock \in [Fds -> SockStates]
    /\ spc \in SearchPoints
    /\ rejected \subseteq Requests /\ dropped \subseteq Requests
    /\ delivered \subseteq Response /\ discarded \subseteq Response

(* Every accepted request is in exactly one place: the queue, one worker,  *)
(* the completed queue, or one of the three ways out; active_requests is   *)
(* the number of workers that hold one.  A response pushed twice, a        *)
(* request taken by two workers or a miscounted decrement breaks it.       *)
EachRequestInOnePlace ==
    /\ active_requests = Cardinality({w \in Workers : wreq[w] # NoReq})
    /\ active_requests = Cardinality(InFlight)
    /\ Cardinality(Submitted) =
           Len(outgoing) + active_requests + Len(completed)
           + Cardinality(dropped) + Cardinality(delivered)
           + Cardinality(discarded)

(* active_sockets holds exactly the open descriptors of workers in an      *)
(* exchange, one owner each, so the shutdown sweep of stop() can hit       *)
(* neither a closed descriptor nor one the kernel has handed out again.    *)
Exchanging == {w \in Workers : wpc[w] \in {"connect", "send", "recv"}}
SweepHitsOwnSockets ==
    /\ active_sockets = {wfd[w] : w \in Exchanging}
    /\ \A fd \in active_sockets : sock[fd] # "free"
    /\ \A v, w \in Workers : wfd[v] = wfd[w] => v = w \/ wfd[v] = NoFd

(* Once stop() has set stopping no worker registers a socket any more, so  *)
(* the one sweep misses none: each exchange that is still open after it    *)
(* was open when it ran.                                                   *)
NothingEscapesSweep ==
    [][stopping => active_sockets' \subseteq active_sockets]_vars

(* What the phase-end line reports adds up: every request the bridge       *)
(* accepted was delivered, discarded or dropped; the responses discarded   *)
(* at the end are those found completed plus those cut off in flight; and  *)
(* no descriptor is left open.                                             *)
PhaseEndAccounting ==
    spc = "done" =>
        /\ Submitted = dropped \cup Answered(delivered) \cup Answered(discarded)
        /\ Cardinality(discarded) =
               completed_unconsumed_on_stop + active_cancelled_on_stop
        /\ Cardinality(dropped) = queued_discarded_on_stop
        /\ \A fd \in Fds : sock[fd] = "free"

(* stop() returns: no worker stays blocked on the condition variable or in *)
(* a system call, so the phase end cannot hang.                            *)
StopReturns == stopping ~> spc = "done"

(* No wake-up is lost: a queued or dispatched request does not stay there, *)
(* whatever the workers were doing when submit() notified them.            *)
RequestsMove ==
    \A r \in Requests : r \in InQueue \cup InFlight
                          ~> r \notin InQueue \cup InFlight

----------------------------------------------------------------------------
(* What the bridge promises its caller, without threads or sockets.        *)

Life(r) ==
    CASE r \in InQueue             -> "queued"
      [] r \in InFlight            -> "sent"
      [] r \in InCompleted         -> "answered"
      [] r \in Answered(delivered) -> "delivered"
      [] r \in Answered(discarded) -> "discarded"
      [] r \in dropped             -> "dropped"
      [] r \in rejected            -> "refused"
      [] OTHER                     -> "new"

Lifecycle == INSTANCE RequestLifecycle
                 WITH life <- [r \in Requests |-> Life(r)],
                      open <- ~stopping

(* The bridge implements the life cycle of requests: no request is         *)
(* answered twice, dispatched after the stop, or lost without being        *)
(* counted among the dropped or the discarded.                             *)
ImplementsLifecycle == Lifecycle!Spec
============================================================================
