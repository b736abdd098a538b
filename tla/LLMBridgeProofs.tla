-------------------------- MODULE LLMBridgeProofs --------------------------
(***************************************************************************)
(* For every set of requests, pool of workers, queue bound and number of   *)
(* addresses: a request is in one place, the sweep of stop() hits only the *)
(* sockets of open exchanges and misses none that is registered, the       *)
(* accounts of the phase end add up, and the bridge implements             *)
(* RequestLifecycle.                                                       *)
(***************************************************************************)
EXTENDS LLMBridge, FiniteSetTheorems, SequenceTheorems, TLAPS

(***************************************************************************)
(* The inductive invariant.                                                *)
(***************************************************************************)

(* TypeOK, but that the count of active requests may be any integer: that  *)
(* it never runs below zero follows from what it counts.                   *)
Types ==
    /\ outgoing \in Seq(Requests) /\ completed \in Seq(Response)
    /\ active_requests \in Int /\ stopping \in BOOLEAN
    /\ queued_discarded_on_stop \in Nat
    /\ active_cancelled_on_stop \in Int
    /\ completed_unconsumed_on_stop \in Nat
    /\ wpc \in [Workers -> WorkerPoints]
    /\ wreq \in [Workers -> Requests \cup {NoReq}]
    /\ wfd \in [Workers -> Fds \cup {NoFd}]
    /\ waddrs \in [Workers -> 0..MaxAddrs]
    /\ wok \in [Workers -> BOOLEAN]
    /\ sock \in [Fds -> SockStates]
    /\ spc \in SearchPoints
    /\ rejected \subseteq Requests /\ dropped \subseteq Requests
    /\ delivered \subseteq Response /\ discarded \subseteq Response

(* A worker holds a request from dispatch to push, and a descriptor from   *)
(* socket() to close().                                                    *)
Busy    == {"resolve", "socket", "register", "connect", "send", "recv", "push"}
Holding == {"register", "connect", "send", "recv"}

WorkersOK ==
    \A w \in Workers :
        /\ wreq[w] # NoReq <=> wpc[w] \in Busy
        /\ wfd[w] # NoFd <=> wpc[w] \in Holding
        /\ wpc[w] = "exited" => stopping

(* A descriptor has one holder, and is open exactly while it is held.      *)
DescriptorsOK ==
    /\ \A v, w \in Workers : wfd[v] = wfd[w] => v = w \/ wfd[v] = NoFd
    /\ \A fd \in Fds : sock[fd] # "free" <=> \E w \in Workers : wfd[w] = fd
    /\ active_sockets = {wfd[w] : w \in Exchanging}

SocketInv == Types /\ WorkersOK /\ DescriptorsOK

(* No request is twice in one place...                                     *)
NoDuplicates ==
    /\ IsInjective(outgoing)
    /\ \A v, w \in Workers : wreq[v] = wreq[w] => v = w \/ wreq[v] = NoReq
    /\ \A i, j \in DOMAIN completed : completed[i].req = completed[j].req => i = j
    /\ \A x, y \in delivered : x.req = y.req => x = y
    /\ \A x, y \in discarded : x.req = y.req => x = y

(* ... and none is in two places.                                          *)
Disjoint(S, T) == S \cap T = {}

PlacesDisjoint ==
    /\ Disjoint(InQueue, InFlight \cup InCompleted \cup dropped
                  \cup Answered(delivered) \cup Answered(discarded) \cup rejected)
    /\ Disjoint(InFlight, InCompleted \cup dropped
                  \cup Answered(delivered) \cup Answered(discarded) \cup rejected)
    /\ Disjoint(InCompleted, dropped \cup Answered(delivered)
                  \cup Answered(discarded) \cup rejected)
    /\ Disjoint(dropped, Answered(delivered) \cup Answered(discarded) \cup rejected)
    /\ Disjoint(Answered(delivered), Answered(discarded) \cup rejected)
    /\ Disjoint(Answered(discarded), rejected)

CountOK == active_requests = Cardinality(InFlight)

RequestInv == NoDuplicates /\ PlacesDisjoint /\ CountOK

(* What stop() has counted, at each point of the search thread.            *)
PhaseOK ==
    /\ active_cancelled_on_stop \in Nat
    /\ stopping <=> spc \notin {"run", "notify"}
    /\ ~stopping => /\ queued_discarded_on_stop = 0
                    /\ active_cancelled_on_stop = 0
                    /\ completed_unconsumed_on_stop = 0
                    /\ dropped = {}
    /\ stopping => /\ outgoing = <<>>
                   /\ Cardinality(dropped) = queued_discarded_on_stop
    /\ stopping /\ spc # "done" =>
           Len(completed) + active_requests
               = completed_unconsumed_on_stop + active_cancelled_on_stop
    /\ spc # "done" => discarded = {}
    /\ spc \in {"final_poll", "done"} => \A w \in Workers : wpc[w] = "exited"
    /\ spc = "done" =>
           /\ completed = <<>>
           /\ Cardinality(discarded)
                  = completed_unconsumed_on_stop + active_cancelled_on_stop

IInv == SocketInv /\ RequestInv /\ PhaseOK

----------------------------------------------------------------------------
(***************************************************************************)
(* Workers and descriptors.                                                *)
(***************************************************************************)

(* A lookup leaves some number of addresses to try.                        *)
LEMMA AddressFacts ==
    /\ 0 \in 0..MaxAddrs
    /\ 1..MaxAddrs \subseteq 0..MaxAddrs
BY BridgeAssumption

(* start() gives each worker nothing to do and no socket.                  *)
LEMMA InitSocketInv == Init => SocketInv
<1> SUFFICES ASSUME Init PROVE SocketInv
  OBVIOUS
<1>1. outgoing \in Seq(Requests) /\ completed \in Seq(Response)
  BY EmptySeq DEF Init
<1>2. waddrs \in [Workers -> 0..MaxAddrs] /\ wok \in [Workers -> BOOLEAN]
  BY AddressFacts DEF Init
<1>3. Types
  <2>1. /\ wpc \in [Workers -> WorkerPoints]
        /\ wreq \in [Workers -> Requests \cup {NoReq}]
        /\ wfd \in [Workers -> Fds \cup {NoFd}]
        /\ sock \in [Fds -> SockStates]
    BY DEF Init, WorkerPoints, SockStates
  <2>2. /\ active_requests \in Int
        /\ queued_discarded_on_stop \in Nat
        /\ active_cancelled_on_stop \in Int
        /\ completed_unconsumed_on_stop \in Nat
        /\ spc \in SearchPoints
    BY DEF Init, SearchPoints
  <2>3. /\ rejected \subseteq Requests /\ dropped \subseteq Requests
        /\ delivered \subseteq Response /\ discarded \subseteq Response
        /\ stopping \in BOOLEAN
    BY DEF Init
  <2> QED
    BY <1>1, <1>2, <2>1, <2>2, <2>3 DEF Types
<1>4. WorkersOK
  BY DEF Init, WorkersOK, Busy, Holding
<1>5. DescriptorsOK
  BY BridgeAssumption DEF Init, DescriptorsOK, Exchanging, Fds
<1> QED
  BY <1>3, <1>4, <1>5 DEF SocketInv

(* Every step keeps the types; a pushed response is that of a request.     *)
LEMMA TypesNext == SocketInv /\ [Next]_vars => Types'
<1> SUFFICES ASSUME SocketInv, [Next]_vars PROVE Types'
  OBVIOUS
<1> USE DEF SocketInv, Types, queueVars, socketVars, workerVars, searchVars,
            counterVars, At, Goto, WorkerPoints, SearchPoints
<1>1. ASSUME NEW r \in Requests, Submit(r) PROVE Types'
  <2>1. Append(outgoing, r) \in Seq(Requests)
    BY AppendProperties
  <2> QED
    BY <1>1, <2>1 DEF Submit
<1>2. CASE NotifyOne
  BY <1>2 DEF NotifyOne, Waiting
<1>3. CASE Poll
  <2>1. \A i \in DOMAIN completed : completed[i] \in Response
    BY ElementOfSeq, LenProperties
  <2>2. <<>> \in Seq(Response)
    BY EmptySeq
  <2> QED
    BY <1>3, <2>1, <2>2 DEF Poll
<1>4. CASE BeginStop
  <2>1. Len(outgoing) \in Nat /\ Len(completed) \in Nat
    BY LenProperties
  <2>2. InQueue \subseteq Requests
    BY ElementOfSeq, LenProperties DEF InQueue
  <2>3. <<>> \in Seq(Requests)
    BY EmptySeq
  <2> QED
    BY <1>4, <2>1, <2>2, <2>3 DEF BeginStop
<1>5. CASE NotifyAll
  BY <1>5 DEF NotifyAll, Waiting
<1>6. CASE Sweep
  BY <1>6 DEF Sweep, SockStates
<1>7. CASE Join
  BY <1>7 DEF Join
<1>8. CASE FinalPoll
  <2>1. \A i \in DOMAIN completed : completed[i] \in Response
    BY ElementOfSeq, LenProperties
  <2>2. <<>> \in Seq(Response)
    BY EmptySeq
  <2> QED
    BY <1>8, <2>1, <2>2 DEF FinalPoll
<1>9. ASSUME NEW w \in Workers, Block(w) \/ Exit(w) \/ SpuriousWakeup(w)
      PROVE  Types'
  BY <1>9 DEF Block, Exit, SpuriousWakeup
<1>10. ASSUME NEW w \in Workers, Dispatch(w) PROVE Types'
  <2>1. Head(outgoing) \in Requests /\ Tail(outgoing) \in Seq(Requests)
    BY <1>10, HeadTailProperties DEF Dispatch
  <2> QED
    BY <1>10, <2>1 DEF Dispatch
<1>11. ASSUME NEW w \in Workers, Resolve(w) PROVE Types'
  <2>1. \/ waddrs' = waddrs
        \/ \E n \in 1..MaxAddrs : waddrs' = [waddrs EXCEPT ![w] = n]
    BY <1>11 DEF Resolve
  <2>2. waddrs' \in [Workers -> 0..MaxAddrs]
    BY <2>1, AddressFacts
  <2> QED
    BY <1>11, <2>2 DEF Resolve
<1>12. ASSUME NEW w \in Workers, OpenSocket(w) PROVE Types'
  <2>1. waddrs' \in [Workers -> 0..MaxAddrs]
    <3>1. waddrs[w] > 0 => waddrs[w] - 1 \in 0..MaxAddrs
      BY BridgeAssumption
    <3>2. \/ waddrs' = waddrs
          \/ waddrs[w] > 0 /\ waddrs' = [waddrs EXCEPT ![w] = waddrs[w] - 1]
      BY <1>12 DEF OpenSocket
    <3> QED
      BY <3>1, <3>2
  <2>2. \/ UNCHANGED <<sock, wfd>>
        \/ \E fd \in Fds : /\ sock' = [sock EXCEPT ![fd] = "fresh"]
                           /\ wfd' = [wfd EXCEPT ![w] = fd]
    BY <1>12 DEF OpenSocket
  <2>3. sock' \in [Fds -> SockStates] /\ wfd' \in [Workers -> Fds \cup {NoFd}]
    BY <2>2 DEF SockStates
  <2> QED
    BY <1>12, <2>1, <2>3 DEF OpenSocket
<1>13. ASSUME NEW w \in Workers, Register(w) PROVE Types'
  BY <1>13 DEF Register, Close, SockStates
<1>14. ASSUME NEW w \in Workers, Connect(w) \/ Send(w) \/ Receive(w)
       PROVE  Types'
  BY <1>14 DEF Connect, Send, Receive, CloseRegistered, Close, SockStates
<1>15. ASSUME NEW w \in Workers, PushCompleted(w) PROVE Types'
  <2>1. wreq[w] \in Requests
    BY <1>15 DEF PushCompleted, WorkersOK, Busy
  <2>2. [req |-> wreq[w], ok |-> wok[w]] \in Response
    BY <2>1 DEF Response
  <2>3. completed' \in Seq(Response)
    BY <1>15, <2>2, AppendProperties DEF PushCompleted
  <2> QED
    BY <1>15, <2>3 DEF PushCompleted
<1>16. CASE UNCHANGED vars
  BY <1>16 DEF vars
<1> QED
  BY <1>1, <1>2, <1>3, <1>4, <1>5, <1>6, <1>7, <1>8, <1>9, <1>10, <1>11,
     <1>12, <1>13, <1>14, <1>15, <1>16
  DEF Next, StopSteps, Worker, Terminated

(* Every step keeps the bond between a worker's program point and what it  *)
(* holds; no thread that has left comes back.                              *)
LEMMA WorkersNext == SocketInv /\ [Next]_vars => WorkersOK'
<1> SUFFICES ASSUME SocketInv, [Next]_vars, NEW v \in Workers
             PROVE  /\ wreq'[v] # NoReq <=> wpc'[v] \in Busy
                    /\ wfd'[v] # NoFd <=> wpc'[v] \in Holding
                    /\ wpc'[v] = "exited" => stopping'
  BY DEF WorkersOK
<1> USE DEF SocketInv, Types, WorkersOK, queueVars, socketVars, workerVars,
            searchVars, counterVars, At, Goto, Busy, Holding
<1>1. ASSUME NEW r \in Requests, Submit(r)
      PROVE  UNCHANGED <<wpc, wreq, wfd, stopping>>
  BY <1>1 DEF Submit
<1>2. CASE NotifyOne \/ NotifyAll
  BY <1>2 DEF NotifyOne, NotifyAll, Waiting
<1>3. CASE Poll \/ BeginStop \/ Sweep \/ Join \/ FinalPoll
  BY <1>3 DEF Poll, BeginStop, Sweep, Join, FinalPoll
<1>4. ASSUME NEW w \in Workers, Block(w) \/ Exit(w) \/ SpuriousWakeup(w)
      PROVE  /\ wreq'[v] # NoReq <=> wpc'[v] \in Busy
             /\ wfd'[v] # NoFd <=> wpc'[v] \in Holding
             /\ wpc'[v] = "exited" => stopping'
  BY <1>4 DEF Block, Exit, SpuriousWakeup
<1>5. ASSUME NEW w \in Workers, Dispatch(w)
      PROVE  /\ wreq'[v] # NoReq <=> wpc'[v] \in Busy
             /\ wfd'[v] # NoFd <=> wpc'[v] \in Holding
             /\ wpc'[v] = "exited" => stopping'
  <2>1. Head(outgoing) \in Requests
    BY <1>5, HeadTailProperties DEF Dispatch
  <2> QED
    BY <1>5, <2>1, BridgeAssumption DEF Dispatch
<1>6. ASSUME NEW w \in Workers, Resolve(w) \/ OpenSocket(w)
      PROVE  /\ wreq'[v] # NoReq <=> wpc'[v] \in Busy
             /\ wfd'[v] # NoFd <=> wpc'[v] \in Holding
             /\ wpc'[v] = "exited" => stopping'
  BY <1>6, BridgeAssumption DEF Resolve, OpenSocket, Fds
<1>7. ASSUME NEW w \in Workers, Register(w) \/ Connect(w) \/ Send(w) \/ Receive(w)
      PROVE  /\ wreq'[v] # NoReq <=> wpc'[v] \in Busy
             /\ wfd'[v] # NoFd <=> wpc'[v] \in Holding
             /\ wpc'[v] = "exited" => stopping'
  BY <1>7 DEF Register, Connect, Send, Receive, CloseRegistered, Close
<1>8. ASSUME NEW w \in Workers, PushCompleted(w)
      PROVE  /\ wreq'[v] # NoReq <=> wpc'[v] \in Busy
             /\ wfd'[v] # NoFd <=> wpc'[v] \in Holding
             /\ wpc'[v] = "exited" => stopping'
  BY <1>8 DEF PushCompleted
<1>9. CASE UNCHANGED vars
  BY <1>9 DEF vars
<1> QED
  BY <1>1, <1>2, <1>3, <1>4, <1>5, <1>6, <1>7, <1>8, <1>9
  DEF Next, StopSteps, Worker, Terminated

(* close() by the holder frees exactly its descriptor.                     *)
LEMMA CloseDescriptor ==
  ASSUME SocketInv, NEW w \in Workers, wpc[w] \in Holding, Close(w)
  PROVE  /\ \A u, v \in Workers : wfd'[u] = wfd'[v] => u = v \/ wfd'[u] = NoFd
         /\ \A fd \in Fds : sock'[fd] # "free" <=> \E v \in Workers : wfd'[v] = fd
<1> USE DEF SocketInv, Types, DescriptorsOK, Close
<1>1. wfd[w] \in Fds /\ NoFd \notin Fds
  BY BridgeAssumption DEF WorkersOK, Fds
<1>2. \A v \in Workers : wfd'[v] = IF v = w THEN NoFd ELSE wfd[v]
  OBVIOUS
<1>3. \A fd \in Fds : sock'[fd] = IF fd = wfd[w] THEN "free" ELSE sock[fd]
  BY <1>1
<1> QED
  BY <1>1, <1>2, <1>3

(* close_registered_socket keeps the registered sockets those of the       *)
(* exchanges that are left.                                                *)
LEMMA CloseRegisteredDescriptor ==
  ASSUME SocketInv, NEW w \in Exchanging, CloseRegistered(w),
         NEW point \in {"socket", "push"}, Goto(w, point)
  PROVE  DescriptorsOK'
<1> USE DEF SocketInv, Types, CloseRegistered
<1>1. w \in Workers /\ wpc[w] \in Holding
  BY DEF Exchanging, Holding
<1>2. \A v \in Workers : wfd'[v] = IF v = w THEN NoFd ELSE wfd[v]
  BY <1>1 DEF Close
<1>3. Exchanging' = Exchanging \ {w}
  BY <1>1 DEF Exchanging, Goto
<1>4. \A v \in Exchanging : v \in Workers /\ wfd[v] # NoFd
  BY DEF Exchanging, WorkersOK, Holding
<1>5. \A v \in Exchanging : v # w => wfd[v] # wfd[w]
  BY <1>1, <1>4 DEF DescriptorsOK
<1>6. active_sockets' = {wfd'[v] : v \in Exchanging'}
  <2>1. \A v \in Exchanging' : v \in Exchanging /\ v # w /\ wfd'[v] = wfd[v]
    BY <1>2, <1>3, <1>4
  <2>2. active_sockets' = {wfd[v] : v \in Exchanging} \ {wfd[w]}
    BY DEF DescriptorsOK
  <2> QED
    BY <1>3, <1>5, <2>1, <2>2
<1> QED
  BY <1>1, <1>6, CloseDescriptor DEF DescriptorsOK

(* A step that opens, closes and registers nothing.                        *)
LEMMA DescriptorsSame ==
  ASSUME SocketInv, UNCHANGED <<wfd, active_sockets>>,
         \A fd \in Fds : sock'[fd] = "free" <=> sock[fd] = "free",
         \A w \in Workers : wpc'[w] \in {"connect", "send", "recv"}
                               <=> wpc[w] \in {"connect", "send", "recv"}
  PROVE  DescriptorsOK'
BY DEF SocketInv, DescriptorsOK, Exchanging

(* Every step keeps the descriptors with their holders.                    *)
LEMMA DescriptorsNext == SocketInv /\ [Next]_vars => DescriptorsOK'
<1> SUFFICES ASSUME SocketInv, [Next]_vars PROVE DescriptorsOK'
  OBVIOUS
<1> USE DEF queueVars, socketVars, workerVars, searchVars, counterVars, At
<1>1. ASSUME NEW r \in Requests, Submit(r) PROVE DescriptorsOK'
  BY <1>1, DescriptorsSame DEF Submit
<1>2. CASE NotifyOne \/ NotifyAll
  <2>1. \A w \in Workers : wpc'[w] = wpc[w] \/ (wpc[w] = "waiting" /\ wpc'[w] = "check")
    BY <1>2 DEF NotifyOne, NotifyAll, Waiting, SocketInv, Types
  <2>2. UNCHANGED <<wfd, active_sockets, sock>>
    BY <1>2 DEF NotifyOne, NotifyAll
  <2> QED
    BY <2>1, <2>2, DescriptorsSame
<1>3. CASE Poll \/ BeginStop \/ Join \/ FinalPoll
  BY <1>3, DescriptorsSame DEF Poll, BeginStop, Join, FinalPoll
<1>4. CASE Sweep
  <2>1. \A fd \in active_sockets : sock[fd] # "free"
    BY DEF SocketInv, Types, WorkersOK, DescriptorsOK, Exchanging, Holding
  <2>2. \A fd \in Fds : sock'[fd] = "free" <=> sock[fd] = "free"
    BY <1>4, <2>1 DEF Sweep
  <2> QED
    BY <1>4, <2>2, DescriptorsSame DEF Sweep
<1>5. ASSUME NEW w \in Workers,
             Block(w) \/ Exit(w) \/ SpuriousWakeup(w) \/ Dispatch(w)
               \/ Resolve(w) \/ PushCompleted(w)
      PROVE  DescriptorsOK'
  <2>1. UNCHANGED <<wfd, active_sockets, sock>>
    BY <1>5 DEF Block, Exit, SpuriousWakeup, Dispatch, Resolve, PushCompleted
  <2>2. /\ wpc[w] \notin {"connect", "send", "recv"}
        /\ \E point \in WorkerPoints \ {"connect", "send", "recv"} : Goto(w, point)
    BY <1>5 DEF Block, Exit, SpuriousWakeup, Dispatch, Resolve, PushCompleted,
                WorkerPoints
  <2>3. \A v \in Workers : wpc'[v] \in {"connect", "send", "recv"}
                              <=> wpc[v] \in {"connect", "send", "recv"}
    BY <2>2 DEF Goto, SocketInv, Types
  <2> QED
    BY <2>1, <2>3, DescriptorsSame
<1>6. ASSUME NEW w \in Workers, OpenSocket(w) PROVE DescriptorsOK'
  <2>1. /\ wpc[w] = "socket" /\ UNCHANGED active_sockets
        /\ \/ UNCHANGED <<sock, wfd, wpc>>
           \/ UNCHANGED <<sock, wfd>> /\ Goto(w, "push")
           \/ /\ \E fd \in Fds : /\ sock[fd] = "free"
                                 /\ sock' = [sock EXCEPT ![fd] = "fresh"]
                                 /\ wfd' = [wfd EXCEPT ![w] = fd]
              /\ Goto(w, "register")
    BY <1>6 DEF OpenSocket
  <2>2. \A v \in Workers : wpc'[v] \in {"connect", "send", "recv"}
                              <=> wpc[v] \in {"connect", "send", "recv"}
    BY <2>1 DEF Goto, SocketInv, Types
  <2>3. CASE UNCHANGED <<sock, wfd>>
    BY <2>1, <2>2, <2>3, DescriptorsSame
  <2>4. ASSUME NEW fd \in Fds, sock[fd] = "free",
               sock' = [sock EXCEPT ![fd] = "fresh"],
               wfd' = [wfd EXCEPT ![w] = fd]
        PROVE  DescriptorsOK'
    <3>1. wfd[w] = NoFd
      BY <2>1 DEF SocketInv, WorkersOK, Holding
    <3>2. \A v \in Workers : wfd[v] # fd
      BY <2>4 DEF SocketInv, DescriptorsOK
    <3>3. \A v \in Workers : wfd'[v] = IF v = w THEN fd ELSE wfd[v]
      BY <2>4 DEF SocketInv, Types
    <3>4. \A d \in Fds : sock'[d] # "free" <=> sock[d] # "free" \/ d = fd
      BY <2>4 DEF SocketInv, Types
    <3>5. \A v \in Exchanging : v # w /\ v \in Workers
      BY <2>1 DEF Exchanging
    <3>6. Exchanging' = Exchanging
      BY <2>2 DEF Exchanging
    <3>7. active_sockets' = {wfd'[v] : v \in Exchanging'}
      BY <2>1, <3>3, <3>5, <3>6 DEF SocketInv, DescriptorsOK
    <3>8. NoFd \notin Fds
      BY BridgeAssumption DEF Fds
    <3> QED
      BY <3>1, <3>2, <3>3, <3>4, <3>7, <3>8 DEF SocketInv, DescriptorsOK
  <2> QED
    BY <2>1, <2>3, <2>4
<1>7. ASSUME NEW w \in Workers, Register(w) PROVE DescriptorsOK'
  <2>1. wpc[w] = "register" /\ wpc[w] \in Holding
    BY <1>7 DEF Register, Holding
  <2>2. CASE Close(w) /\ Goto(w, "push") /\ UNCHANGED active_sockets
    <3>1. Exchanging' = Exchanging /\ w \notin Exchanging
      BY <2>1, <2>2 DEF Exchanging, Goto, SocketInv, Types
    <3>2. \A v \in Exchanging : wfd'[v] = wfd[v]
      BY <2>2, <3>1 DEF Close, Exchanging, SocketInv, Types
    <3>3. active_sockets' = {wfd'[v] : v \in Exchanging'}
      BY <2>2, <3>1, <3>2 DEF SocketInv, DescriptorsOK
    <3> QED
      BY <2>1, <2>2, <3>3, CloseDescriptor DEF DescriptorsOK
  <2>3. CASE /\ active_sockets' = active_sockets \cup {wfd[w]}
             /\ Goto(w, "connect") /\ UNCHANGED <<sock, wfd>>
    <3>1. Exchanging' = Exchanging \cup {w}
      BY <2>3 DEF Exchanging, Goto, SocketInv, Types
    <3> QED
      BY <2>3, <3>1 DEF SocketInv, DescriptorsOK
  <2> QED
    BY <1>7, <2>2, <2>3 DEF Register
<1>8. ASSUME NEW w \in Workers, Connect(w) \/ Send(w) \/ Receive(w)
      PROVE  DescriptorsOK'
  <2>1. w \in Exchanging /\ wpc[w] \in Holding
    BY <1>8 DEF Connect, Send, Receive, Exchanging, Holding
  <2>2. CASE CloseRegistered(w) /\ \E point \in {"socket", "push"} : Goto(w, point)
    BY <2>1, <2>2, CloseRegisteredDescriptor
  <2>3. CASE /\ UNCHANGED <<active_sockets, wfd>>
             /\ \E point \in {"send", "recv"} : Goto(w, point)
             /\ \/ UNCHANGED sock
                \/ sock' = [sock EXCEPT ![wfd[w]] =
                               IF @ = "fresh" THEN "connected" ELSE @]
    <3>1. \A v \in Workers : wpc'[v] \in {"connect", "send", "recv"}
                                <=> wpc[v] \in {"connect", "send", "recv"}
      BY <2>1, <2>3 DEF Goto, SocketInv, Types, Exchanging
    <3>2. \A fd \in Fds : sock'[fd] = "free" <=> sock[fd] = "free"
      BY <2>3 DEF SocketInv, Types
    <3> QED
      BY <2>3, <3>1, <3>2, DescriptorsSame
  <2> QED
    BY <1>8, <2>2, <2>3 DEF Connect, Send, Receive
<1>9. CASE UNCHANGED vars
  BY <1>9, DescriptorsSame DEF vars
<1> QED
  BY <1>1, <1>2, <1>3, <1>4, <1>5, <1>6, <1>7, <1>8, <1>9
  DEF Next, StopSteps, Worker, Terminated

(* The workers and the descriptors, in every reachable state.              *)
LEMMA SocketInvariant == Spec => []SocketInv
<1>1. Init => SocketInv
  BY InitSocketInv
<1>2. SocketInv /\ [Next]_vars => SocketInv'
  BY TypesNext, WorkersNext, DescriptorsNext DEF SocketInv
<1> QED
  BY <1>1, <1>2, PTL DEF Spec

(* The shutdown sweep of stop() hits open sockets of its own workers only, *)
(* never a descriptor that was closed or handed out again.                 *)
THEOREM SweepHitsOwnSocketsAlways == Spec => []SweepHitsOwnSockets
<1>1. SocketInv => SweepHitsOwnSockets
  <2> SUFFICES ASSUME SocketInv PROVE SweepHitsOwnSockets
    OBVIOUS
  <2>1. \A w \in Exchanging : w \in Workers /\ wfd[w] \in Fds
    BY DEF SocketInv, Types, WorkersOK, Exchanging, Holding
  <2> QED
    BY <2>1 DEF SocketInv, DescriptorsOK, SweepHitsOwnSockets
<1> QED
  BY <1>1, SocketInvariant, PTL

(* Once stop() has set stopping no socket is registered any more, so its   *)
(* one sweep misses none.                                                  *)
THEOREM NothingEscapesSweepAlways == Spec => NothingEscapesSweep
<1>1. [Next]_vars => [stopping => active_sockets' \subseteq active_sockets]_vars
  <2> SUFFICES ASSUME [Next]_vars, stopping
               PROVE  active_sockets' \subseteq active_sockets
    OBVIOUS
  <2> USE DEF socketVars
  <2>1. ASSUME NEW r \in Requests, Submit(r)
        PROVE  active_sockets' \subseteq active_sockets
    BY <2>1 DEF Submit
  <2>2. CASE NotifyOne \/ Poll \/ BeginStop \/ StopSteps
    BY <2>2 DEF NotifyOne, Poll, BeginStop, StopSteps, NotifyAll, Sweep, Join, FinalPoll
  <2>3. ASSUME NEW w \in Workers, Worker(w) \/ SpuriousWakeup(w)
        PROVE  active_sockets' \subseteq active_sockets
    BY <2>3 DEF Worker, Block, Exit, SpuriousWakeup, Dispatch, Resolve, OpenSocket,
                Register, Connect, Send, Receive, PushCompleted, CloseRegistered
  <2>4. CASE UNCHANGED vars
    BY <2>4 DEF vars
  <2> QED
    BY <2>1, <2>2, <2>3, <2>4 DEF Next, Terminated
<1> QED
  BY <1>1, PTL DEF Spec, NothingEscapesSweep

----------------------------------------------------------------------------
(***************************************************************************)
(* Requests.                                                               *)
(***************************************************************************)

(* What holds requests, and whether stop() was called.                     *)
requestVars == <<outgoing, completed, active_requests, stopping, wreq,
                 rejected, dropped, delivered, discarded>>

(* Only submit, poll, stop, dispatch and push move a request.              *)
LEMMA NextMoves ==
  ASSUME [Next]_vars
  PROVE  \/ \E r \in Requests : Submit(r)
         \/ Poll \/ BeginStop \/ FinalPoll
         \/ \E w \in Workers : Dispatch(w) \/ PushCompleted(w)
         \/ UNCHANGED requestVars
<1> USE DEF requestVars, queueVars, searchVars, workerVars
<1>1. ASSUME NotifyOne \/ NotifyAll \/ Sweep \/ Join PROVE UNCHANGED requestVars
  BY <1>1 DEF NotifyOne, NotifyAll, Sweep, Join
<1>2. ASSUME NEW w \in Workers,
             \/ Block(w) \/ Exit(w) \/ Resolve(w) \/ OpenSocket(w) \/ Register(w)
             \/ Connect(w) \/ Send(w) \/ Receive(w) \/ SpuriousWakeup(w)
      PROVE  UNCHANGED requestVars
  BY <1>2 DEF Block, Exit, Resolve, OpenSocket, Register, Connect, Send, Receive,
              SpuriousWakeup
<1>3. CASE UNCHANGED vars
  BY <1>3 DEF vars
<1> QED
  BY <1>1, <1>2, <1>3 DEF Next, StopSteps, Worker, Terminated

(* push_back adds one element to a queue, and keeps it free of duplicates. *)
LEMMA AppendElements ==
  ASSUME NEW S, NEW s \in Seq(S), NEW e \in S
  PROVE  /\ Range(Append(s, e)) = Range(s) \cup {e}
         /\ IsInjective(s) /\ e \notin Range(s) => IsInjective(Append(s, e))
<1> DEFINE t == Append(s, e)
<1>1. /\ Len(s) \in Nat /\ DOMAIN s = 1..Len(s) /\ DOMAIN t = 1..(Len(s) + 1)
      /\ \A i \in 1..Len(s) : t[i] = s[i]
      /\ t[Len(s) + 1] = e
  BY AppendProperties, LenProperties
<1> HIDE DEF t
<1>2. \A i \in DOMAIN t : i \in DOMAIN s \/ i = Len(s) + 1
  BY <1>1
<1>3. Range(t) = Range(s) \cup {e}
  <2>1. DOMAIN s \subseteq DOMAIN t /\ Len(s) + 1 \in DOMAIN t
    BY <1>1
  <2> QED
    BY <1>1, <1>2, <2>1 DEF Range
<1>4. IsInjective(s) /\ e \notin Range(s) => IsInjective(t)
  BY <1>1, <1>2 DEF Range, IsInjective
<1> QED
  BY <1>3, <1>4 DEF t

(* pop_front takes the first element of a queue and leaves the others.     *)
LEMMA TailElements ==
  ASSUME NEW S, NEW s \in Seq(S), s # <<>>, IsInjective(s)
  PROVE  /\ Head(s) \in Range(s)
         /\ Range(Tail(s)) = Range(s) \ {Head(s)}
         /\ IsInjective(Tail(s))
<1> DEFINE t == Tail(s)
<1>1. /\ Len(s) \in Nat \ {0} /\ DOMAIN s = 1..Len(s)
      /\ DOMAIN t = 1..(Len(s) - 1)
      /\ \A i \in 1..(Len(s) - 1) : t[i] = s[i + 1]
  BY HeadTailProperties, LenProperties, EmptySeq
<1>2. Head(s) = s[1]
  BY <1>1
<1> HIDE DEF t
<1>3. \A i \in DOMAIN s : i = 1 \/ (i - 1 \in DOMAIN t /\ t[i - 1] = s[i])
  BY <1>1
<1>4. \A i \in DOMAIN t : i + 1 \in DOMAIN s /\ t[i] = s[i + 1] /\ i + 1 # 1
  BY <1>1
<1>5. 1 \in DOMAIN s
  BY <1>1
<1>6. Head(s) \in Range(s)
  BY <1>2, <1>5 DEF Range
<1>7. Range(t) = Range(s) \ {Head(s)}
  BY <1>2, <1>3, <1>4, <1>5 DEF Range, IsInjective
<1>8. IsInjective(t)
  <2> SUFFICES ASSUME NEW i \in DOMAIN t, NEW j \in DOMAIN t, t[i] = t[j]
               PROVE  i = j
    BY DEF IsInjective
  <2>1. i + 1 = j + 1
    BY <1>4 DEF IsInjective
  <2> QED
    BY <1>1, <2>1
<1> QED
  BY <1>6, <1>7, <1>8 DEF t

(* An interval of request numbers has as many members as it says.          *)
LEMMA IntervalCardinality ==
  ASSUME NEW n \in Nat
  PROVE  IsFiniteSet(1..n) /\ Cardinality(1..n) = n
BY FS_Interval

(* A queue without duplicates has as many elements as it is long.          *)
LEMMA DistinctLength ==
  ASSUME NEW S, NEW s \in Seq(S), IsInjective(s)
  PROVE  IsFiniteSet(Range(s)) /\ Cardinality(Range(s)) = Len(s)
<1>1. Len(s) \in Nat /\ DOMAIN s = 1..Len(s) /\ s \in [1..Len(s) -> S]
  BY LenProperties
<1>2. IsFiniteSet(1..Len(s)) /\ Cardinality(1..Len(s)) = Len(s)
  BY <1>1, IntervalCardinality
<1>3. s \in Bijection(1..Len(s), Range(s))
  BY <1>1 DEF Bijection, Injection, Surjection, Range, IsInjective
<1> QED
  BY <1>2, <1>3, FS_Bijection DEF ExistsBijection

RequestTypes ==
    /\ InQueue = Range(outgoing)
    /\ InQueue \subseteq Requests /\ InFlight \subseteq Requests
    /\ InCompleted \subseteq Requests
    /\ Answered(delivered) \subseteq Requests
    /\ Answered(discarded) \subseteq Requests
    /\ rejected \subseteq Requests /\ dropped \subseteq Requests

(* Every place holds requests.                                             *)
LEMMA PlaceTypes == Types => RequestTypes
<1> SUFFICES ASSUME Types PROVE RequestTypes
  OBVIOUS
<1>1. \A i \in DOMAIN outgoing : outgoing[i] \in Requests
  BY ElementOfSeq, LenProperties DEF Types
<1>2. \A i \in DOMAIN completed : completed[i].req \in Requests
  <2>1. \A i \in DOMAIN completed : completed[i] \in Response
    BY ElementOfSeq, LenProperties DEF Types
  <2> QED
    BY <2>1 DEF Response
<1>3. InQueue = Range(outgoing) /\ InQueue \subseteq Requests
  BY <1>1 DEF InQueue, Range
<1>4. InCompleted \subseteq Requests
  BY <1>2 DEF InCompleted
<1>5. Answered(delivered) \subseteq Requests /\ Answered(discarded) \subseteq Requests
  BY DEF Types, Answered, Response
<1>6. InFlight \subseteq Requests
  BY DEF Types, InFlight
<1> QED
  BY <1>3, <1>4, <1>5, <1>6 DEF Types, RequestTypes

(* submit(): the request enters the queue, or is refused.                  *)
LEMMA SubmitMoves ==
  ASSUME SocketInv, RequestInv, NEW r \in Requests, Submit(r)
  PROVE  /\ r \notin Submitted \cup rejected
         /\ \/ InQueue' = InQueue \cup {r} /\ rejected' = rejected /\ ~stopping
            \/ InQueue' = InQueue /\ rejected' = rejected \cup {r}
         /\ InFlight' = InFlight /\ InCompleted' = InCompleted
         /\ UNCHANGED <<dropped, delivered, discarded, active_requests, stopping>>
         /\ NoDuplicates'
<1> USE DEF SocketInv, Types, RequestInv
<1>1. /\ UNCHANGED <<completed, wreq, dropped, delivered, discarded, active_requests, stopping>>
      /\ r \notin Submitted \cup rejected
  BY DEF Submit, workerVars
<1>2. InFlight' = InFlight /\ InCompleted' = InCompleted
  BY <1>1 DEF InFlight, InCompleted
<1>3. CASE outgoing' = Append(outgoing, r) /\ rejected' = rejected /\ ~stopping
  <2>1. Range(outgoing') = Range(outgoing) \cup {r}
    BY <1>3, AppendElements
  <2>2. r \notin Range(outgoing)
    BY <1>1 DEF Submitted, InQueue, Range
  <2>3. IsInjective(outgoing')
    BY <1>3, <2>2, AppendElements DEF NoDuplicates
  <2>4. NoDuplicates'
    BY <1>1, <2>3 DEF NoDuplicates
  <2> QED
    BY <1>1, <1>2, <1>3, <2>1, <2>4 DEF InQueue, Range
<1>4. CASE outgoing' = outgoing /\ rejected' = rejected \cup {r}
  <2>1. NoDuplicates'
    BY <1>1, <1>4 DEF NoDuplicates
  <2> QED
    BY <1>1, <1>2, <1>4, <2>1 DEF InQueue
<1> QED
  BY <1>3, <1>4 DEF Submit

(* worker_loop: the front of the queue goes to an idle worker.             *)
LEMMA DispatchMoves ==
  ASSUME SocketInv, RequestInv, NEW w \in Workers, Dispatch(w)
  PROVE  /\ \E r \in InQueue : /\ InQueue' = InQueue \ {r}
                               /\ InFlight' = InFlight \cup {r}
         /\ InCompleted' = InCompleted
         /\ active_requests' = active_requests + 1
         /\ UNCHANGED <<rejected, dropped, delivered, discarded, stopping>>
         /\ ~stopping
         /\ NoDuplicates'
<1> USE DEF SocketInv, Types, RequestInv
<1> DEFINE r == Head(outgoing)
<1>1. /\ UNCHANGED <<completed, rejected, dropped, delivered, discarded, stopping>>
      /\ outgoing # <<>> /\ outgoing' = Tail(outgoing) /\ ~stopping
      /\ wreq' = [wreq EXCEPT ![w] = r] /\ wreq[w] = NoReq
      /\ active_requests' = active_requests + 1
  BY DEF Dispatch, searchVars, WorkersOK, Busy, At
<1>2. /\ r \in Range(outgoing) /\ IsInjective(outgoing')
      /\ Range(outgoing') = Range(outgoing) \ {r}
  BY <1>1, TailElements DEF NoDuplicates
<1>3. r \in InQueue /\ InQueue' = InQueue \ {r}
  BY <1>2 DEF InQueue, Range
<1>4. r \in Requests /\ r \notin InFlight /\ r # NoReq
  BY <1>3, PlaceTypes, BridgeAssumption DEF RequestTypes, PlacesDisjoint, Disjoint
<1> HIDE DEF r
<1>5. \A v \in Workers : wreq'[v] = IF v = w THEN r ELSE wreq[v]
  BY <1>1
<1>6. InFlight' = InFlight \cup {r}
  BY <1>1, <1>4, <1>5 DEF InFlight
<1>7. \A v \in Workers : wreq[v] # r
  BY <1>4 DEF InFlight
<1>8. NoDuplicates'
  BY <1>1, <1>2, <1>5, <1>7 DEF NoDuplicates
<1> QED
  BY <1>1, <1>3, <1>6, <1>8 DEF InCompleted

(* push_completed: the request of a worker is answered.                    *)
LEMMA PushMoves ==
  ASSUME SocketInv, RequestInv, NEW w \in Workers, PushCompleted(w)
  PROVE  /\ \E r \in InFlight : /\ InFlight' = InFlight \ {r}
                                /\ InCompleted' = InCompleted \cup {r}
         /\ InQueue' = InQueue
         /\ active_requests' = active_requests - 1
         /\ Len(completed') = Len(completed) + 1
         /\ UNCHANGED <<rejected, dropped, delivered, discarded, stopping>>
         /\ NoDuplicates'
<1> USE DEF SocketInv, Types, RequestInv
<1> DEFINE r == wreq[w]
           x == [req |-> r, ok |-> wok[w]]
<1>1. /\ UNCHANGED <<outgoing, rejected, dropped, delivered, discarded, stopping>>
      /\ completed' = Append(completed, x)
      /\ wreq' = [wreq EXCEPT ![w] = NoReq]
      /\ active_requests' = active_requests - 1
      /\ r # NoReq
  BY DEF PushCompleted, searchVars, WorkersOK, Busy, At
<1>2. r \in InFlight /\ r \in Requests /\ r \notin InCompleted
  BY <1>1 DEF InFlight, PlacesDisjoint, Disjoint
<1>3. x \in Response /\ x.req = r
  BY <1>2 DEF Response
<1> HIDE DEF x
<1>4. /\ Len(completed) \in Nat /\ Len(completed') = Len(completed) + 1
      /\ DOMAIN completed = 1..Len(completed)
      /\ DOMAIN completed' = 1..(Len(completed) + 1)
      /\ \A i \in 1..Len(completed) : completed'[i] = completed[i]
      /\ completed'[Len(completed) + 1] = x
  BY <1>1, <1>3, AppendProperties, LenProperties
<1> HIDE DEF r
<1>5. /\ DOMAIN completed \subseteq DOMAIN completed'
      /\ Len(completed) + 1 \in DOMAIN completed'
      /\ \A i \in DOMAIN completed' : i \in DOMAIN completed \/ i = Len(completed) + 1
  BY <1>4
<1>6. InCompleted' = InCompleted \cup {r}
  BY <1>3, <1>4, <1>5 DEF InCompleted
<1>7. \A v \in Workers : wreq'[v] = IF v = w THEN NoReq ELSE wreq[v]
  BY <1>1
<1>8. InFlight' = InFlight \ {r}
  BY <1>1, <1>7 DEF InFlight, NoDuplicates, r
<1>9. \A i \in DOMAIN completed : completed[i].req # r
  BY <1>2 DEF InCompleted
<1>10. \A i, j \in DOMAIN completed' :
          completed'[i].req = completed'[j].req => i = j
  BY <1>3, <1>4, <1>5, <1>9 DEF NoDuplicates
<1>11. NoDuplicates'
  BY <1>1, <1>7, <1>10 DEF NoDuplicates
<1> QED
  BY <1>1, <1>2, <1>4, <1>6, <1>8, <1>11 DEF InQueue

(* A poll hands over the whole completed queue: to the search, or, at the  *)
(* end of the phase, to nobody.                                            *)
LEMMA PollMoves ==
  ASSUME SocketInv, RequestInv, Poll
  PROVE  /\ Answered(delivered)' = Answered(delivered) \cup InCompleted
         /\ InCompleted' = {}
         /\ InQueue' = InQueue /\ InFlight' = InFlight
         /\ UNCHANGED <<rejected, dropped, discarded, active_requests, stopping>>
         /\ NoDuplicates'
<1>1. /\ UNCHANGED <<outgoing, wreq, rejected, dropped, discarded, active_requests, stopping>>
      /\ delivered' = delivered \cup {completed[i] : i \in DOMAIN completed}
      /\ completed' = <<>> /\ DOMAIN completed' = {}
  BY DEF Poll, workerVars
<1>2. Answered(delivered)' = Answered(delivered) \cup InCompleted
  BY <1>1 DEF Answered, InCompleted
<1>3. \A x, y \in delivered' : x.req = y.req => x = y
  <2>1. \A x \in delivered, i \in DOMAIN completed : x.req # completed[i].req
    BY DEF RequestInv, PlacesDisjoint, Disjoint, Answered, InCompleted
  <2> QED
    BY <1>1, <2>1 DEF RequestInv, NoDuplicates
<1>4. NoDuplicates'
  BY <1>1, <1>3 DEF RequestInv, NoDuplicates
<1> QED
  BY <1>1, <1>2, <1>4 DEF InQueue, InFlight, InCompleted

(* The final poll reports as discarded every answer that was not polled,   *)
(* and moves no other request.                                             *)
LEMMA FinalPollMoves ==
  ASSUME SocketInv, RequestInv, FinalPoll
  PROVE  /\ Answered(discarded)' = Answered(discarded) \cup InCompleted
         /\ InCompleted' = {}
         /\ InQueue' = InQueue /\ InFlight' = InFlight
         /\ UNCHANGED <<rejected, dropped, delivered, active_requests, stopping>>
         /\ NoDuplicates'
<1>1. /\ UNCHANGED <<outgoing, wreq, rejected, dropped, delivered, active_requests, stopping>>
      /\ discarded' = discarded \cup {completed[i] : i \in DOMAIN completed}
      /\ completed' = <<>> /\ DOMAIN completed' = {}
  BY DEF FinalPoll, workerVars
<1>2. Answered(discarded)' = Answered(discarded) \cup InCompleted
  BY <1>1 DEF Answered, InCompleted
<1>3. \A x, y \in discarded' : x.req = y.req => x = y
  <2>1. \A x \in discarded, i \in DOMAIN completed : x.req # completed[i].req
    BY DEF RequestInv, PlacesDisjoint, Disjoint, Answered, InCompleted
  <2> QED
    BY <1>1, <2>1 DEF RequestInv, NoDuplicates
<1>4. NoDuplicates'
  BY <1>1, <1>3 DEF RequestInv, NoDuplicates
<1> QED
  BY <1>1, <1>2, <1>4 DEF InQueue, InFlight, InCompleted

(* stop() drops the queue.                                                 *)
LEMMA BeginStopMoves ==
  ASSUME SocketInv, RequestInv, BeginStop
  PROVE  /\ dropped' = dropped \cup InQueue /\ InQueue' = {}
         /\ InFlight' = InFlight /\ InCompleted' = InCompleted
         /\ UNCHANGED <<rejected, delivered, discarded, active_requests>>
         /\ ~stopping /\ stopping'
         /\ NoDuplicates'
<1>1. /\ UNCHANGED <<completed, wreq, rejected, delivered, discarded, active_requests>>
      /\ outgoing' = <<>> /\ DOMAIN outgoing' = {}
      /\ dropped' = dropped \cup InQueue
      /\ ~stopping /\ stopping'
  BY DEF BeginStop, workerVars
<1>2. NoDuplicates'
  BY <1>1 DEF RequestInv, NoDuplicates, IsInjective
<1> QED
  BY <1>1, <1>2 DEF InQueue, InFlight, InCompleted

(* Everything else leaves every request where it is.                       *)
LEMMA QuietMoves ==
  ASSUME RequestInv, UNCHANGED requestVars
  PROVE  /\ InQueue' = InQueue /\ InFlight' = InFlight /\ InCompleted' = InCompleted
         /\ UNCHANGED <<rejected, dropped, delivered, discarded, active_requests, stopping>>
         /\ NoDuplicates'
BY DEF requestVars, RequestInv, NoDuplicates, InQueue, InFlight, InCompleted

(* Every place is a finite set.                                            *)
LEMMA PlacesFinite ==
  ASSUME Types
  PROVE  /\ IsFiniteSet(InQueue) /\ IsFiniteSet(InFlight)
         /\ IsFiniteSet(InCompleted) /\ IsFiniteSet(dropped)
         /\ IsFiniteSet(Answered(delivered)) /\ IsFiniteSet(Answered(discarded))
BY PlaceTypes, FS_Subset, BridgeAssumption DEF RequestTypes

(* At the start no request exists, so every place is empty.                *)
LEMMA InitRequestInv == Init => RequestInv
<1> SUFFICES ASSUME Init PROVE RequestInv
  OBVIOUS
<1>1. DOMAIN outgoing = {} /\ DOMAIN completed = {}
  BY DEF Init
<1>2. /\ InQueue = {} /\ InFlight = {} /\ InCompleted = {}
      /\ Answered(delivered) = {} /\ Answered(discarded) = {} /\ dropped = {}
  BY <1>1 DEF Init, InQueue, InFlight, InCompleted, Answered
<1>3. NoDuplicates
  BY <1>1 DEF Init, NoDuplicates, IsInjective
<1>4. PlacesDisjoint
  BY <1>2 DEF PlacesDisjoint, Disjoint
<1>5. CountOK
  BY <1>2, FS_EmptySet DEF Init, CountOK
<1> QED
  BY <1>3, <1>4, <1>5 DEF RequestInv

(* A request changes place, and the counter of active requests follows.    *)
LEMMA RequestInvNext == SocketInv /\ RequestInv /\ [Next]_vars => RequestInv'
<1> SUFFICES ASSUME SocketInv, RequestInv, [Next]_vars PROVE RequestInv'
  OBVIOUS
<1> USE DEF RequestInv, PlacesDisjoint, Disjoint
<1>1. Types /\ RequestTypes /\ IsFiniteSet(InFlight)
  BY PlaceTypes, PlacesFinite DEF SocketInv
<1>2. Cardinality(InFlight) = active_requests
  BY DEF CountOK
<1>3. ASSUME NEW r \in Requests, Submit(r) PROVE RequestInv'
  BY <1>2, <1>3, SubmitMoves DEF Submitted, CountOK, Answered
<1>4. ASSUME NEW w \in Workers, Dispatch(w) PROVE RequestInv'
  <2>1. PICK r \in InQueue : /\ InQueue' = InQueue \ {r}
                             /\ InFlight' = InFlight \cup {r}
    BY <1>4, DispatchMoves
  <2>2. Cardinality(InFlight') = active_requests + 1
    BY <1>1, <1>2, <2>1, FS_AddElement
  <2> QED
    BY <1>4, <2>1, <2>2, DispatchMoves DEF CountOK, Answered
<1>5. ASSUME NEW w \in Workers, PushCompleted(w) PROVE RequestInv'
  <2>1. PICK r \in InFlight : /\ InFlight' = InFlight \ {r}
                              /\ InCompleted' = InCompleted \cup {r}
    BY <1>5, PushMoves
  <2>2. Cardinality(InFlight') = active_requests - 1
    BY <1>1, <1>2, <2>1, FS_RemoveElement
  <2> QED
    BY <1>5, <2>1, <2>2, PushMoves DEF CountOK, Answered
<1>6. CASE Poll
  BY <1>2, <1>6, PollMoves DEF CountOK, Answered
<1>7. CASE FinalPoll
  BY <1>2, <1>7, FinalPollMoves DEF CountOK, Answered
<1>8. CASE BeginStop
  BY <1>2, <1>8, BeginStopMoves DEF CountOK, Answered
<1>9. CASE UNCHANGED requestVars
  BY <1>2, <1>9, QuietMoves DEF CountOK, Answered
<1> QED
  BY <1>3, <1>4, <1>5, <1>6, <1>7, <1>8, <1>9, NextMoves

----------------------------------------------------------------------------
(***************************************************************************)
(* The end of a phase.                                                     *)
(***************************************************************************)

(* At the start no phase has ended, so there is nothing to account for.    *)
LEMMA InitPhaseOK == Init => PhaseOK
BY DEF Init, PhaseOK

(* A worker's step moves no account of stop(): it dispatches nothing after *)
(* it, and pushes one response for one active request.                     *)
LEMMA WorkerPhase ==
  ASSUME SocketInv, RequestInv, PhaseOK, NEW w \in Workers,
         Worker(w) \/ SpuriousWakeup(w)
  PROVE  PhaseOK'
<1> USE DEF SocketInv, Types, counterVars, queueVars, socketVars, searchVars, Goto, At
<1>1. /\ wpc[w] # "exited"
      /\ UNCHANGED <<searchVars, stopping, counterVars>>
  BY DEF Worker, Block, Exit, SpuriousWakeup, Dispatch, Resolve, OpenSocket,
         Register, Connect, Send, Receive, PushCompleted
<1>2. spc \notin {"final_poll", "done"}
  BY <1>1 DEF PhaseOK
<1>3. CASE Dispatch(w)
  BY <1>1, <1>2, <1>3 DEF Dispatch, PhaseOK
<1>4. CASE PushCompleted(w)
  <2>1. /\ Len(completed') = Len(completed) + 1
        /\ active_requests' = active_requests - 1
        /\ outgoing' = outgoing
    BY <1>4, PushMoves DEF PushCompleted
  <2>2. Len(completed) \in Nat
    BY LenProperties
  <2>3. stopping => Len(completed') + active_requests' = Len(completed) + active_requests
    BY <2>1, <2>2
  <2> QED
    BY <1>1, <1>2, <2>1, <2>3 DEF PhaseOK
<1>5. CASE UNCHANGED queueVars
  BY <1>1, <1>2, <1>5 DEF PhaseOK
<1> QED
  BY <1>3, <1>4, <1>5
  DEF Worker, Block, Exit, SpuriousWakeup, Resolve, OpenSocket, Register, Connect,
      Send, Receive

(* stop() counts what it finds; the search thread does the rest in order.  *)
LEMMA PhaseNext ==
  SocketInv /\ RequestInv /\ PhaseOK /\ [Next]_vars => PhaseOK'
<1> SUFFICES ASSUME SocketInv, RequestInv, PhaseOK, [Next]_vars PROVE PhaseOK'
  OBVIOUS
<1> USE DEF counterVars, queueVars, socketVars, workerVars
<1>1. Len(outgoing) \in Nat /\ Len(completed) \in Nat /\ active_requests \in Int
  BY LenProperties DEF SocketInv, Types
<1>2. ASSUME NEW r \in Requests, Submit(r) PROVE PhaseOK'
  BY <1>2 DEF Submit, PhaseOK
<1>3. CASE NotifyOne
  BY <1>3 DEF NotifyOne, PhaseOK
<1>4. CASE Poll
  BY <1>4 DEF Poll, PhaseOK
<1>5. CASE BeginStop
  <2>1. /\ spc = "run" /\ ~stopping
        /\ stopping' /\ spc' = "stop_notify" /\ outgoing' = <<>>
        /\ dropped' = dropped \cup InQueue
        /\ queued_discarded_on_stop' = queued_discarded_on_stop + Len(outgoing)
        /\ active_cancelled_on_stop' = active_cancelled_on_stop + active_requests
        /\ completed_unconsumed_on_stop' = completed_unconsumed_on_stop + Len(completed)
        /\ UNCHANGED <<completed, active_requests, discarded>>
    <3>1. discarded' = discarded
      BY <1>5, BeginStopMoves
    <3> QED
      BY <1>5, <3>1 DEF BeginStop
  <2>2. /\ dropped = {} /\ discarded = {}
        /\ queued_discarded_on_stop = 0 /\ active_cancelled_on_stop = 0
        /\ completed_unconsumed_on_stop = 0
    BY <2>1 DEF PhaseOK
  <2>3. Cardinality(InQueue) = Len(outgoing) /\ InQueue = Range(outgoing)
    BY DistinctLength, PlaceTypes
    DEF SocketInv, Types, RequestTypes, RequestInv, NoDuplicates
  <2>4. Cardinality(dropped') = queued_discarded_on_stop'
    BY <1>1, <2>1, <2>2, <2>3
  <2>5. Len(completed') + active_requests'
            = completed_unconsumed_on_stop' + active_cancelled_on_stop'
    BY <1>1, <2>1, <2>2
  <2>6. active_requests \in Nat
    BY PlacesFinite, FS_CardinalityType DEF SocketInv, RequestInv, CountOK
  <2> QED
    BY <2>1, <2>2, <2>4, <2>5, <2>6 DEF PhaseOK
<1>6. CASE NotifyAll
  BY <1>6 DEF NotifyAll, PhaseOK
<1>7. CASE Sweep
  BY <1>7 DEF Sweep, PhaseOK
<1>8. CASE Join
  BY <1>8 DEF Join, PhaseOK
<1>9. CASE FinalPoll
  <2>1. /\ spc = "final_poll" /\ spc' = "done"
        /\ completed' = <<>> /\ discarded' = discarded \cup Range(completed)
        /\ UNCHANGED <<outgoing, active_requests, stopping, counterVars, wpc, dropped>>
    BY <1>9 DEF FinalPoll, Range
  <2>2. /\ stopping /\ discarded = {} /\ \A w \in Workers : wpc[w] = "exited"
        /\ Len(completed) + active_requests
               = completed_unconsumed_on_stop + active_cancelled_on_stop
    BY <2>1 DEF PhaseOK
  <2>3. active_requests = 0
    <3>1. InFlight = {}
      BY <2>2 DEF InFlight, SocketInv, WorkersOK, Busy
    <3> QED
      BY <3>1, FS_EmptySet DEF RequestInv, CountOK
  <2>4. Cardinality(Range(completed)) = Len(completed)
    <3>1. IsInjective(completed)
      BY DEF RequestInv, NoDuplicates, IsInjective
    <3> QED
      BY <3>1, DistinctLength DEF SocketInv, Types
  <2>5. Cardinality(discarded')
            = completed_unconsumed_on_stop' + active_cancelled_on_stop'
    BY <1>1, <2>1, <2>2, <2>3, <2>4
  <2> QED
    BY <2>1, <2>2, <2>5 DEF PhaseOK
<1>10. ASSUME NEW w \in Workers, Worker(w) \/ SpuriousWakeup(w) PROVE PhaseOK'
  BY <1>10, WorkerPhase
<1>11. CASE UNCHANGED vars
  BY <1>11 DEF vars, searchVars, PhaseOK
<1> QED
  BY <1>2, <1>3, <1>4, <1>5, <1>6, <1>7, <1>8, <1>9, <1>10, <1>11
  DEF Next, StopSteps, Terminated

(* The inductive invariant holds in every reachable state.                 *)
LEMMA Invariance == Spec => []IInv
<1>1. Init => IInv
  BY InitSocketInv, InitRequestInv, InitPhaseOK DEF IInv
<1>2. IInv /\ [Next]_vars => IInv'
  BY TypesNext, WorkersNext, DescriptorsNext, RequestInvNext, PhaseNext
  DEF IInv, SocketInv
<1> QED
  BY <1>1, <1>2, PTL DEF Spec

(* Every variable keeps its type; the count of active requests never runs  *)
(* below zero, so a push always has a dispatch before it.                  *)
THEOREM TypeCorrect == Spec => []TypeOK
<1>1. IInv => TypeOK
  <2> SUFFICES ASSUME IInv PROVE TypeOK
    OBVIOUS
  <2>1. active_requests \in Nat
    BY PlacesFinite, FS_CardinalityType
    DEF IInv, SocketInv, RequestInv, CountOK
  <2>2. Len(completed) \in Nat /\ Len(outgoing) \in Nat
    BY LenProperties DEF IInv, SocketInv, Types
  <2>3. active_sockets \subseteq Fds \cup {NoFd}
    BY DEF IInv, SocketInv, Types, DescriptorsOK, Exchanging
  <2>4. active_cancelled_on_stop \in Nat
    BY DEF IInv, PhaseOK
  <2> QED
    BY <2>1, <2>3, <2>4 DEF IInv, SocketInv, Types, TypeOK
<1> QED
  BY <1>1, Invariance, PTL

(* The cardinality of a union of two disjoint sets.                        *)
LEMMA DisjointUnion ==
  ASSUME NEW S, NEW T, IsFiniteSet(S), IsFiniteSet(T), Disjoint(S, T)
  PROVE  /\ IsFiniteSet(S \cup T)
         /\ Cardinality(S \cup T) = Cardinality(S) + Cardinality(T)
         /\ Cardinality(S) \in Nat /\ Cardinality(T) \in Nat
BY FS_Union, FS_EmptySet, FS_CardinalityType DEF Disjoint

(* One response for each request: as many responses as requests answered.  *)
LEMMA AnsweredCardinality ==
  ASSUME NEW rs \in SUBSET Response, IsFiniteSet(Answered(rs)),
         \A x, y \in rs : x.req = y.req => x = y
  PROVE  Cardinality(rs) = Cardinality(Answered(rs))
<1> DEFINE f == [x \in rs |-> x.req]
<1>1. f \in Injection(rs, Answered(rs))
  BY DEF Injection, IsInjective, Answered
<1>2. f \in Surjection(rs, Answered(rs))
  BY DEF Surjection, Answered
<1> HIDE DEF f
<1> QED
  BY <1>1, <1>2, FS_Injection

(* Every accepted request is in exactly one place, and active_requests is  *)
(* the number of workers that hold one: none is pushed twice, taken by two *)
(* workers, or miscounted.                                                 *)
THEOREM EachRequestInOnePlaceAlways == Spec => []EachRequestInOnePlace
<1>1. IInv => EachRequestInOnePlace
  <2> SUFFICES ASSUME IInv PROVE EachRequestInOnePlace
    OBVIOUS
  <2> USE DEF IInv, SocketInv, RequestInv
  <2>1. active_requests = Cardinality(InFlight)
    BY DEF CountOK
  <2>2. Cardinality({w \in Workers : wreq[w] # NoReq}) = Cardinality(InFlight)
    <3> DEFINE S == {w \in Workers : wreq[w] # NoReq}
               f == [w \in S |-> wreq[w]]
    <3>1. f \in Injection(S, InFlight) /\ f \in Surjection(S, InFlight)
      BY DEF Injection, Surjection, IsInjective, InFlight, NoDuplicates
    <3> QED
      BY <3>1, FS_Injection, PlacesFinite
  <2>3. Cardinality(InQueue) = Len(outgoing)
    BY DistinctLength, PlaceTypes DEF Types, RequestTypes, NoDuplicates
  <2>4. Cardinality(InCompleted) = Len(completed)
    <3> DEFINE f == [i \in 1..Len(completed) |-> completed[i].req]
    <3>1. Len(completed) \in Nat /\ DOMAIN completed = 1..Len(completed)
      BY LenProperties DEF Types
    <3>2. f \in Bijection(1..Len(completed), InCompleted)
      BY <3>1 DEF Bijection, Injection, Surjection, IsInjective, InCompleted, NoDuplicates
    <3>3. IsFiniteSet(1..Len(completed)) /\ Cardinality(1..Len(completed)) = Len(completed)
      BY <3>1, IntervalCardinality
    <3> QED
      BY <3>2, <3>3, FS_Bijection DEF ExistsBijection
  <2>5. /\ Cardinality(delivered) = Cardinality(Answered(delivered))
        /\ Cardinality(discarded) = Cardinality(Answered(discarded))
    BY AnsweredCardinality, PlacesFinite DEF Types, NoDuplicates
  <2> DEFINE S1 == Answered(delivered) \cup Answered(discarded)
             S2 == dropped \cup S1
             S3 == InCompleted \cup S2
             S4 == InFlight \cup S3
             S5 == InQueue \cup S4
  <2>6. /\ Disjoint(Answered(delivered), Answered(discarded))
        /\ Disjoint(dropped, S1) /\ Disjoint(InCompleted, S2)
        /\ Disjoint(InFlight, S3) /\ Disjoint(InQueue, S4)
    BY DEF PlacesDisjoint, Disjoint
  <2>7. /\ IsFiniteSet(S1)
        /\ Cardinality(S1) = Cardinality(Answered(delivered))
                               + Cardinality(Answered(discarded))
    BY <2>6, PlacesFinite, DisjointUnion
  <2>8. IsFiniteSet(S2) /\ Cardinality(S2) = Cardinality(dropped) + Cardinality(S1)
    BY <2>6, <2>7, PlacesFinite, DisjointUnion
  <2>9. IsFiniteSet(S3) /\ Cardinality(S3) = Cardinality(InCompleted) + Cardinality(S2)
    BY <2>6, <2>8, PlacesFinite, DisjointUnion
  <2>10. IsFiniteSet(S4) /\ Cardinality(S4) = Cardinality(InFlight) + Cardinality(S3)
    BY <2>6, <2>9, PlacesFinite, DisjointUnion
  <2>11. Cardinality(S5) = Cardinality(InQueue) + Cardinality(S4)
    BY <2>6, <2>10, PlacesFinite, DisjointUnion
  <2>12. S5 = Submitted
    BY DEF Submitted
  <2>13. /\ Cardinality(InQueue) \in Nat /\ Cardinality(InFlight) \in Nat
         /\ Cardinality(InCompleted) \in Nat /\ Cardinality(dropped) \in Nat
         /\ Cardinality(Answered(delivered)) \in Nat
         /\ Cardinality(Answered(discarded)) \in Nat
    BY PlacesFinite, FS_CardinalityType
  <2> HIDE DEF S1, S2, S3, S4, S5
  <2>14. Cardinality(Submitted) =
             Len(outgoing) + active_requests + Len(completed)
             + Cardinality(dropped) + Cardinality(delivered)
             + Cardinality(discarded)
    BY <2>1, <2>3, <2>4, <2>5, <2>7, <2>8, <2>9, <2>10, <2>11, <2>12, <2>13
  <2> QED
    BY <2>1, <2>2, <2>14 DEF EachRequestInOnePlace
<1> QED
  BY <1>1, Invariance, PTL

(* What the phase-end line of finalize_and_print reports adds up, and no   *)
(* descriptor is left open.                                                *)
THEOREM PhaseEndAccountingAlways == Spec => []PhaseEndAccounting
<1>1. IInv => PhaseEndAccounting
  <2> SUFFICES ASSUME IInv, spc = "done"
               PROVE  /\ Submitted = dropped \cup Answered(delivered)
                                        \cup Answered(discarded)
                      /\ Cardinality(discarded) =
                             completed_unconsumed_on_stop + active_cancelled_on_stop
                      /\ Cardinality(dropped) = queued_discarded_on_stop
                      /\ \A fd \in Fds : sock[fd] = "free"
    BY DEF PhaseEndAccounting
  <2> USE DEF IInv, SocketInv
  <2>1. /\ stopping /\ outgoing = <<>> /\ completed = <<>>
        /\ Cardinality(dropped) = queued_discarded_on_stop
        /\ Cardinality(discarded)
               = completed_unconsumed_on_stop + active_cancelled_on_stop
        /\ \A w \in Workers : wpc[w] = "exited"
    BY DEF PhaseOK
  <2>2. InQueue = {} /\ InCompleted = {}
    BY <2>1 DEF InQueue, InCompleted
  <2>3. InFlight = {} /\ \A w \in Workers : wfd[w] = NoFd
    BY <2>1 DEF InFlight, WorkersOK, Busy, Holding
  <2>4. Submitted = dropped \cup Answered(delivered) \cup Answered(discarded)
    BY <2>2, <2>3 DEF Submitted
  <2>5. \A fd \in Fds : sock[fd] = "free"
    BY <2>3, BridgeAssumption DEF DescriptorsOK, Fds
  <2> QED
    BY <2>1, <2>4, <2>5
<1> QED
  BY <1>1, Invariance, PTL

----------------------------------------------------------------------------
(***************************************************************************)
(* The bridge implements the life cycle of requests.                       *)
(***************************************************************************)

BridgeLife == [r \in Requests |-> Life(r)]

LifeIsPlace ==
    \A r \in Requests :
        /\ r \in InQueue => BridgeLife[r] = "queued"
        /\ r \in InFlight => BridgeLife[r] = "sent"
        /\ r \in InCompleted => BridgeLife[r] = "answered"
        /\ r \in Answered(delivered) => BridgeLife[r] = "delivered"
        /\ r \in Answered(discarded) => BridgeLife[r] = "discarded"
        /\ r \in dropped => BridgeLife[r] = "dropped"
        /\ r \in rejected => BridgeLife[r] = "refused"
        /\ r \notin Submitted \cup rejected => BridgeLife[r] = "new"

(* Since a request is in one place, its stage is that place.               *)
LEMMA LifeFollowsPlace == PlacesDisjoint => LifeIsPlace
<1> SUFFICES ASSUME PlacesDisjoint, NEW r \in Requests
             PROVE  /\ r \in InQueue => Life(r) = "queued"
                    /\ r \in InFlight => Life(r) = "sent"
                    /\ r \in InCompleted => Life(r) = "answered"
                    /\ r \in Answered(delivered) => Life(r) = "delivered"
                    /\ r \in Answered(discarded) => Life(r) = "discarded"
                    /\ r \in dropped => Life(r) = "dropped"
                    /\ r \in rejected => Life(r) = "refused"
                    /\ r \notin Submitted \cup rejected => Life(r) = "new"
  BY DEF LifeIsPlace, BridgeLife
<1> QED
  BY DEF PlacesDisjoint, Disjoint, Life, Submitted

(* A request is in a place or new.                                         *)
LEMMA PlaceCases ==
  ASSUME NEW r \in Requests
  PROVE  \/ r \in InQueue \/ r \in InFlight \/ r \in InCompleted
         \/ r \in Answered(delivered) \/ r \in Answered(discarded)
         \/ r \in dropped \/ r \in rejected
         \/ r \notin Submitted \cup rejected
BY DEF Submitted

(* One request takes one step of its life...                               *)
LEMMA OneSteps ==
  ASSUME NEW r \in Requests, NEW to,
         \A q \in Requests : BridgeLife'[q] = IF q = r THEN to ELSE BridgeLife[q]
  PROVE  BridgeLife' = [BridgeLife EXCEPT ![r] = to]
<1>1. /\ BridgeLife' = [q \in Requests |-> BridgeLife'[q]]
      /\ BridgeLife = [q \in Requests |-> BridgeLife[q]]
  BY DEF BridgeLife
<1> QED
  BY <1>1

(* ... or all those of one stage take it together.                         *)
LEMMA AllMove ==
  ASSUME NEW from, NEW to,
         \A q \in Requests :
             BridgeLife'[q] = IF BridgeLife[q] = from THEN to ELSE BridgeLife[q]
  PROVE  BridgeLife' = [q \in Requests |->
                           IF BridgeLife[q] = from THEN to ELSE BridgeLife[q]]
<1>1. BridgeLife' = [q \in Requests |-> BridgeLife'[q]]
  BY DEF BridgeLife
<1> QED
  BY <1>1

(* Each step of the bridge is a step of the life cycle, or none.           *)
LEMMA BridgeSimulates ==
  ASSUME IInv, [Next]_vars, LifeIsPlace, LifeIsPlace'
  PROVE  [Lifecycle!Next]_Lifecycle!vars
<1> USE DEF IInv, RequestInv, LifeIsPlace
<1>1. ASSUME NEW r \in Requests, Submit(r)
      PROVE  Lifecycle!Accept(r) \/ Lifecycle!Refuse(r)
  <2>1. /\ r \notin Submitted \cup rejected
        /\ InFlight' = InFlight /\ InCompleted' = InCompleted
        /\ UNCHANGED <<dropped, delivered, discarded, stopping>>
    BY <1>1, SubmitMoves
  <2>2. BridgeLife[r] = "new"
    BY <2>1
  <2>3. CASE InQueue' = InQueue \cup {r} /\ rejected' = rejected /\ ~stopping
    <3>1. \A q \in Requests :
              BridgeLife'[q] = IF q = r THEN "queued" ELSE BridgeLife[q]
      BY <2>1, <2>3, PlaceCases DEF Submitted, Answered
    <3>2. BridgeLife' = [BridgeLife EXCEPT ![r] = "queued"]
      BY <3>1, OneSteps
    <3> QED
      BY <2>1, <2>2, <2>3, <3>2 DEF Lifecycle!Accept, Lifecycle!Step, BridgeLife
  <2>4. CASE InQueue' = InQueue /\ rejected' = rejected \cup {r}
    <3>1. \A q \in Requests :
              BridgeLife'[q] = IF q = r THEN "refused" ELSE BridgeLife[q]
      BY <2>1, <2>4, PlaceCases DEF Submitted, Answered
    <3>2. BridgeLife' = [BridgeLife EXCEPT ![r] = "refused"]
      BY <3>1, OneSteps
    <3> QED
      BY <2>1, <2>2, <2>4, <3>2 DEF Lifecycle!Refuse, Lifecycle!Step, BridgeLife
  <2> QED
    BY <1>1, <2>3, <2>4, SubmitMoves
<1>2. ASSUME NEW w \in Workers, Dispatch(w)
      PROVE  \E r \in Requests : Lifecycle!Dispatch(r)
  <2>1. /\ InCompleted' = InCompleted /\ ~stopping
        /\ UNCHANGED <<rejected, dropped, delivered, discarded, stopping>>
    BY <1>2, DispatchMoves
  <2>2. PICK r \in InQueue : /\ InQueue' = InQueue \ {r}
                             /\ InFlight' = InFlight \cup {r}
    BY <1>2, DispatchMoves
  <2>3. r \in Requests
    BY <2>2, PlaceTypes DEF SocketInv, RequestTypes
  <2>4. BridgeLife[r] = "queued"
    BY <2>2, <2>3
  <2>5. \A q \in Requests :
            BridgeLife'[q] = IF q = r THEN "sent" ELSE BridgeLife[q]
    BY <2>1, <2>2, PlaceCases DEF Submitted, Answered
  <2>6. BridgeLife' = [BridgeLife EXCEPT ![r] = "sent"]
    BY <2>3, <2>5, OneSteps
  <2> QED
    BY <2>1, <2>3, <2>4, <2>6 DEF Lifecycle!Dispatch, Lifecycle!Step, BridgeLife
<1>3. ASSUME NEW w \in Workers, PushCompleted(w)
      PROVE  \E r \in Requests : Lifecycle!Answer(r)
  <2>1. /\ InQueue' = InQueue
        /\ UNCHANGED <<rejected, dropped, delivered, discarded, stopping>>
    BY <1>3, PushMoves
  <2>2. PICK r \in InFlight : /\ InFlight' = InFlight \ {r}
                              /\ InCompleted' = InCompleted \cup {r}
    BY <1>3, PushMoves
  <2>3. r \in Requests
    BY <2>2, PlaceTypes DEF SocketInv, RequestTypes
  <2>4. BridgeLife[r] = "sent"
    BY <2>2, <2>3
  <2>5. \A q \in Requests :
            BridgeLife'[q] = IF q = r THEN "answered" ELSE BridgeLife[q]
    BY <2>1, <2>2, PlaceCases DEF Submitted, Answered
  <2>6. BridgeLife' = [BridgeLife EXCEPT ![r] = "answered"]
    BY <2>3, <2>5, OneSteps
  <2> QED
    BY <2>1, <2>3, <2>4, <2>6 DEF Lifecycle!Answer, Lifecycle!Step, BridgeLife
<1>4. CASE Poll
  <2>1. /\ Answered(delivered)' = Answered(delivered) \cup InCompleted
        /\ InCompleted' = {} /\ InQueue' = InQueue /\ InFlight' = InFlight
        /\ UNCHANGED <<rejected, dropped, discarded, stopping>>
    BY <1>4, PollMoves
  <2>2. ~stopping
    BY <1>4 DEF Poll, PhaseOK
  <2>3. \A q \in Requests :
            BridgeLife'[q] = IF BridgeLife[q] = "answered" THEN "delivered"
                             ELSE BridgeLife[q]
    BY <2>1, PlaceCases DEF Submitted, Answered
  <2>4. Lifecycle!Move("answered", "delivered")
    BY <2>3, AllMove DEF Lifecycle!Move, BridgeLife
  <2> QED
    BY <2>1, <2>2, <2>4 DEF Lifecycle!Next, Lifecycle!Deliver
<1>5. CASE BeginStop
  <2>1. /\ dropped' = dropped \cup InQueue /\ InQueue' = {}
        /\ InFlight' = InFlight /\ InCompleted' = InCompleted
        /\ UNCHANGED <<rejected, delivered, discarded>>
        /\ ~stopping /\ stopping'
    BY <1>5, BeginStopMoves
  <2>2. \A q \in Requests :
            BridgeLife'[q] = IF BridgeLife[q] = "queued" THEN "dropped"
                             ELSE BridgeLife[q]
    BY <2>1, PlaceCases DEF Submitted, Answered
  <2>3. Lifecycle!Move("queued", "dropped")
    BY <2>2, AllMove DEF Lifecycle!Move, BridgeLife
  <2> QED
    BY <2>1, <2>3 DEF Lifecycle!Next, Lifecycle!Close
<1>6. CASE FinalPoll
  <2>1. /\ Answered(discarded)' = Answered(discarded) \cup InCompleted
        /\ InCompleted' = {} /\ InQueue' = InQueue /\ InFlight' = InFlight
        /\ UNCHANGED <<rejected, dropped, delivered, stopping>>
    BY <1>6, FinalPollMoves
  <2>2. stopping /\ InFlight = {}
    BY <1>6 DEF FinalPoll, PhaseOK, InFlight, SocketInv, WorkersOK, Busy
  <2>3. \A q \in Requests :
            BridgeLife'[q] = IF BridgeLife[q] = "answered" THEN "discarded"
                             ELSE BridgeLife[q]
    BY <2>1, PlaceCases DEF Submitted, Answered
  <2>4. Lifecycle!Move("answered", "discarded")
    BY <2>3, AllMove DEF Lifecycle!Move, BridgeLife
  <2>5. \A q \in Requests : BridgeLife[q] # "sent"
    BY <2>2, PlaceCases
  <2> QED
    BY <2>1, <2>2, <2>4, <2>5 DEF Lifecycle!Next, Lifecycle!Discard, BridgeLife
<1>7. CASE UNCHANGED requestVars
  <2>1. /\ InQueue' = InQueue /\ InFlight' = InFlight /\ InCompleted' = InCompleted
        /\ UNCHANGED <<rejected, dropped, delivered, discarded, stopping>>
    BY <1>7, QuietMoves
  <2>2. \A q \in Requests : BridgeLife'[q] = BridgeLife[q]
    BY <2>1, PlaceCases DEF Submitted, Answered
  <2>3. BridgeLife' = BridgeLife
    BY <2>2 DEF BridgeLife
  <2> QED
    BY <2>1, <2>3 DEF Lifecycle!vars, BridgeLife
<1> QED
  BY <1>1, <1>2, <1>3, <1>4, <1>5, <1>6, <1>7, NextMoves DEF Lifecycle!Next

(* The bridge implements RequestLifecycle: no request is answered twice,   *)
(* dispatched after stop(), or lost without being counted.                 *)
THEOREM ImplementsLifecycleAlways == Spec => ImplementsLifecycle
<1>1. Init => Lifecycle!Init
  <2> SUFFICES ASSUME Init PROVE Lifecycle!Init
    OBVIOUS
  <2>1. /\ InQueue = {} /\ InFlight = {} /\ InCompleted = {}
        /\ Answered(delivered) = {} /\ Answered(discarded) = {}
        /\ dropped = {} /\ rejected = {} /\ ~stopping
    BY DEF Init, InQueue, InFlight, InCompleted, Answered
  <2>2. \A r \in Requests : Life(r) = "new"
    BY <2>1 DEF Life
  <2> QED
    BY <2>1, <2>2 DEF Lifecycle!Init
<1>2. IInv => LifeIsPlace
  BY LifeFollowsPlace DEF IInv, RequestInv
<1>3. IInv /\ IInv' /\ [Next]_vars => [Lifecycle!Next]_Lifecycle!vars
  <2>1. IInv' => LifeIsPlace'
    BY <1>2, PTL
  <2> QED
    BY <1>2, <2>1, BridgeSimulates
<1> QED
  BY <1>1, <1>3, Invariance, PTL DEF Spec, ImplementsLifecycle, Lifecycle!Spec
============================================================================
