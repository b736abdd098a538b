-------------------------- MODULE LLMClientProofs --------------------------
(***************************************************************************)
(* For every set of requests, number of samples, concurrency, retry and    *)
(* rate limit: no permit and no lock of the limiter leaks, a request makes *)
(* at most max_retries + 1 attempts, a future tells of all its samples,    *)
(* and what a budget has ended stays ended.                                *)
(***************************************************************************)
EXTENDS LLMClient, FiniteSetTheorems, TLAPS

(***************************************************************************)
(* The inductive invariant.                                                *)
(***************************************************************************)

Places   == {"new", "done"} \cup Suspended
Outcomes == {"none", "ok", "malformed", "http", "client", "raised",
             "timeout", "cancelled"}

ClientTypeOK ==
    /\ pc \in [Samples -> Places]
    /\ attempt \in [Samples -> 0..MaxRetries]
    /\ result \in [Samples -> Outcomes]
    /\ permits \in Nat
    /\ lock \in Samples \cup {NoSample}
    /\ tokens \in 0..Rate
    /\ future \in [Requests -> {"none", "pending", "result", "error", "cancelled"}]
    /\ loop \in {"open", "closing", "stopped"}
    /\ expired \subseteq Samples

(* A sample is new until its request is submitted, has a result when it is *)
(* done, and is done when its budget has ended; who sleeps between two     *)
(* attempts has one left.                                                  *)
SamplesOK ==
    \A s \in Samples :
        /\ future[s[1]] = "none" => pc[s] = "new"
        /\ result[s] # "none" <=> pc[s] = "done"
        /\ s \in expired => pc[s] = "done"
        /\ pc[s] \in {"retry", "backoff"} => attempt[s] < MaxRetries

Holding == {s \in Samples : pc[s] \in HoldsPermit}
Paced   == {s \in Samples : pc[s] = "paced"}

PermitsOK == permits + Cardinality(Holding) = MaxConcurrency
LockOK    == Paced = {lock} \ {NoSample}

IInv == ClientTypeOK /\ SamplesOK /\ PermitsOK /\ LockOK /\ FutureTellsAll

----------------------------------------------------------------------------
(* A sample is a pair of a request and a number, and there are finitely    *)
(* many.                                                                   *)
LEMMA SampleFacts ==
    /\ \A s \in Samples : s[1] \in Requests /\ s # NoSample
    /\ NoSample \notin Samples
    /\ \A r \in Requests : Of(r) \subseteq Samples
    /\ \A s \in Samples : s \in Of(s[1])
<1>1. \A s \in Samples : s[1] \in Requests /\ s # NoSample
  <2> SUFFICES ASSUME NEW r \in Requests, NEW i \in 1..Count[r]
               PROVE  <<r, i>>[1] \in Requests /\ <<r, i>> # <<>>
    BY DEF Samples, NoSample
  <2> QED
    OBVIOUS
<1> QED
  BY <1>1 DEF Of

(* The samples a client is asked for are finitely many.                    *)
LEMMA SamplesFinite == IsFiniteSet(Samples)
<1> DEFINE Family == {{r} \X (1..Count[r]) : r \in Requests}
           f == [r \in Requests |-> {r} \X (1..Count[r])]
<1>1. ASSUME NEW r \in Requests PROVE IsFiniteSet({r} \X (1..Count[r]))
  <2>1. Count[r] \in Int
    BY ClientAssumption
  <2>2. IsFiniteSet(1..Count[r])
    BY <2>1, FS_Interval
  <2>3. IsFiniteSet({r})
    BY FS_Singleton
  <2> QED
    BY <2>2, <2>3, FS_Product
<1>2. f \in Surjection(Requests, Family)
  BY DEF Surjection
<1>3. IsFiniteSet(Family)
  BY <1>2, FS_Surjection, ClientAssumption
<1>4. \A T \in Family : IsFiniteSet(T)
  BY <1>1
<1> HIDE DEF Family
<1>5. IsFiniteSet(UNION Family)
  BY <1>3, <1>4, FS_UNION
<1> QED
  BY <1>5 DEF Samples, Family

(* So are those that hold a permit of the semaphore at one time.           *)
LEMMA HoldingFinite == IsFiniteSet(Holding) /\ Cardinality(Holding) \in Nat
<1>1. Holding \in SUBSET Samples
  BY DEF Holding
<1> QED
  BY <1>1, SamplesFinite, FS_Subset, FS_CardinalityType

(* The async with blocks: what the ended samples held is given back, be it *)
(* one sample that returns or all those of a cancelled request.            *)
LEMMA ReleasedPermits ==
  ASSUME IInv, NEW ended \in SUBSET Samples, Released(ended),
         Holding' = Holding \ ended
  PROVE  PermitsOK' /\ permits' \in Nat
<1>1. {s \in ended : pc[s] \in HoldsPermit} = Holding \cap ended
  BY DEF Holding
<1>2. /\ Cardinality(Holding') = Cardinality(Holding) - Cardinality(Holding \cap ended)
      /\ Cardinality(Holding \cap ended) \in Nat
  BY HoldingFinite, FS_Difference, FS_Intersection, FS_CardinalityType
<1>3. permits' = permits + Cardinality(Holding \cap ended)
  BY <1>1 DEF Released
<1> QED
  BY <1>2, <1>3, HoldingFinite, ClientAssumption DEF IInv, ClientTypeOK, PermitsOK

(* Whatever way a sample leaves by, the rate lock is not left with it.     *)
LEMMA ReleasedLock ==
  ASSUME IInv, NEW ended \in SUBSET Samples, Released(ended),
         Paced' = Paced \ ended
  PROVE  LockOK' /\ lock' \in Samples \cup {NoSample}
BY SampleFacts DEF IInv, ClientTypeOK, LockOK, Released

(* One sample leaves its place for another.                                *)
LEMMA MoveOne ==
  ASSUME IInv, NEW s \in Samples, NEW to, pc' = [pc EXCEPT ![s] = to]
  PROVE  /\ \A t \in Samples : pc'[t] = IF t = s THEN to ELSE pc[t]
         /\ to \in Places => pc' \in [Samples -> Places]
         /\ Holding' = IF to \in HoldsPermit THEN Holding \cup {s} ELSE Holding \ {s}
         /\ Paced' = IF to = "paced" THEN Paced \cup {s} ELSE Paced \ {s}
<1>1. \A t \in Samples : pc'[t] = IF t = s THEN to ELSE pc[t]
  BY DEF IInv, ClientTypeOK
<1>2. to \in Places => pc' \in [Samples -> Places]
  BY DEF IInv, ClientTypeOK
<1>3. Holding' = IF to \in HoldsPermit THEN Holding \cup {s} ELSE Holding \ {s}
  BY <1>1 DEF Holding
<1>4. Paced' = IF to = "paced" THEN Paced \cup {s} ELSE Paced \ {s}
  BY <1>1 DEF Paced
<1> QED
  BY <1>1, <1>2, <1>3, <1>4

(* _generate_with_retries returns or raises: the sample is done.           *)
LEMMA SettleOK ==
  ASSUME IInv, NEW s \in Samples, Live(s),
         NEW outcome \in Outcomes \ {"none"}, Settle(s, outcome)
  PROVE  /\ pc' \in [Samples -> Places] /\ result' \in [Samples -> Outcomes]
         /\ permits' \in Nat /\ lock' \in Samples \cup {NoSample}
         /\ PermitsOK' /\ LockOK'
         /\ \A t \in Samples : t # s => pc'[t] = pc[t] /\ result'[t] = result[t]
         /\ pc'[s] = "done" /\ result'[s] = outcome
<1>1. pc' = [pc EXCEPT ![s] = "done"] /\ Released({s})
  BY DEF Settle
<1>2. /\ Holding' = Holding \ {s} /\ Paced' = Paced \ {s}
      /\ pc' \in [Samples -> Places]
      /\ \A t \in Samples : pc'[t] = IF t = s THEN "done" ELSE pc[t]
  BY <1>1, MoveOne DEF HoldsPermit, Places
<1>3. PermitsOK' /\ permits' \in Nat /\ LockOK' /\ lock' \in Samples \cup {NoSample}
  BY <1>1, <1>2, ReleasedPermits, ReleasedLock
<1>4. /\ result' \in [Samples -> Outcomes]
      /\ \A t \in Samples : result'[t] = IF t = s THEN outcome ELSE result[t]
  BY DEF Settle, IInv, ClientTypeOK
<1> QED
  BY <1>2, <1>3, <1>4

(* A set of live samples is cancelled at the awaits they are in.           *)
LEMMA CancelledOK ==
  ASSUME IInv, NEW ended \in SUBSET Samples, \A s \in ended : Live(s),
         NEW outcome \in {"timeout", "cancelled"}, Cancelled(ended, outcome)
  PROVE  /\ pc' \in [Samples -> Places] /\ result' \in [Samples -> Outcomes]
         /\ permits' \in Nat /\ lock' \in Samples \cup {NoSample}
         /\ expired' \subseteq Samples
         /\ PermitsOK' /\ LockOK'
         /\ \A t \in Samples \ ended : pc'[t] = pc[t] /\ result'[t] = result[t]
         /\ \A t \in ended : pc'[t] = "done" /\ result'[t] = outcome
<1>1. /\ pc' = [s \in Samples |-> IF s \in ended THEN "done" ELSE pc[s]]
      /\ result' = [s \in Samples |-> IF s \in ended THEN outcome ELSE result[s]]
      /\ Released(ended) /\ expired' = expired \cup ended
  BY DEF Cancelled
<1>2. Holding' = Holding \ ended /\ Paced' = Paced \ ended
  BY <1>1 DEF Holding, Paced, HoldsPermit
<1>3. pc' \in [Samples -> Places]
  BY <1>1 DEF IInv, ClientTypeOK, Places
<1>4. result' \in [Samples -> Outcomes]
  BY <1>1 DEF IInv, ClientTypeOK, Outcomes
<1>5. expired' \subseteq Samples
  BY <1>1 DEF IInv, ClientTypeOK
<1> QED
  BY <1>1, <1>2, <1>3, <1>4, <1>5, ReleasedPermits, ReleasedLock

(* A done sample stays as it is: none of its awaits is left.               *)
LEMMA DoneStays ==
  ASSUME IInv, [Next]_vars, NEW s \in Samples, pc[s] = "done"
  PROVE  pc'[s] = "done" /\ result'[s] = result[s]
<1> USE DEF IInv, ClientTypeOK
<1>1. ASSUME NEW r \in Requests, Submit(r)
      PROVE  pc'[s] = "done" /\ result'[s] = result[s]
  <2>1. s \notin Of(r)
    BY <1>1, SampleFacts DEF Submit, SamplesOK, Of
  <2> QED
    BY <1>1, <2>1 DEF Submit
<1>2. ASSUME NEW r \in Requests, Gather(r) \/ CancelFuture(r)
      PROVE  pc'[s] = "done" /\ result'[s] = result[s]
  BY <1>2 DEF Gather, CancelFuture
<1>3. ASSUME NEW r \in Requests, DeliverCancel(r)
      PROVE  pc'[s] = "done" /\ result'[s] = result[s]
  BY <1>3 DEF DeliverCancel, Cancelled, Live, Suspended, HoldsPermit
<1>4. ASSUME NEW t \in Samples, SampleStep(t)
      PROVE  pc'[s] = "done" /\ result'[s] = result[s]
  <2>1. t # s
    BY <1>4 DEF SampleStep, AcquirePermit, EnterLimiter, WakePaced, FinalAnswer,
           RetryableAnswer, ConnectionFails, NextAttempt, Expire, Live, Suspended,
           HoldsPermit
  <2>2. CASE Expire(t)
    BY <2>1, <2>2 DEF Expire, Cancelled
  <2>3. CASE EnterLimiter(t) \/ WakePaced(t)
    BY <2>1, <2>3 DEF EnterLimiter, WakePaced, LimiterTurn, StartPost
  <2> QED
    BY <1>4, <2>1, <2>2, <2>3
    DEF SampleStep, AcquirePermit, FinalAnswer, RetryableAnswer, ConnectionFails,
        NextAttempt, Settle
<1>5. CASE CloseSession \/ StopLoop \/ UNCHANGED vars
  BY <1>5 DEF CloseSession, StopLoop, vars
<1> QED
  BY <1>1, <1>2, <1>3, <1>4, <1>5 DEF Next, Done

----------------------------------------------------------------------------
(***************************************************************************)
(* The inductive step.                                                     *)
(***************************************************************************)

(* A sample goes on to another await.                                      *)
LEMMA GoesOn ==
  ASSUME IInv, NEW s \in Samples, Live(s), NEW to \in Suspended,
         pc' = [pc EXCEPT ![s] = to], UNCHANGED <<result, future, expired>>,
         \A t \in Samples : t # s => attempt'[t] = attempt[t],
         to \in {"retry", "backoff"} => attempt'[s] < MaxRetries
  PROVE  SamplesOK'
<1>1. to # "done" /\ to # "new" /\ pc[s] # "done" /\ pc[s] # "new"
  BY DEF Live, Suspended, HoldsPermit
<1>2. \A t \in Samples : pc'[t] = IF t = s THEN to ELSE pc[t]
  BY DEF IInv, ClientTypeOK
<1> QED
  BY <1>1, <1>2 DEF IInv, SamplesOK

(* Some live samples end.                                                  *)
LEMMA End ==
  ASSUME IInv, NEW ended \in SUBSET Samples, \A s \in ended : Live(s),
         \A t \in Samples \ ended : pc'[t] = pc[t] /\ result'[t] = result[t],
         \A t \in ended : pc'[t] = "done" /\ result'[t] # "none",
         expired' \subseteq expired \cup ended, UNCHANGED <<future, attempt>>
  PROVE  SamplesOK'
<1>1. \A s \in ended : pc[s] # "done" /\ pc[s] # "new"
  BY DEF Live, Suspended, HoldsPermit
<1> QED
  BY <1>1 DEF IInv, SamplesOK

CoreInv == ClientTypeOK /\ SamplesOK /\ PermitsOK /\ LockOK

(* submit_many brings in samples that hold nothing.                        *)
LEMMA SubmitCore == ASSUME IInv, NEW r \in Requests, Submit(r) PROVE CoreInv'
<1> USE DEF IInv, ClientTypeOK
<1>1. /\ future[r] = "none" /\ future' = [future EXCEPT ![r] = "pending"]
      /\ pc' = [s \in Samples |-> IF s \in Of(r) THEN "slot" ELSE pc[s]]
      /\ UNCHANGED <<attempt, result, permits, lock, tokens, loop, expired>>
  BY DEF Submit
<1>2. \A s \in Of(r) : s \in Samples /\ pc[s] = "new"
  BY <1>1, SampleFacts DEF SamplesOK, Of
<1>3. pc' \in [Samples -> Places]
  BY <1>1 DEF Places, Suspended
<1>4. SamplesOK'
  BY <1>1, <1>2, SampleFacts DEF SamplesOK, Of
<1>5. Holding' = Holding /\ Paced' = Paced
  BY <1>1, <1>2 DEF Holding, Paced, HoldsPermit
<1>6. future' \in [Requests -> {"none", "pending", "result", "error", "cancelled"}]
  BY <1>1
<1> QED
  BY <1>1, <1>3, <1>4, <1>5, <1>6 DEF CoreInv, PermitsOK, LockOK

(* The future of a request moves; its samples do not.                      *)
LEMMA FutureCore ==
  ASSUME IInv, NEW r \in Requests, Gather(r) \/ CancelFuture(r)
  PROVE  CoreInv'
<1> USE DEF IInv, ClientTypeOK
<1>1. /\ UNCHANGED <<pc, attempt, result, permits, lock, tokens, loop, expired>>
      /\ future[r] = "pending"
      /\ \E f \in {"result", "error", "cancelled"} : future' = [future EXCEPT ![r] = f]
  BY DEF Gather, CancelFuture
<1>2. future' \in [Requests -> {"none", "pending", "result", "error", "cancelled"}]
  BY <1>1
<1>3. SamplesOK'
  BY <1>1, SampleFacts DEF SamplesOK
<1> QED
  BY <1>1, <1>2, <1>3 DEF CoreInv, PermitsOK, LockOK, Holding, Paced

(* A budget ends, or the registry cancels what is left of a request.       *)
LEMMA CancelCore ==
  ASSUME IInv, \/ \E s \in Samples : Expire(s)
               \/ \E r \in Requests : DeliverCancel(r)
  PROVE  CoreInv'
<1>1. PICK ended \in SUBSET Samples :
          /\ \A s \in ended : Live(s)
          /\ \E outcome \in {"timeout", "cancelled"} : Cancelled(ended, outcome)
          /\ UNCHANGED <<tokens, future, loop>>
  <2>1. ASSUME NEW s \in Samples, Expire(s)
        PROVE  \E ended \in SUBSET Samples :
                   /\ \A t \in ended : Live(t)
                   /\ \E outcome \in {"timeout", "cancelled"} : Cancelled(ended, outcome)
                   /\ UNCHANGED <<tokens, future, loop>>
    <3> WITNESS {s} \in SUBSET Samples
    <3> QED
      BY <2>1 DEF Expire
  <2>2. ASSUME NEW r \in Requests, DeliverCancel(r)
        PROVE  \E ended \in SUBSET Samples :
                   /\ \A t \in ended : Live(t)
                   /\ \E outcome \in {"timeout", "cancelled"} : Cancelled(ended, outcome)
                   /\ UNCHANGED <<tokens, future, loop>>
    <3> DEFINE live == {s \in Of(r) \ expired : Live(s)}
    <3>1. live \in SUBSET Samples /\ \A s \in live : Live(s)
      BY SampleFacts
    <3>2. Cancelled(live, "cancelled") /\ UNCHANGED <<tokens, future, loop>>
      BY <2>2 DEF DeliverCancel
    <3> HIDE DEF live
    <3> QED
      BY <3>1, <3>2
  <2> QED
    BY <2>1, <2>2
<1>2. PICK outcome \in {"timeout", "cancelled"} : Cancelled(ended, outcome)
  BY <1>1
<1>3. /\ pc' \in [Samples -> Places] /\ result' \in [Samples -> Outcomes]
      /\ permits' \in Nat /\ lock' \in Samples \cup {NoSample}
      /\ expired' \subseteq Samples
      /\ PermitsOK' /\ LockOK'
      /\ \A t \in Samples \ ended : pc'[t] = pc[t] /\ result'[t] = result[t]
      /\ \A t \in ended : pc'[t] = "done" /\ result'[t] = outcome
  BY <1>1, <1>2, CancelledOK
<1>4. expired' = expired \cup ended /\ attempt' = attempt
  BY <1>2 DEF Cancelled
<1>5. SamplesOK'
  BY <1>1, <1>3, <1>4, End
<1> QED
  BY <1>1, <1>3, <1>4, <1>5 DEF CoreInv, IInv, ClientTypeOK

(* async with self._semaphore takes a permit for one sample, unless the    *)
(* closed session ends it at once.                                         *)
LEMMA AcquireCore == ASSUME IInv, NEW s \in Samples, AcquirePermit(s) PROVE CoreInv'
<1> USE DEF IInv, ClientTypeOK
<1>1. /\ pc[s] = "slot" /\ permits > 0
      /\ UNCHANGED <<attempt, lock, tokens, future, loop, expired>>
  BY DEF AcquirePermit
<1>2. Live(s) /\ s \notin Holding /\ s \notin Paced
  BY <1>1 DEF Live, Suspended, Holding, Paced, HoldsPermit
<1>3. ASSUME NEW to \in {"limiter", "post"}, pc' = [pc EXCEPT ![s] = to],
             permits' = permits - 1, UNCHANGED result
      PROVE  CoreInv'
  <2>1. to \in HoldsPermit /\ to \in Suspended /\ to \in Places /\ to # "paced"
    BY <1>3 DEF HoldsPermit, Suspended, Places
  <2>2. /\ pc' \in [Samples -> Places]
        /\ Holding' = Holding \cup {s} /\ Paced' = Paced \ {s}
    BY <1>3, <2>1, MoveOne
  <2>3. permits' \in Nat
    BY <1>1, <1>3
  <2>4. Cardinality(Holding') = Cardinality(Holding) + 1
    BY <1>2, <2>2, HoldingFinite, FS_AddElement
  <2>5. PermitsOK'
    BY <1>3, <2>4, HoldingFinite DEF PermitsOK
  <2>6. LockOK'
    BY <1>1, <1>2, <2>2 DEF LockOK
  <2>7. SamplesOK'
    BY <1>1, <1>2, <1>3, <2>1, GoesOn
  <2> QED
    BY <1>1, <1>3, <2>2, <2>3, <2>5, <2>6, <2>7 DEF CoreInv
<1>4. CASE /\ pc' = [pc EXCEPT ![s] = "done"]
           /\ result' = [result EXCEPT ![s] = "raised"]
           /\ UNCHANGED permits
  <2>1. /\ pc' \in [Samples -> Places]
        /\ Holding' = Holding \ {s} /\ Paced' = Paced \ {s}
        /\ \A t \in Samples : pc'[t] = IF t = s THEN "done" ELSE pc[t]
    BY <1>4, MoveOne DEF HoldsPermit, Places
  <2>2. /\ result' \in [Samples -> Outcomes]
        /\ \A t \in Samples : result'[t] = IF t = s THEN "raised" ELSE result[t]
    BY <1>4 DEF Outcomes
  <2>3. Holding' = Holding /\ Paced' = Paced
    BY <1>2, <2>1
  <2>4. /\ {s} \in SUBSET Samples
        /\ \A t \in {s} : Live(t) /\ pc'[t] = "done" /\ result'[t] # "none"
        /\ \A t \in Samples \ {s} : pc'[t] = pc[t] /\ result'[t] = result[t]
    BY <1>2, <2>1, <2>2
  <2>5. SamplesOK'
    BY <1>1, <2>4, End
  <2> QED
    BY <1>1, <1>4, <2>1, <2>2, <2>3, <2>5 DEF CoreInv, PermitsOK, LockOK
<1> QED
  BY <1>3, <1>4 DEF AcquirePermit

(* The arithmetic of the limiter: whatever time has passed, the bucket     *)
(* neither overflows nor runs into debt.                                   *)
LEMMA BucketBounds ==
  ASSUME tokens \in 0..Rate, NEW elapsed \in Int,
         elapsed >= 0 \/ elapsed >= WaitFor(tokens)
  PROVE  LET have == Refilled(elapsed)
         IN  IF have >= Token THEN have - Token \in 0..Rate ELSE have \in 0..Rate
BY ClientAssumption DEF Refilled, Smaller, WaitFor

(* A turn of the limiter: the sample takes a token and starts its post,    *)
(* ends at a closed session, or sleeps on with the lock.                   *)
LEMMA LimiterCore ==
  ASSUME IInv, NEW s \in Samples, EnterLimiter(s) \/ WakePaced(s) PROVE CoreInv'
<1> USE DEF IInv, ClientTypeOK
<1>1. /\ pc[s] \in {"limiter", "paced"}
      /\ lock = IF pc[s] = "paced" THEN s ELSE NoSample
      /\ UNCHANGED <<attempt, future, loop, expired>>
  BY DEF EnterLimiter, WakePaced, LockOK, Paced
<1>2. Live(s) /\ s \in Holding
  BY <1>1 DEF Live, Suspended, Holding, HoldsPermit
<1>3. PICK elapsed \in Int : /\ elapsed >= 0 \/ elapsed >= WaitFor(tokens)
                             /\ LimiterTurn(s, elapsed)
  <2>1. CASE EnterLimiter(s)
    <3>1. \A e \in 0..Rate : e \in Int /\ e >= 0
      BY ClientAssumption
    <3> QED
      BY <2>1, <3>1 DEF EnterLimiter
  <2>2. CASE WakePaced(s)
    <3>1. WaitFor(tokens) \in Int /\ Token + Rate \in Int
      BY ClientAssumption DEF WaitFor
    <3>2. \A e \in WaitFor(tokens)..(Token + Rate) : e \in Int /\ e >= WaitFor(tokens)
      BY <3>1
    <3> QED
      BY <2>2, <3>2 DEF WakePaced
  <2> QED
    BY <2>1, <2>2
<1> DEFINE have == Refilled(elapsed)
<1>4. IF have >= Token THEN have - Token \in 0..Rate ELSE have \in 0..Rate
  BY <1>3, BucketBounds
<1>5. tokens' \in 0..Rate
  BY <1>3, <1>4 DEF LimiterTurn
<1> HIDE DEF have
<1>6. \/ have >= Token /\ lock' = NoSample /\ StartPost(s)
      \/ /\ lock' = s /\ pc' = [pc EXCEPT ![s] = "paced"]
         /\ UNCHANGED <<result, permits>>
  BY <1>3 DEF LimiterTurn, have
<1>7. Paced \subseteq {s} /\ s # NoSample
  BY <1>1, SampleFacts DEF LockOK
<1>8. CASE lock' = s /\ pc' = [pc EXCEPT ![s] = "paced"] /\ UNCHANGED <<result, permits>>
  <2>1. "paced" \in HoldsPermit /\ "paced" \in Suspended /\ "paced" \in Places
    BY DEF HoldsPermit, Suspended, Places
  <2>2. /\ pc' \in [Samples -> Places]
        /\ Holding' = Holding \cup {s} /\ Paced' = Paced \cup {s}
    BY <1>8, <2>1, MoveOne
  <2>3. Holding' = Holding
    BY <1>2, <2>2
  <2>4. LockOK'
    BY <1>7, <1>8, <2>2 DEF LockOK
  <2>5. SamplesOK'
    BY <1>1, <1>2, <1>8, <2>1, GoesOn
  <2> QED
    BY <1>1, <1>5, <1>8, <2>2, <2>3, <2>4, <2>5 DEF CoreInv, PermitsOK
<1>9. CASE /\ lock' = NoSample /\ pc' = [pc EXCEPT ![s] = "post"]
           /\ UNCHANGED <<result, permits>>
  <2>1. "post" \in HoldsPermit /\ "post" \in Suspended /\ "post" \in Places
    BY DEF HoldsPermit, Suspended, Places
  <2>2. /\ pc' \in [Samples -> Places]
        /\ Holding' = Holding \cup {s} /\ Paced' = Paced \ {s}
    BY <1>9, <2>1, MoveOne
  <2>3. Holding' = Holding
    BY <1>2, <2>2
  <2>4. LockOK'
    BY <1>7, <1>9, <2>2 DEF LockOK
  <2>5. SamplesOK'
    BY <1>1, <1>2, <1>9, <2>1, GoesOn
  <2> QED
    BY <1>1, <1>5, <1>9, <2>2, <2>3, <2>4, <2>5 DEF CoreInv, PermitsOK
<1>10. CASE /\ lock' = NoSample /\ pc' = [pc EXCEPT ![s] = "done"]
            /\ result' = [result EXCEPT ![s] = "raised"]
            /\ permits' = permits + 1
  <2>1. /\ pc' \in [Samples -> Places]
        /\ Holding' = Holding \ {s} /\ Paced' = Paced \ {s}
        /\ \A t \in Samples : pc'[t] = IF t = s THEN "done" ELSE pc[t]
    BY <1>10, MoveOne DEF HoldsPermit, Places
  <2>2. /\ result' \in [Samples -> Outcomes]
        /\ \A t \in Samples : result'[t] = IF t = s THEN "raised" ELSE result[t]
    BY <1>10 DEF Outcomes
  <2>3. Cardinality(Holding') = Cardinality(Holding) - 1
    BY <1>2, <2>1, HoldingFinite, FS_RemoveElement
  <2>4. PermitsOK' /\ permits' \in Nat
    BY <1>10, <2>3, HoldingFinite DEF PermitsOK
  <2>5. LockOK'
    BY <1>7, <1>10, <2>1 DEF LockOK
  <2>6. /\ {s} \in SUBSET Samples
        /\ \A t \in {s} : Live(t) /\ pc'[t] = "done" /\ result'[t] # "none"
        /\ \A t \in Samples \ {s} : pc'[t] = pc[t] /\ result'[t] = result[t]
    BY <1>2, <2>1, <2>2
  <2>7. SamplesOK'
    BY <1>1, <2>6, End
  <2> QED
    BY <1>1, <1>5, <1>10, <2>1, <2>2, <2>4, <2>5, <2>7 DEF CoreInv
<1> QED
  BY <1>6, <1>8, <1>9, <1>10 DEF StartPost

(* An attempt that ends leads to the end of the sample or to a sleep, in   *)
(* or out of the semaphore, with an attempt left.                          *)
LEMMA AnswerCore ==
  ASSUME IInv, NEW s \in Samples,
         FinalAnswer(s) \/ RetryableAnswer(s) \/ ConnectionFails(s)
  PROVE  CoreInv'
<1> USE DEF IInv, ClientTypeOK
<1>1. pc[s] = "post" /\ UNCHANGED <<attempt, tokens, future, loop, expired>>
  BY DEF FinalAnswer, RetryableAnswer, ConnectionFails
<1>2. Live(s) /\ s \in Holding /\ s \notin Paced
  BY <1>1 DEF Live, Suspended, Holding, HoldsPermit, Paced
<1>3. ASSUME NEW outcome \in Outcomes \ {"none"}, Settle(s, outcome)
      PROVE  CoreInv'
  <2>1. /\ pc' \in [Samples -> Places] /\ result' \in [Samples -> Outcomes]
        /\ permits' \in Nat /\ lock' \in Samples \cup {NoSample}
        /\ PermitsOK' /\ LockOK'
        /\ \A t \in Samples : t # s => pc'[t] = pc[t] /\ result'[t] = result[t]
        /\ pc'[s] = "done" /\ result'[s] = outcome
    BY <1>2, <1>3, SettleOK
  <2>2. /\ {s} \in SUBSET Samples
        /\ \A t \in {s} : Live(t) /\ pc'[t] = "done" /\ result'[t] # "none"
        /\ \A t \in Samples \ {s} : pc'[t] = pc[t] /\ result'[t] = result[t]
    BY <1>2, <2>1
  <2>3. SamplesOK'
    BY <1>1, <2>2, End
  <2> QED
    BY <1>1, <2>1, <2>3 DEF CoreInv
<1>4. CASE /\ attempt[s] < MaxRetries /\ pc' = [pc EXCEPT ![s] = "retry"]
           /\ UNCHANGED <<result, permits, lock>>
  <2>1. "retry" \in HoldsPermit /\ "retry" \in Suspended /\ "retry" \in Places
    BY DEF HoldsPermit, Suspended, Places
  <2>2. /\ pc' \in [Samples -> Places]
        /\ Holding' = Holding \cup {s} /\ Paced' = Paced \ {s}
    BY <1>4, <2>1, MoveOne
  <2>3. Holding' = Holding /\ Paced' = Paced
    BY <1>2, <2>2
  <2>4. SamplesOK'
    BY <1>1, <1>2, <1>4, <2>1, GoesOn
  <2> QED
    BY <1>1, <1>4, <2>2, <2>3, <2>4 DEF CoreInv, PermitsOK, LockOK
<1>5. CASE /\ attempt[s] < MaxRetries /\ pc' = [pc EXCEPT ![s] = "backoff"]
           /\ Released({s}) /\ UNCHANGED result
  <2>1. "backoff" \notin HoldsPermit /\ "backoff" \in Suspended /\ "backoff" \in Places
    BY DEF HoldsPermit, Suspended, Places
  <2>2. /\ pc' \in [Samples -> Places]
        /\ Holding' = Holding \ {s} /\ Paced' = Paced \ {s}
    BY <1>5, <2>1, MoveOne
  <2>3. PermitsOK' /\ permits' \in Nat /\ LockOK' /\ lock' \in Samples \cup {NoSample}
    BY <1>5, <2>2, ReleasedPermits, ReleasedLock
  <2>4. SamplesOK'
    BY <1>1, <1>2, <1>5, <2>1, GoesOn
  <2> QED
    BY <1>1, <1>5, <2>2, <2>3, <2>4 DEF CoreInv
<1> QED
  BY <1>3, <1>4, <1>5
  DEF FinalAnswer, RetryableAnswer, ConnectionFails, Finals, Outcomes

(* The next attempt begins outside of the semaphore.                       *)
LEMMA AttemptCore == ASSUME IInv, NEW s \in Samples, NextAttempt(s) PROVE CoreInv'
<1> USE DEF IInv, ClientTypeOK
<1>1. /\ pc[s] \in {"retry", "backoff"}
      /\ attempt' = [attempt EXCEPT ![s] = attempt[s] + 1]
      /\ pc' = [pc EXCEPT ![s] = "slot"] /\ Released({s})
      /\ UNCHANGED <<result, tokens, future, loop, expired>>
  BY DEF NextAttempt
<1>2. Live(s) /\ attempt[s] < MaxRetries
  BY <1>1 DEF Live, Suspended, HoldsPermit, SamplesOK
<1>3. attempt[s] + 1 \in 0..MaxRetries
  BY <1>2, ClientAssumption
<1>4. attempt' \in [Samples -> 0..MaxRetries]
  BY <1>1, <1>3
<1>5. "slot" \notin HoldsPermit /\ "slot" \in Suspended /\ "slot" \in Places
  BY DEF HoldsPermit, Suspended, Places
<1>6. /\ pc' \in [Samples -> Places]
      /\ Holding' = Holding \ {s} /\ Paced' = Paced \ {s}
  BY <1>1, <1>5, MoveOne
<1>7. PermitsOK' /\ permits' \in Nat /\ LockOK' /\ lock' \in Samples \cup {NoSample}
  BY <1>1, <1>6, ReleasedPermits, ReleasedLock
<1>8. SamplesOK'
  BY <1>1, <1>2, <1>5, GoesOn
<1> QED
  BY <1>1, <1>4, <1>6, <1>7, <1>8 DEF CoreInv

(* A future tells of results that do not change any more.                  *)
LEMMA FutureNext == IInv /\ [Next]_vars => FutureTellsAll'
<1> SUFFICES ASSUME IInv, [Next]_vars, NEW r \in Requests
             PROVE  /\ future'[r] = "result" =>
                          \A s \in Of(r) : result'[s] \notin {"none", "raised", "cancelled"}
                    /\ future'[r] = "error" => \E s \in Of(r) : result'[s] = "raised"
  BY DEF FutureTellsAll
<1> USE DEF IInv, ClientTypeOK
<1>1. \A s \in Of(r) : result[s] # "none" => result'[s] = result[s]
  BY DoneStays, SampleFacts DEF SamplesOK
<1>2. CASE future'[r] = future[r]
  BY <1>1, <1>2 DEF FutureTellsAll
<1>3. CASE Gather(r)
  <2>1. \A s \in Of(r) : result[s] = "none" <=> pc[s] # "done"
    BY SampleFacts DEF SamplesOK
  <2> QED
    BY <1>3, <2>1 DEF Gather, AllReturned
<1>4. CASE Submit(r) \/ CancelFuture(r)
  BY <1>4 DEF Submit, CancelFuture
<1>5. ASSUME NEW q \in Requests, q # r, Gather(q) \/ Submit(q) \/ CancelFuture(q)
      PROVE  future'[r] = future[r]
  BY <1>5 DEF Gather, Submit, CancelFuture
<1>6. ASSUME NEW q \in Requests, DeliverCancel(q) PROVE future'[r] = future[r]
  BY <1>6 DEF DeliverCancel
<1>7. ASSUME NEW s \in Samples, SampleStep(s) PROVE future'[r] = future[r]
  BY <1>7 DEF SampleStep, AcquirePermit, EnterLimiter, WakePaced, FinalAnswer,
              RetryableAnswer, ConnectionFails, NextAttempt, Expire
<1>8. CASE CloseSession \/ StopLoop \/ UNCHANGED vars
  BY <1>2, <1>8 DEF CloseSession, StopLoop, vars
<1> QED
  BY <1>2, <1>3, <1>4, <1>5, <1>6, <1>7, <1>8 DEF Next, Done

----------------------------------------------------------------------------
(* No sample is submitted, no permit given out.                            *)
LEMMA InitIInv == Init => IInv
<1> SUFFICES ASSUME Init PROVE IInv
  OBVIOUS
<1>1. pc = [s \in Samples |-> "new"] /\ Holding = {} /\ Paced = {}
  BY DEF Init, Holding, Paced, HoldsPermit
<1>2. /\ attempt \in [Samples -> 0..MaxRetries]
      /\ permits \in Nat /\ permits = MaxConcurrency /\ tokens \in 0..Rate
  BY ClientAssumption DEF Init
<1>3. /\ pc \in [Samples -> Places] /\ result \in [Samples -> Outcomes]
      /\ lock \in Samples \cup {NoSample}
      /\ future \in [Requests -> {"none", "pending", "result", "error", "cancelled"}]
      /\ loop \in {"open", "closing", "stopped"} /\ expired \subseteq Samples
  BY DEF Init, Places, Outcomes
<1>4. SamplesOK
  BY SampleFacts DEF Init, SamplesOK
<1>5. PermitsOK
  BY <1>1, <1>2, FS_EmptySet DEF PermitsOK
<1>6. LockOK
  BY <1>1 DEF Init, LockOK
<1>7. FutureTellsAll
  BY DEF Init, FutureTellsAll
<1> QED
  BY <1>2, <1>3, <1>4, <1>5, <1>6, <1>7 DEF IInv, ClientTypeOK

(* The parts of the invariant support one another over every step.        *)
LEMMA NextIInv == IInv /\ [Next]_vars => IInv'
<1> SUFFICES ASSUME IInv, [Next]_vars PROVE CoreInv'
  BY FutureNext DEF IInv, CoreInv
<1>1. ASSUME NEW r \in Requests,
             Submit(r) \/ Gather(r) \/ CancelFuture(r) \/ DeliverCancel(r)
      PROVE  CoreInv'
  BY <1>1, SubmitCore, FutureCore, CancelCore
<1>2. ASSUME NEW s \in Samples, SampleStep(s) PROVE CoreInv'
  BY <1>2, AcquireCore, LimiterCore, AnswerCore, AttemptCore, CancelCore DEF SampleStep
<1>3. CASE CloseSession \/ StopLoop
  BY <1>3 DEF CloseSession, StopLoop, CoreInv, IInv, ClientTypeOK, SamplesOK,
              PermitsOK, LockOK, Holding, Paced
<1>4. CASE UNCHANGED vars
  BY <1>4 DEF vars, CoreInv, IInv, ClientTypeOK, SamplesOK, PermitsOK, LockOK,
              Holding, Paced
<1> QED
  BY <1>1, <1>2, <1>3, <1>4 DEF Next, Done

(* Hence it holds of every state the client reaches.                       *)
LEMMA Invariance == Spec => []IInv
BY InitIInv, NextIInv, PTL DEF Spec

(* Every variable keeps its type: a sample makes at most max_retries + 1   *)
(* attempts, and the token bucket stays between nothing and its size.      *)
THEOREM ClientTypeCorrect == Spec => []ClientTypeOK
<1>1. IInv => ClientTypeOK
  BY DEF IInv
<1> QED
  BY <1>1, Invariance, PTL

(* No permit of the semaphore and no lock of the limiter leaks, whatever   *)
(* await a sample is cancelled in.                                         *)
THEOREM NothingLeakedAlways == Spec => []NothingLeaked
<1>1. IInv => NothingLeaked
  BY DEF IInv, PermitsOK, LockOK, NothingLeaked, Holding, Paced
<1> QED
  BY <1>1, Invariance, PTL

(* What a handler reads from its future is true of all its samples.        *)
THEOREM FutureTellsAllAlways == Spec => []FutureTellsAll
<1>1. IInv => FutureTellsAll
  BY DEF IInv
<1> QED
  BY <1>1, Invariance, PTL

(* Once the budget of a sample has ended, or its phase has cancelled it,   *)
(* it starts no exchange and its result stays as it is.                    *)
THEOREM BudgetIsFinalAlways == Spec => BudgetIsFinal
<1>1. IInv /\ [Next]_vars
        => [\A s \in expired : result'[s] = result[s]
                              /\ (pc'[s] = "post" => pc[s] = "post")]_vars
  BY DoneStays DEF IInv, ClientTypeOK, SamplesOK
<1> QED
  BY <1>1, Invariance, PTL DEF Spec, BudgetIsFinal
============================================================================
