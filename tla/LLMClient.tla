----------------------------- MODULE LLMClient -----------------------------
(***************************************************************************)
(* The model client of hybrid_planner/llm/client.py: one asyncio thread    *)
(* runs the samples of all states over one semaphore, one rate limiter and *)
(* one HTTP session.  Handler threads hold a future per state.             *)
(*                                                                         *)
(* The loop switches tasks only at an await, so an action is a sample's    *)
(* run from one await to the next.  A cancellation reaches a sample at the *)
(* await it is suspended in.  Time is abstracted: the budget of wait_for   *)
(* may end at any await; the limiter's clock adds any amount of tokens,    *)
(* after a sleep at least what was slept for.                              *)
(***************************************************************************)
EXTENDS Integers, FiniteSets

CONSTANTS
    Requests,         \* the states asked about, one future each
    Count,            \* generate_many's count for each: its samples
    MaxConcurrency,   \* permits of the semaphore
    MaxRetries,
    Token,            \* a token, in the parts the limiter counts here
    Rate              \* max_qps in the same parts, also the bucket's size;
                      \* 0: unlimited

ASSUME ClientAssumption ==
    /\ IsFiniteSet(Requests)
    /\ Count \in [Requests -> Nat \ {0}]
    /\ {MaxConcurrency, Token} \subseteq Nat \ {0}
    /\ {MaxRetries, Rate} \subseteq Nat

Samples == UNION {{r} \X (1..Count[r]) : r \in Requests}
NoSample == <<>>

VARIABLES
    pc,        \* the await each sample's task is suspended in
    attempt,   \* of range(max_retries + 1)
    result,    \* of the sample: "none" until it is known
    permits,   \* Semaphore._value
    lock,      \* the sample that holds AsyncRateLimiter._lock, or NoSample
    tokens,
    future,    \* of each state, as its handler sees it
    loop,      \* the client: "open", "closing" (session closed), "stopped"
    expired    \* history: the samples whose budget or request has ended

vars == <<pc, attempt, result, permits, lock, tokens, future, loop, expired>>

(* "slot" and "limiter" wait for a permit and for the limiter's lock,      *)
(* "paced" sleeps inside the limiter, "retry" sleeps after a status that   *)
(* may be retried, still inside the semaphore, "backoff" outside of it.    *)
HoldsPermit == {"limiter", "paced", "post", "retry"}
Suspended   == HoldsPermit \cup {"slot", "backoff"}
Live(s) == pc[s] \in Suspended

Of(r) == {s \in Samples : s[1] = r}
Smaller(a, b) == IF a <= b THEN a ELSE b

----------------------------------------------------------------------------
Init ==
    /\ pc = [s \in Samples |-> "new"]
    /\ attempt = [s \in Samples |-> 0]
    /\ result = [s \in Samples |-> "none"]
    /\ permits = MaxConcurrency
    /\ lock = NoSample
    /\ tokens = Rate
    /\ future = [r \in Requests |-> "none"]
    /\ loop = "open"
    /\ expired = {}

(* submit_many, and generate up to the semaphore, for each sample.         *)
Submit(r) ==
    /\ loop = "open" /\ future[r] = "none"
    /\ future' = [future EXCEPT ![r] = "pending"]
    /\ pc' = [s \in Samples |-> IF s \in Of(r) THEN "slot" ELSE pc[s]]
    /\ UNCHANGED <<attempt, result, permits, lock, tokens, loop, expired>>

----------------------------------------------------------------------------
(* Variant: a sample that is cancelled keeps the limiter's lock.           *)
ReleasedButLock(ended) ==
    /\ permits' = permits + Cardinality({s \in ended : pc[s] \in HoldsPermit})
    /\ lock' = lock

(* Leaving the semaphore and the limiter, in whatever way: the async with  *)
(* blocks give back what the sample holds.                                 *)
Released(ended) ==
    /\ permits' = permits + Cardinality({s \in ended : pc[s] \in HoldsPermit})
    /\ lock' = IF lock \in ended THEN NoSample ELSE lock

(* _generate_with_retries returns or raises.                               *)
Settle(s, outcome) ==
    /\ pc' = [pc EXCEPT ![s] = "done"]
    /\ result' = [result EXCEPT ![s] = outcome]
    /\ Released({s})

(* Variant: a cancellation during the exchange surfaces as the session's   *)
(* own TimeoutError, which an attempt does catch.                          *)
CancelledUnlessCaught(ended, outcome) ==
    LET caught == {s \in ended : pc[s] = "post" /\ attempt[s] < MaxRetries}
    IN  /\ pc' = [s \in Samples |-> IF s \in caught THEN "backoff"
                                    ELSE IF s \in ended THEN "done" ELSE pc[s]]
        /\ result' = [s \in Samples |->
                        IF s \in ended \ caught THEN outcome ELSE result[s]]
        /\ Released(ended)
        /\ expired' = expired \cup ended
        /\ UNCHANGED attempt

(* The tasks of a set of samples are cancelled at the await they are in:   *)
(* CancelledError is none of the exceptions an attempt catches.            *)
Cancelled(ended, outcome) ==
    /\ pc' = [s \in Samples |-> IF s \in ended THEN "done" ELSE pc[s]]
    /\ result' = [s \in Samples |-> IF s \in ended THEN outcome ELSE result[s]]
    /\ Released(ended)
    /\ expired' = expired \cup ended
    /\ UNCHANGED attempt

----------------------------------------------------------------------------
(* One attempt.                                                            *)

(* session.post: a closed session raises RuntimeError, which no attempt    *)
(* catches.                                                                *)
StartPost(s) ==
    IF loop = "open"
    THEN pc' = [pc EXCEPT ![s] = "post"] /\ UNCHANGED <<result, permits>>
    ELSE /\ pc' = [pc EXCEPT ![s] = "done"]
         /\ result' = [result EXCEPT ![s] = "raised"]
         /\ permits' = permits + 1

(* async with self._semaphore; without a rate the limiter is no await.     *)
AcquirePermit(s) ==
    /\ loop # "stopped" /\ pc[s] = "slot" /\ permits > 0
    /\ IF Rate > 0
       THEN /\ pc' = [pc EXCEPT ![s] = "limiter"]
            /\ permits' = permits - 1 /\ UNCHANGED result
       ELSE IF loop = "open"
       THEN /\ pc' = [pc EXCEPT ![s] = "post"]
            /\ permits' = permits - 1 /\ UNCHANGED result
       ELSE /\ pc' = [pc EXCEPT ![s] = "done"]
            /\ result' = [result EXCEPT ![s] = "raised"]
            /\ UNCHANGED permits
    /\ UNCHANGED <<attempt, lock, tokens, future, loop, expired>>

(* The time a caller sleeps for, in the tokens it brings.                  *)
WaitFor(have) == Token - have

(* One turn of the limiter's loop, which may credit this much.             *)
Refilled(elapsed) == Smaller(Rate, tokens + elapsed)

LimiterTurn(s, elapsed) ==
    LET have == Refilled(elapsed)
    IN  IF have >= Token
        THEN /\ tokens' = have - Token
             /\ lock' = NoSample
             /\ StartPost(s)
        ELSE /\ tokens' = have
             /\ lock' = s
             /\ pc' = [pc EXCEPT ![s] = "paced"]
             /\ UNCHANGED <<result, permits>>

EnterLimiter(s) ==
    /\ loop # "stopped" /\ pc[s] = "limiter" /\ lock = NoSample
    /\ \E elapsed \in 0..Rate : LimiterTurn(s, elapsed)
    /\ UNCHANGED <<attempt, future, loop, expired>>

WakePaced(s) ==
    /\ loop # "stopped" /\ pc[s] = "paced"
    /\ \E elapsed \in WaitFor(tokens)..(Token + Rate) : LimiterTurn(s, elapsed)
    /\ UNCHANGED <<attempt, future, loop, expired>>

(* The answer to a post.  The server may never answer.                     *)
Finals == {"ok", "malformed", "http", "raised"}

(* A 200, with or without content; a status that is final; a body that is  *)
(* not JSON raises ValueError.                                             *)
FinalAnswer(s) ==
    /\ loop = "open" /\ pc[s] = "post"
    /\ \E outcome \in Finals : Settle(s, outcome)
    /\ UNCHANGED <<attempt, tokens, future, loop, expired>>

(* 429 and the 5xx of RETRYABLE_STATUS.                                    *)
RetryableAnswer(s) ==
    /\ loop = "open" /\ pc[s] = "post"
    /\ \/ /\ attempt[s] < MaxRetries
          /\ pc' = [pc EXCEPT ![s] = "retry"]
          /\ UNCHANGED <<result, permits, lock>>
       \/ attempt[s] = MaxRetries /\ Settle(s, "http")
    /\ UNCHANGED <<attempt, tokens, future, loop, expired>>

(* aiohttp.ClientError, also what closing the session does to an exchange. *)
ConnectionFails(s) ==
    /\ loop # "stopped" /\ pc[s] = "post"
    /\ \/ /\ attempt[s] < MaxRetries
          /\ pc' = [pc EXCEPT ![s] = "backoff"]
          /\ Released({s})
          /\ UNCHANGED result
       \/ attempt[s] = MaxRetries /\ Settle(s, "client")
    /\ UNCHANGED <<attempt, tokens, future, loop, expired>>

(* The sleep is over: the next attempt, from the semaphore on.             *)
NextAttempt(s) ==
    /\ loop # "stopped" /\ pc[s] \in {"retry", "backoff"}
    /\ attempt' = [attempt EXCEPT ![s] = @ + 1]
    /\ pc' = [pc EXCEPT ![s] = "slot"]
    /\ Released({s})
    /\ UNCHANGED <<result, tokens, future, loop, expired>>

----------------------------------------------------------------------------
(* Ends.                                                                   *)

(* wait_for: the budget of the sample, retries and queueing included.      *)
Expire(s) ==
    /\ loop # "stopped" /\ Live(s) /\ s \notin expired
    /\ Cancelled({s}, "timeout")
    /\ UNCHANGED <<tokens, future, loop>>

(* Variant: the future is resolved by the first sample (FIRST_COMPLETED).  *)
FirstReturned(r) ==
    \E s \in Of(r) : pc[s] = "done" /\ result[s] \notin {"raised", "cancelled"}

(* gather: all results, or the first exception; the samples that are still *)
(* running are then on their own.                                          *)
AllReturned(r) ==
    \A s \in Of(r) : pc[s] = "done" /\ result[s] \notin {"raised", "cancelled"}

Gather(r) ==
    /\ loop # "stopped" /\ future[r] = "pending"
    /\ \/ /\ AllReturned(r)
          /\ future' = [future EXCEPT ![r] = "result"]
       \/ /\ \E s \in Of(r) : result[s] = "raised"
          /\ future' = [future EXCEPT ![r] = "error"]
    /\ UNCHANGED <<pc, attempt, result, permits, lock, tokens, loop, expired>>

(* The registry cancels the future of a phase that ended: its handler goes *)
(* on at once, the samples are cancelled when the loop comes to it.        *)
CancelFuture(r) ==
    /\ future[r] = "pending"
    /\ future' = [future EXCEPT ![r] = "cancelled"]
    /\ UNCHANGED <<pc, attempt, result, permits, lock, tokens, loop, expired>>

DeliverCancel(r) ==
    LET live == {s \in Of(r) \ expired : Live(s)}
    IN  /\ loop # "stopped" /\ future[r] = "cancelled" /\ live # {}
        /\ Cancelled(live, "cancelled")
        /\ UNCHANGED <<tokens, future, loop>>

(* close(): the controller has joined its handlers before.                 *)
CloseSession ==
    /\ loop = "open" /\ \A r \in Requests : future[r] # "pending"
    /\ loop' = "closing"
    /\ UNCHANGED <<pc, attempt, result, permits, lock, tokens, future, expired>>

StopLoop ==
    /\ loop = "closing"
    /\ loop' = "stopped"
    /\ UNCHANGED <<pc, attempt, result, permits, lock, tokens, future, expired>>

Done == loop = "stopped" /\ UNCHANGED vars

SampleStep(s) ==
    \/ AcquirePermit(s) \/ EnterLimiter(s) \/ WakePaced(s)
    \/ FinalAnswer(s) \/ RetryableAnswer(s) \/ ConnectionFails(s)
    \/ NextAttempt(s) \/ Expire(s)

Next ==
    \/ \E r \in Requests : \/ Submit(r) \/ Gather(r)
                           \/ CancelFuture(r) \/ DeliverCancel(r)
    \/ \E s \in Samples : SampleStep(s)
    \/ CloseSession \/ StopLoop
    \/ Done

Spec == Init /\ [][Next]_vars

(* What the loop owes: sleeps end, budgets end, and results are handed on. *)
(* The server owes nothing, and no property needs the semaphore's order.   *)
LoopFairness ==
    /\ \A s \in Samples : WF_vars(WakePaced(s)) /\ WF_vars(NextAttempt(s))
    /\ \A r \in Requests : WF_vars(Gather(r)) /\ WF_vars(DeliverCancel(r))

FairSpec == Spec /\ LoopFairness /\ \A s \in Samples : WF_vars(Expire(s))

(* The same without an end of the budget: what happens however long it is. *)
PatientSpec == Spec /\ LoopFairness

----------------------------------------------------------------------------
(* Nothing leaks at any await a sample is cancelled in: each permit is     *)
(* free or held by a sample inside the semaphore, and the limiter's lock   *)
(* is held only by a sample that sleeps in it.                             *)
NothingLeaked ==
    /\ permits + Cardinality({s \in Samples : pc[s] \in HoldsPermit})
         = MaxConcurrency
    /\ {s \in Samples : pc[s] = "paced"} = {lock} \ {NoSample}

(* One budget covers queueing, attempts and back-off: once it has ended,   *)
(* or the phase has cancelled the sample, no exchange is started for it    *)
(* and its result stays as it is (the comment in AsyncLLMClient.start).    *)
BudgetIsFinal ==
    [][\A s \in expired : result'[s] = result[s]
                         /\ (pc'[s] = "post" => pc[s] = "post")]_vars

(* What a handler reads from its future: a result means that every sample  *)
(* returned one, an error that one sample raised.                          *)
FutureTellsAll ==
    \A r \in Requests :
        /\ future[r] = "result" =>
             \A s \in Of(r) : result[s] \notin {"none", "raised", "cancelled"}
        /\ future[r] = "error" => \E s \in Of(r) : result[s] = "raised"

(* A handler does not wait for ever, although the server may never answer  *)
(* and samples that survive a failed state hold permits.                   *)
FuturesResolve ==
    \A r \in Requests : future[r] = "pending" ~> future[r] # "pending"

(* A positive rate paces the requests: a sample that sleeps in the limiter *)
(* gets its token, unless it is cancelled or the client is closed.          *)
LimiterServes ==
    \A s \in Samples :
        pc[s] = "paced" ~> (pc[s] # "paced" \/ loop = "stopped")
============================================================================
