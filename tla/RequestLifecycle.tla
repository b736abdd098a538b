-------------------------- MODULE RequestLifecycle --------------------------
(***************************************************************************)
(* What the search thread may rely on when it hands requests to the        *)
(* bridge: the life of each request, seen from submit(), poll_completed()  *)
(* and stop(), with no queue, thread or socket.                            *)
(***************************************************************************)
CONSTANT Requests

VARIABLES
    life,   \* where each request is in its life
    open    \* stop() has not been called

vars == <<life, open>>

Stages == {"new", "refused", "queued", "sent", "answered",
           "delivered", "dropped", "discarded"}

Move(from, to) ==
    life' = [r \in Requests |-> IF life[r] = from THEN to ELSE life[r]]

Step(r, from, to) ==
    /\ life[r] = from
    /\ life' = [life EXCEPT ![r] = to]
    /\ UNCHANGED open

Init == life = [r \in Requests |-> "new"] /\ open = TRUE

Accept(r)  == open /\ Step(r, "new", "queued")
Refuse(r)  == Step(r, "new", "refused")
Dispatch(r) == open /\ Step(r, "queued", "sent")
Answer(r)  == Step(r, "sent", "answered")

(* A poll hands over every answer there is.                                *)
Deliver == open /\ Move("answered", "delivered") /\ UNCHANGED open

(* A stop drops what was never sent.                                       *)
Close == open /\ Move("queued", "dropped") /\ open' = FALSE

(* After the stop, and once nothing is in flight, the answers that nobody  *)
(* read are discarded.                                                     *)
Discard ==
    /\ ~open
    /\ \A r \in Requests : life[r] # "sent"
    /\ Move("answered", "discarded")
    /\ UNCHANGED open

Next ==
    \/ \E r \in Requests : Accept(r) \/ Refuse(r) \/ Dispatch(r) \/ Answer(r)
    \/ Deliver \/ Close \/ Discard

Spec == Init /\ [][Next]_vars
============================================================================
