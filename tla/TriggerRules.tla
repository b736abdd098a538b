---------------------------- MODULE TriggerRules ----------------------------
(***************************************************************************)
(* When the search asks the model: class LLMTriggerMonitor of              *)
(* search_engines/eager_search.cc.  Three rules compete for one stream of  *)
(* requests: the growth of an h layer, the stall of the best h, and the    *)
(* stagnation of a node's ancestors.                                       *)
(*                                                                         *)
(* One expansion of the search is Expand, then one step per request_state  *)
(* call (ConsiderLayer, EndSlot, CheckAncestor), as each ends in a submit  *)
(* to the bridge that may refuse.  A layer's table of 16 hashed buckets is *)
(* a function from the h values tracked: a slot once taken is never freed, *)
(* so probing finds a key exactly when it is tracked, and hashing decides  *)
(* only between victims seen equally long ago.  The ring of windows under  *)
(* a shared cursor is the sequence of a layer's last windows.  A state is  *)
(* its h value and whether it has been asked about.                        *)
(***************************************************************************)
EXTENDS Integers, Sequences, FiniteSets

CONSTANTS
    Hs,              \* the h values, one per bucket
    InitialH,
    Capacity,        \* LAYER_TABLE_CAPACITY
    Rules,           \* enabled of "plateau", "stall", "ancestor"
    RequestInitial,  \* NLM_LLM_REQUEST_INITIAL
    AnalysisInterval, ActivityWindows, GrowthConfirmWindows,
    LayerResetWindows, MinRecentExpanded, MinRecentNetGrowth,
    MinSinceExpanded, MinSinceNetGrowth, StallExpansions,
    AncestorCheckInterval, MinGap, PerLayerGap, CandidateLayers,
    RequestsPerSlot, MaxPending, MaxRequests,
    Ratio,           \* plateau_growth_ratio, in percent
    HEpsilon,        \* h_abs_epsilon
    HRelative,       \* h_relative_epsilon, in percent
    MaxExpansions, MaxOpened   \* bounds: expansions and insertions

ASSUME TriggerAssumption ==
    /\ Hs \subseteq Nat /\ InitialH \in Hs
    /\ Rules \subseteq {"plateau", "stall", "ancestor"}
    /\ RequestInitial \in BOOLEAN
    /\ {Capacity, AnalysisInterval, ActivityWindows, GrowthConfirmWindows,
        LayerResetWindows, MinRecentExpanded, MinRecentNetGrowth,
        MinSinceExpanded, MinSinceNetGrowth, AncestorCheckInterval,
        CandidateLayers, RequestsPerSlot} \subseteq Nat \ {0}
    /\ {StallExpansions, MinGap, PerLayerGap, MaxPending, MaxRequests, Ratio,
        HEpsilon, HRelative, MaxExpansions, MaxOpened} \subseteq Nat
    /\ PerLayerGap >= MinGap
    /\ RequestsPerSlot <= CandidateLayers

VARIABLES
    layers,                  \* [tracked h values -> LayerStats]
    expansions, expansions_since_best_h,
    last_analysis_expansion, last_ancestor_check_expansion,
    last_request_expansion,  \* -1: no request yet
    best_h,
    global_stall_requested,
    requests_submitted, pending,
    \* one call of record_expanded and what follows it
    pc, cur, waiting, considered, submitted, stall,
    opened_states,
    open,                    \* the search's open list: entries per h
    \* history: the requests made, and what happened to a layer since its last
    log, since

monitorVars == <<layers, expansions, expansions_since_best_h,
                 last_analysis_expansion, last_ancestor_check_expansion,
                 last_request_expansion, best_h, global_stall_requested,
                 requests_submitted, pending>>
slotVars == <<pc, cur, waiting, considered, submitted, stall>>
envVars  == <<opened_states, open>>
vars == <<monitorVars, slotVars, envVars, log, since>>

----------------------------------------------------------------------------
(* LayerStats.  A window is [opened, expanded].                            *)

NoWindow == [opened |-> 0, expanded |-> 0]

NewLayer == [
    current |-> NoWindow, history |-> [i \in 1..ActivityWindows |-> NoWindow],
    since_request |-> NoWindow, last_seen |-> expansions, last_request |-> -1,
    growth_streak |-> 0, calm_streak |-> 0, inactive_streak |-> 0,
    requested_in_episode |-> FALSE, growing |-> FALSE, ready |-> FALSE,
    rep |-> "none", rep_at |-> -1]

Tracked == DOMAIN layers

Stalest == {h \in Tracked : \A k \in Tracked :
                layers[h].last_seen <= layers[k].last_seen}

(* layer_for_h: what the table may be once h has a layer in it.            *)
TablesWith(h) ==
    CASE h \in Tracked -> {layers}
      [] h \notin Tracked /\ Cardinality(Tracked) < Capacity ->
            {[k \in Tracked \cup {h} |->
                IF k = h THEN NewLayer ELSE layers[k]]}
      [] OTHER ->
            {[k \in (Tracked \ {victim}) \cup {h} |->
                IF k = h THEN NewLayer ELSE layers[k]] : victim \in Stalest}

(* Only from the second alternative of the table on may a layer be lost.   *)
Evicted(table) == Tracked \ DOMAIN table

Recent(layer, kind) ==
    LET sum[i \in 0..ActivityWindows] ==
            IF i = 0 THEN 0 ELSE sum[i - 1] + layer.history[i][kind]
    IN  sum[ActivityWindows]

NetGrowth(opened, expanded) == IF opened > expanded THEN opened - expanded ELSE 0

RecentNetGrowth(layer) ==
    NetGrowth(Recent(layer, "opened"), Recent(layer, "expanded"))

(* layer_growth_ratio is 0.0 for a layer without an expansion.             *)
GrowsFastEnough(layer) ==
    IF Recent(layer, "expanded") = 0 THEN Ratio = 0
    ELSE 100 * Recent(layer, "opened") >= Ratio * Recent(layer, "expanded")

(* reset_layer_episode; the window being filled is not touched.            *)
ResetEpisode(layer, reset_cooldown) ==
    [NewLayer EXCEPT
        !.current = layer.current, !.last_seen = layer.last_seen,
        !.last_request = IF reset_cooldown THEN -1 ELSE layer.last_request]

(* update_layer_window up to the classification.                           *)
CloseWindow(layer) ==
    [layer EXCEPT
        !.history = Append(Tail(@), layer.current),
        !.current = NoWindow,
        !.inactive_streak = IF layer.current.opened = 0 THEN @ + 1 ELSE 0]

IsGrowing(layer) ==
    /\ "plateau" \in Rules
    /\ Recent(layer, "expanded") >= MinRecentExpanded
    /\ RecentNetGrowth(layer) >= MinRecentNetGrowth
    /\ GrowsFastEnough(layer)

Grown(layer) ==
    [layer EXCEPT !.growing = TRUE, !.growth_streak = @ + 1, !.calm_streak = 0,
        !.ready = @ \/ layer.growth_streak + 1 >= GrowthConfirmWindows]

HasEpisodeState(layer) ==
    layer.ready \/ layer.requested_in_episode \/ layer.since_request # NoWindow

Calmed(layer) ==
    LET calm == [layer EXCEPT !.growing = FALSE, !.growth_streak = 0,
                              !.calm_streak = @ + 1]
    IN  IF /\ calm.inactive_streak >= LayerResetWindows
           /\ HasEpisodeState(calm) \/ calm.last_request >= 0
        THEN ResetEpisode(calm, TRUE)
        ELSE IF HasEpisodeState(calm) /\ calm.calm_streak >= LayerResetWindows
        THEN ResetEpisode(calm, FALSE)
        ELSE calm

UpdateWindow(layer) ==
    LET closed == CloseWindow(layer)
    IN  IF IsGrowing(closed) THEN Grown(closed) ELSE Calmed(closed)

----------------------------------------------------------------------------
(* Limits and eligibility.                                                 *)

ReachedPendingLimit == MaxPending > 0 /\ pending >= MaxPending
ReachedRequestLimit == MaxRequests > 0 /\ requests_submitted >= MaxRequests

(* Variant: the expansion that asks counts as part of the gap.             *)
SpacingOffByOne(now) ==
    last_request_expansion >= 0 /\ now - last_request_expansion + 1 < MinGap

SpacingActiveAt(now) ==
    last_request_expansion >= 0 /\ now - last_request_expansion < MinGap
SpacingActive == SpacingActiveAt(expansions)

(* Variant: recent growth is evidence enough.                              *)
GrowthIsEvidence(layer) ==
    NetGrowth(Recent(layer, "opened"), Recent(layer, "expanded"))
        >= MinSinceNetGrowth

HasNewEvidence(layer) ==
    /\ layer.since_request.expanded >= MinSinceExpanded
    /\ NetGrowth(layer.since_request.opened, layer.since_request.expanded)
           >= MinSinceNetGrowth

(* layer_request_eligible.                                                 *)
Eligible(layer, now) ==
    /\ "plateau" \in Rules /\ layer.ready /\ layer.growing
    /\ layer.rep = "new"
    /\ HasNewEvidence(layer)
    /\ layer.last_request < 0 \/ now - layer.last_request >= PerLayerGap
    /\ layer.rep_at > layer.last_request

EligibleLayers(table, now) == {h \in DOMAIN table : Eligible(table[h], now)}

Activity(layer) == Recent(layer, "opened") + Recent(layer, "expanded")

(* layer_priority_better, between the layers of two h values.              *)
PriorityBetter(h, k) ==
    LET a == layers[h]
        b == layers[k]
    IN  \/ RecentNetGrowth(a) > RecentNetGrowth(b)
        \/ /\ RecentNetGrowth(a) = RecentNetGrowth(b)
           /\ \/ Activity(a) > Activity(b)
              \/ /\ Activity(a) = Activity(b)
                 /\ \/ a.last_request < b.last_request
                    \/ a.last_request = b.last_request /\ h < k

GlobalStallEligible(age) ==
    /\ "stall" \in Rules /\ StallExpansions > 0
    /\ age >= StallExpansions
    /\ ~global_stall_requested

(* meaningfully_improves_h: by more than the absolute and relative margin. *)
Improves(h) ==
    /\ best_h - h > HEpsilon
    /\ 100 * (best_h - h) > HRelative * best_h

----------------------------------------------------------------------------
(* request_state.  The limits, the duplicate test and the bridge can each  *)
(* refuse; the bridge does so when its queue is full.                      *)
MaySubmit(asked, bypass_spacing) ==
    /\ ~ReachedRequestLimit
    /\ bypass_spacing \/ ~SpacingActive
    /\ ~asked
    /\ ~ReachedPendingLimit

Submitted(h, reason) ==
    /\ requests_submitted' = requests_submitted + 1
    /\ last_request_expansion' = expansions
    /\ pending' = pending + 1
    /\ log' = Append(log, [h |-> h, reason |-> reason, at |-> expansions,
                           best |-> best_h])

Refused ==
    UNCHANGED <<requests_submitted, last_request_expansion, pending, log>>

(* The state just expanded represents its layer when layers are tracked.   *)
MarkAsked(h) ==
    IF h \in Tracked THEN [layers EXCEPT ![h].rep = "asked"] ELSE layers

----------------------------------------------------------------------------
NothingSince == [opened |-> 0, expanded |-> 0, forgotten |-> FALSE, quiet |-> 0]

(* EagerSearch::initialize: the initial state is opened, then perhaps      *)
(* requested, past the spacing; the bridge's queue is empty.               *)
Init ==
    /\ expansions = 0 /\ expansions_since_best_h = 0
    /\ last_analysis_expansion = 0 /\ last_ancestor_check_expansion = 0
    /\ layers = [h \in IF "plateau" \in Rules THEN {InitialH} ELSE {} |->
                    [NewLayer EXCEPT !.current.opened = 1,
                                     !.since_request.opened = 1]]
    /\ best_h = InitialH
    /\ global_stall_requested = FALSE
    /\ since = [h \in Hs |-> [NothingSince EXCEPT
                    !.opened = IF h = InitialH THEN 1 ELSE 0]]
    /\ cur = [h |-> InitialH, asked |-> RequestInitial]
    /\ log = IF RequestInitial
             THEN <<[h |-> InitialH, reason |-> "initial", at |-> 0,
                     best |-> InitialH]>>
             ELSE <<>>
    /\ last_request_expansion = IF RequestInitial THEN 0 ELSE -1
    /\ requests_submitted = Len(log) /\ pending = Len(log)
    /\ pc = "search"
    /\ waiting = {} /\ considered = 0 /\ submitted = 0 /\ stall = FALSE
    /\ open = [h \in Hs |-> IF h = InitialH THEN 1 ELSE 0]
    /\ opened_states = 1

Remembered(table) ==
    [h \in Hs |-> IF h \in Evicted(table)
                  THEN [since[h] EXCEPT !.forgotten = TRUE] ELSE since[h]]

(* record_open_state and record_frontier_reinsert: an entry with this h is *)
(* put on the open list.                                                   *)
RecordOpen(h) ==
    /\ pc = "search" /\ expansions \in 1..(MaxExpansions - 1)
    /\ opened_states < MaxOpened
    /\ opened_states' = opened_states + 1
    /\ open' = [open EXCEPT ![h] = @ + 1]
    /\ IF "plateau" \in Rules
       THEN \E table \in TablesWith(h) :
              /\ layers' = [table EXCEPT
                    ![h].current.opened = @ + 1,
                    ![h].since_request.opened = @ + 1,
                    ![h].last_seen = expansions]
              /\ since' = [Remembered(table) EXCEPT ![h].opened = @ + 1]
       ELSE UNCHANGED <<layers, since>>
    /\ IF Improves(h)
       THEN /\ best_h' = h
            /\ expansions_since_best_h' = 0
            /\ global_stall_requested' = FALSE
       ELSE UNCHANGED <<best_h, expansions_since_best_h, global_stall_requested>>
    /\ UNCHANGED <<expansions, last_analysis_expansion,
                   last_ancestor_check_expansion, last_request_expansion,
                   requests_submitted, pending, slotVars, log>>

----------------------------------------------------------------------------
(* The states asked about so far have these h values; again says that the  *)
(* state expanded is one of them, back on the open list.  The first state  *)
(* expanded is the initial one.                                            *)
MayBeAsked(h, again) ==
    IF expansions = 0 THEN again = RequestInitial
    ELSE again => \E i \in DOMAIN log : log[i].h = h

(* History: a layer is forgotten when it is evicted, or when it has been   *)
(* without an insertion for LayerResetWindows analyses.                    *)
AfterAnalysis(h, table, record) ==
    LET active == h \in DOMAIN table /\ table[h].current.opened > 0
        quiet  == IF active THEN 0 ELSE record.quiet + 1
    IN  [record EXCEPT !.quiet = quiet,
                       !.forgotten = @ \/ quiet >= LayerResetWindows]

(* record_expanded, up to the requests.                                    *)
Expand(h, again) ==
    LET now == expansions + 1
        age == expansions_since_best_h + 1
        due == now - last_analysis_expansion >= AnalysisInterval
        counted(table) ==
            [table EXCEPT ![h].current.expanded = @ + 1,
                          ![h].since_request.expanded = @ + 1,
                          ![h].last_seen = now,
                          ![h].rep = IF again THEN "asked" ELSE "new",
                          ![h].rep_at = now]
        seen(table) == [Remembered(table) EXCEPT ![h].expanded = @ + 1]
        skipped == ReachedRequestLimit \/ SpacingActiveAt(now)
    IN
    /\ pc = "search" /\ open[h] > 0 /\ expansions < MaxExpansions
    /\ MayBeAsked(h, again)
    /\ open' = [open EXCEPT ![h] = @ - 1]
    /\ expansions' = now /\ expansions_since_best_h' = age
    /\ cur' = [h |-> h, asked |-> again]
    /\ \E table \in IF "plateau" \in Rules
                    THEN {counted(t) : t \in TablesWith(h)} ELSE {layers} :
         IF due
         THEN /\ layers' = [k \in DOMAIN table |-> UpdateWindow(table[k])]
              /\ since' = [k \in Hs |-> AfterAnalysis(k, table, seen(table)[k])]
         ELSE layers' = table /\ since' = seen(table)
    /\ last_analysis_expansion' = IF due THEN now ELSE last_analysis_expansion
    /\ waiting' = IF due /\ ~skipped THEN EligibleLayers(layers', now) ELSE {}
    /\ stall' = (due /\ ~skipped /\ GlobalStallEligible(age))
    /\ considered' = 0 /\ submitted' = 0
    /\ pc' = IF due /\ ~skipped THEN "slot" ELSE "ancestor"
    /\ UNCHANGED <<last_ancestor_check_expansion, last_request_expansion,
                   best_h, global_stall_requested, requests_submitted, pending,
                   opened_states, log>>

(* The loop of submit_layer_candidates, best layer first.                  *)
MoreCandidates ==
    waiting # {} /\ considered < CandidateLayers /\ submitted < RequestsPerSlot

BestCandidate(h) ==
    h \in waiting /\ \A k \in waiting \ {h} : PriorityBetter(h, k)

(* Only the first request of a slot obeys the spacing: it is what the      *)
(* others would be measured against.                                       *)
BypassSpacing == submitted > 0

PlateauReason == IF stall /\ submitted = 0 THEN "plateau+stall" ELSE "plateau"

(* Variant: the layer does not remember when it was asked about.           *)
RequestedWithoutTime(layer) ==
    [layer EXCEPT !.rep = "asked", !.requested_in_episode = TRUE,
                  !.since_request = NoWindow]

Requested(layer) ==
    [layer EXCEPT !.rep = "asked", !.requested_in_episode = TRUE,
                  !.last_request = expansions, !.since_request = NoWindow]

ConsiderLayer(h) ==
    /\ pc = "slot" /\ MoreCandidates /\ BestCandidate(h)
    /\ waiting' = waiting \ {h}
    /\ considered' = considered + 1
    /\ \/ /\ MaySubmit(layers[h].rep = "asked", BypassSpacing)
          /\ Submitted(h, PlateauReason)
          /\ submitted' = submitted + 1
          /\ layers' = [layers EXCEPT ![h] = Requested(@)]
          /\ since' = [since EXCEPT ![h] = [NothingSince EXCEPT !.quiet = since[h].quiet]]
          /\ cur' = [cur EXCEPT !.asked = @ \/ cur.h = h]
       \/ Refused /\ UNCHANGED <<submitted, layers, since, cur>>
    /\ UNCHANGED <<expansions, expansions_since_best_h, last_analysis_expansion,
                   last_ancestor_check_expansion, best_h, global_stall_requested,
                   pc, stall, envVars>>

(* Variant: a request shared with a layer does not count for the stall.    *)
OnlyFallbackServesStall == FALSE

LayerServedStall == stall /\ submitted > 0

(* The end of submit_layer_candidates: the fallback of a global stall is   *)
(* the state just expanded.                                                *)
EndSlot ==
    /\ pc = "slot" /\ ~MoreCandidates
    /\ \/ /\ stall /\ submitted = 0
          /\ MaySubmit(cur.asked, FALSE)
          /\ Submitted(cur.h, "stall")
          /\ layers' = MarkAsked(cur.h)
          /\ cur' = [cur EXCEPT !.asked = TRUE]
          /\ global_stall_requested' = TRUE
       \/ /\ Refused
          /\ global_stall_requested' =
                (global_stall_requested \/ LayerServedStall)
          /\ UNCHANGED <<layers, cur>>
    /\ pc' = "ancestor"
    /\ waiting' = {} /\ considered' = 0 /\ submitted' = 0 /\ stall' = FALSE
    /\ UNCHANGED <<expansions, expansions_since_best_h, last_analysis_expansion,
                   last_ancestor_check_expansion, best_h, envVars, since>>

(* should_check_ancestor: the limits, the interval, and the deferral to a  *)
(* layer or a stall that may ask in the next slot.                         *)
AncestorDue ==
    /\ "ancestor" \in Rules
    /\ ~ReachedRequestLimit /\ ~SpacingActive
    /\ expansions - last_ancestor_check_expansion >= AncestorCheckInterval

Deferred ==
    \/ EligibleLayers(layers, expansions) # {}
    \/ GlobalStallEligible(expansions_since_best_h)

(* The rest of fetch_next_node: whether the node's ancestors are stagnant  *)
(* is the search's affair.                                                 *)
CheckAncestor ==
    /\ pc = "ancestor"
    /\ pc' = "search"
    /\ last_ancestor_check_expansion' =
          IF AncestorDue THEN expansions ELSE last_ancestor_check_expansion
    /\ \/ /\ AncestorDue /\ ~Deferred
          /\ MaySubmit(cur.asked, FALSE)
          /\ Submitted(cur.h, "ancestor")
          /\ layers' = MarkAsked(cur.h)
          /\ cur' = [cur EXCEPT !.asked = TRUE]
       \/ Refused /\ UNCHANGED <<layers, cur>>
    /\ UNCHANGED <<expansions, expansions_since_best_h, last_analysis_expansion,
                   best_h, global_stall_requested, waiting, considered,
                   submitted, stall, envVars, since>>

(* poll_bridge takes a response out of the pending ones.                   *)
PollBridge ==
    /\ pc = "search" /\ pending > 0
    /\ pending' = pending - 1
    /\ UNCHANGED <<layers, expansions, expansions_since_best_h,
                   last_analysis_expansion, last_ancestor_check_expansion,
                   last_request_expansion, best_h, global_stall_requested,
                   requests_submitted, slotVars, envVars, log, since>>

(* The bound: the model does not expand further.                           *)
Finished == pc = "search" /\ expansions = MaxExpansions /\ UNCHANGED vars

Next ==
    \/ \E h \in Hs : RecordOpen(h)
    \/ \E h \in Hs, again \in BOOLEAN : Expand(h, again)
    \/ \E h \in Hs : ConsiderLayer(h)
    \/ EndSlot
    \/ CheckAncestor
    \/ PollBridge
    \/ Finished

Spec == Init /\ [][Next]_vars

----------------------------------------------------------------------------
(* What the rules promise (docs/online_trigger_algorithm_update.md).       *)

StallReasons    == {"stall", "plateau+stall"}
FrontierReasons == {"plateau", "plateau+stall"}

Earlier(reasons, j) ==
    {i \in 1..(j - 1) : log[i].reason \in reasons /\ log[j].reason \in reasons}

EarlierOfLayer(h) ==
    {i \in DOMAIN log : log[i].reason \in FrontierReasons /\ log[i].h = h}

(* All rules share the minimum gap of request_spacing_active: requests of  *)
(* different expansions are at least MinGap apart, and one expansion makes *)
(* at most RequestsPerSlot, although the later ones of a slot bypass it.   *)
SharedSpacing ==
    MinGap > 0 =>
      \A j \in DOMAIN log :
        /\ \A i \in 1..(j - 1) :
              log[i].at = log[j].at \/ log[j].at - log[i].at >= MinGap
        /\ Cardinality({i \in DOMAIN log : log[i].at = log[j].at})
              <= RequestsPerSlot

AsksAgainAbout(h) ==
    /\ Len(log') > Len(log)
    /\ log'[Len(log')].h = h /\ log'[Len(log')].reason \in FrontierReasons
    /\ EarlierOfLayer(h) # {}

(* A layer is asked about again only after its own longer interval, unless *)
(* its cooldown was lifted: it was quiet for LayerResetWindows analyses,   *)
(* or layer_for_h evicted it and with it the time of its last request.     *)
LayerInterval ==
    [][\A h \in Hs : AsksAgainAbout(h) =>
          \/ since[h].forgotten
          \/ \A i \in EarlierOfLayer(h) : expansions - log[i].at >= PerLayerGap]_vars

(* Whatever resets and evictions do to its counters, a layer has gathered  *)
(* the required expansions and net growth since it was last asked about.   *)
FreshEvidence ==
    [][\A h \in Hs : AsksAgainAbout(h) =>
          /\ since[h].expanded >= MinSinceExpanded
          /\ since[h].opened >= MinSinceExpanded + MinSinceNetGrowth]_vars

(* A global stall asks once; only a better best_h opens it again, also     *)
(* when the request was shared with a layer or refused.                    *)
StallOnce ==
    \A j \in DOMAIN log : \A i \in Earlier(StallReasons, j) :
        log[j].best < log[i].best
============================================================================
