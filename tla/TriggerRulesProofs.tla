------------------------- MODULE TriggerRulesProofs -------------------------
(***************************************************************************)
(* What TriggerRules promises, for every choice of its thresholds: slots   *)
(* keep their distance, a stall is served once, and a layer is asked about *)
(* again only after its interval and with new evidence.                    *)
(***************************************************************************)
EXTENDS TriggerRules, FiniteSetTheorems, TLAPS

----------------------------------------------------------------------------
(* The inductive invariant.                                                *)

Window == [opened : Nat, expanded : Nat]

Time == Nat \cup {-1}

LayerType == [
    current : Window, history : [1..ActivityWindows -> Window],
    since_request : Window, last_seen : Nat, last_request : Time,
    growth_streak : Nat, calm_streak : Nat, inactive_streak : Nat,
    requested_in_episode : BOOLEAN, growing : BOOLEAN, ready : BOOLEAN,
    rep : {"none", "new", "asked"}, rep_at : Time]

Reasons == FrontierReasons \cup StallReasons \cup {"initial", "ancestor"}

Request == [h : Hs, reason : Reasons, at : Nat, best : Hs]

History == [opened : Nat, expanded : Nat, forgotten : BOOLEAN, quiet : Nat]

TableType(table) ==
    DOMAIN table \subseteq Hs /\ table \in [DOMAIN table -> LayerType]

TablesOK ==
    /\ TableType(layers)
    /\ since \in [Hs -> History] /\ open \in [Hs -> Nat]

CountersOK ==
    /\ {expansions, expansions_since_best_h, last_analysis_expansion,
        last_ancestor_check_expansion, requests_submitted, pending,
        considered, submitted, opened_states} \subseteq Nat
    /\ last_request_expansion \in Time /\ best_h \in Hs

FlagsOK ==
    /\ pc \in {"search", "slot", "ancestor"}
    /\ cur \in [h : Hs, asked : BOOLEAN]
    /\ global_stall_requested \in BOOLEAN /\ stall \in BOOLEAN

TriggerTypeOK ==
    TablesOK /\ CountersOK /\ FlagsOK /\ waiting \subseteq Hs /\ log \in Seq(Request)

(* Requests are logged in the order of the expansions that made them, and  *)
(* the monitor remembers the last of them.                                 *)
LogOK ==
    /\ \A i \in DOMAIN log : log[i].at <= expansions
    /\ \A j \in DOMAIN log : \A i \in 1..(j - 1) : log[i].at <= log[j].at
    /\ last_request_expansion =
           IF log = <<>> THEN -1 ELSE log[Len(log)].at

AskedAt(now) == {i \in DOMAIN log : log[i].at = now}

(* A slot counts the requests of its own expansion, and its candidates     *)
(* stay eligible until their turn.                                         *)
SlotOK ==
    /\ pc # "slot" => waiting = {} /\ submitted = 0 /\ ~stall
    /\ pc = "slot" => /\ Cardinality(AskedAt(expansions)) = submitted
                      /\ submitted <= RequestsPerSlot
    /\ \A h \in waiting : h \in Tracked /\ Eligible(layers[h], expansions)

(* An episode still to be served is better than all that were.             *)
StallOK ==
    /\ stall => ~global_stall_requested
    /\ \A i \in DOMAIN log : log[i].reason \in StallReasons =>
           /\ best_h <= log[i].best
           /\ ~global_stall_requested /\ ~LayerServedStall => best_h < log[i].best

(* What a table remembers of its layers, against what happened to them.    *)
Agree(table, record) ==
    \A k \in Hs :
      /\ k \in DOMAIN table =>
            /\ table[k].since_request.opened <= record[k].opened
            /\ table[k].since_request.expanded <= record[k].expanded
            /\ table[k].inactive_streak <= record[k].quiet
      /\ ~record[k].forgotten => \A i \in EarlierOfLayer(k) :
            k \in DOMAIN table /\ log[i].at <= table[k].last_request

LayersOK == Agree(layers, since)

IInv == /\ TriggerTypeOK /\ LogOK /\ SlotOK /\ SharedSpacing
        /\ StallOK /\ StallOnce /\ LayersOK

----------------------------------------------------------------------------
(* The layer records.                                                      *)

(* A layer just put in the table has the type of a layer.                  *)
LEMMA NewLayerType ==
  ASSUME expansions \in Nat
  PROVE  NewLayer \in LayerType
BY TriggerAssumption DEF NewLayer, NoWindow, LayerType, Window, Time

(* reset_layer_episode keeps the window being filled, and the time of the  *)
(* last request unless the cooldown is lifted.                             *)
LEMMA ResetFacts ==
  ASSUME expansions \in Nat, NEW layer \in LayerType
  PROVE  /\ ResetEpisode(layer, TRUE) \in LayerType
         /\ ResetEpisode(layer, TRUE).since_request = NoWindow
         /\ ResetEpisode(layer, TRUE).inactive_streak = 0
         /\ ResetEpisode(layer, FALSE) \in LayerType
         /\ ResetEpisode(layer, FALSE).since_request = NoWindow
         /\ ResetEpisode(layer, FALSE).inactive_streak = 0
         /\ ResetEpisode(layer, FALSE).last_request = layer.last_request
<1>1. /\ layer.current \in Window /\ layer.last_seen \in Nat
      /\ layer.last_request \in Time /\ -1 \in Time
  BY DEF LayerType, Time
<1>2. /\ ResetEpisode(layer, TRUE) \in LayerType
      /\ ResetEpisode(layer, FALSE) \in LayerType
  BY <1>1, NewLayerType DEF ResetEpisode, LayerType
<1>3. /\ ResetEpisode(layer, TRUE).since_request = NoWindow
      /\ ResetEpisode(layer, TRUE).inactive_streak = 0
      /\ ResetEpisode(layer, FALSE).since_request = NoWindow
      /\ ResetEpisode(layer, FALSE).inactive_streak = 0
      /\ ResetEpisode(layer, FALSE).last_request = layer.last_request
  BY DEF ResetEpisode, NewLayer
<1> QED
  BY <1>2, <1>3

(* Closing a window moves it into the history and counts the windows       *)
(* without an insertion.                                                   *)
LEMMA CloseFacts ==
  ASSUME NEW layer \in LayerType
  PROVE  /\ CloseWindow(layer) \in LayerType
         /\ CloseWindow(layer).since_request = layer.since_request
         /\ CloseWindow(layer).last_request = layer.last_request
         /\ CloseWindow(layer).inactive_streak =
              IF layer.current.opened = 0 THEN layer.inactive_streak + 1 ELSE 0
<1>1. /\ layer.current \in Window /\ layer.inactive_streak \in Nat
      /\ layer.history \in [1..ActivityWindows -> Window]
  BY DEF LayerType
<1>2. ActivityWindows \in Nat \ {0}
  BY TriggerAssumption
<1>3. layer.history \in Seq(Window) /\ Len(layer.history) = ActivityWindows
  BY <1>1, <1>2
<1>4. /\ Append(Tail(layer.history), layer.current) \in Seq(Window)
      /\ Len(Append(Tail(layer.history), layer.current)) = ActivityWindows
  BY <1>1, <1>2, <1>3
<1>5. Append(Tail(layer.history), layer.current) \in [1..ActivityWindows -> Window]
  <2> DEFINE moved == Append(Tail(layer.history), layer.current)
  <2>1. moved \in Seq(Window) /\ Len(moved) = ActivityWindows
    BY <1>4
  <2> HIDE DEF moved
  <2>2. moved \in [1..Len(moved) -> Window]
    BY <2>1
  <2> QED
    BY <2>1, <2>2 DEF moved
<1>6. NoWindow \in Window
  BY DEF NoWindow, Window
<1>7. (IF layer.current.opened = 0 THEN layer.inactive_streak + 1 ELSE 0) \in Nat
  BY <1>1
<1>8. CloseWindow(layer) \in LayerType
  BY <1>5, <1>6, <1>7 DEF CloseWindow, LayerType
<1>9. /\ CloseWindow(layer).since_request = layer.since_request
      /\ CloseWindow(layer).last_request = layer.last_request
      /\ CloseWindow(layer).inactive_streak =
           IF layer.current.opened = 0 THEN layer.inactive_streak + 1 ELSE 0
  BY DEF CloseWindow, LayerType
<1> QED
  BY <1>8, <1>9

(* update_layer_window: counters only fall or start anew, and the time of  *)
(* the last request is lost only to a layer that has been quiet.           *)
LEMMA UpdateFacts ==
  ASSUME expansions \in Nat, NEW layer \in LayerType
  PROVE  /\ UpdateWindow(layer) \in LayerType
         /\ UpdateWindow(layer).since_request \in {layer.since_request, NoWindow}
         /\ UpdateWindow(layer).inactive_streak \in
              {0, IF layer.current.opened = 0 THEN layer.inactive_streak + 1 ELSE 0}
         /\ \/ UpdateWindow(layer).last_request = layer.last_request
            \/ /\ layer.current.opened = 0
               /\ layer.inactive_streak + 1 >= LayerResetWindows
<1> DEFINE c == CloseWindow(layer)
           calm == [c EXCEPT !.growing = FALSE, !.growth_streak = 0,
                             !.calm_streak = @ + 1]
<1>1. c \in LayerType
  BY CloseFacts
<1>2. CASE IsGrowing(c)
  <2>1. UpdateWindow(layer) = Grown(c)
    BY <1>2 DEF UpdateWindow
  <2>2. (c.ready \/ c.growth_streak + 1 >= GrowthConfirmWindows) \in BOOLEAN
    OBVIOUS
  <2>3. c.growth_streak + 1 \in Nat
    BY <1>1 DEF LayerType
  <2>4. Grown(c) \in LayerType
    BY <1>1, <2>2, <2>3, Zenon DEF Grown, LayerType
  <2>5. /\ Grown(c).since_request = c.since_request
        /\ Grown(c).inactive_streak = c.inactive_streak
        /\ Grown(c).last_request = c.last_request
    BY <1>1 DEF Grown, LayerType
  <2> QED
    BY <2>1, <2>4, <2>5, CloseFacts
<1>3. CASE ~IsGrowing(c)
  <2>1. UpdateWindow(layer) = Calmed(c)
    BY <1>3 DEF UpdateWindow
  <2>2. calm \in LayerType
    <3>1. c.calm_streak + 1 \in Nat
      BY <1>1 DEF LayerType
    <3> QED
      BY <1>1, <3>1, Zenon DEF LayerType
  <2>3. /\ calm.since_request = c.since_request
        /\ calm.inactive_streak = c.inactive_streak
        /\ calm.last_request = c.last_request
    BY <1>1 DEF LayerType
  <2>4. \/ Calmed(c) = calm
        \/ Calmed(c) = ResetEpisode(calm, FALSE)
        \/ /\ Calmed(c) = ResetEpisode(calm, TRUE)
           /\ calm.inactive_streak >= LayerResetWindows
    BY Zenon DEF Calmed
  <2>5. LayerResetWindows \in Nat \ {0}
    BY TriggerAssumption
  <2> HIDE DEF calm, c
  <2>6. layer.inactive_streak \in Nat /\ c.inactive_streak \in Nat
    BY <1>1 DEF LayerType
  <2>7. CASE Calmed(c) = calm
    BY <2>1, <2>2, <2>3, <2>7, CloseFacts DEF c
  <2>8. CASE Calmed(c) = ResetEpisode(calm, FALSE)
    <3>1. /\ UpdateWindow(layer) \in LayerType
          /\ UpdateWindow(layer).since_request = NoWindow
          /\ UpdateWindow(layer).inactive_streak = 0
          /\ UpdateWindow(layer).last_request = calm.last_request
      BY <2>1, <2>2, <2>8, ResetFacts
    <3>2. calm.last_request = layer.last_request
      BY <2>3, CloseFacts DEF c
    <3> QED
      BY <3>1, <3>2
  <2>9. CASE /\ Calmed(c) = ResetEpisode(calm, TRUE)
             /\ calm.inactive_streak >= LayerResetWindows
    <3>1. /\ UpdateWindow(layer) \in LayerType
          /\ UpdateWindow(layer).since_request = NoWindow
          /\ UpdateWindow(layer).inactive_streak = 0
      <4>1. Calmed(c) = ResetEpisode(calm, TRUE)
        BY <2>9
      <4> QED
        <5>1. ResetEpisode(calm, TRUE) \in LayerType
          BY <2>2, ResetFacts
        <5>2. ResetEpisode(calm, TRUE).since_request = NoWindow
          BY <2>2, ResetFacts
        <5>3. ResetEpisode(calm, TRUE).inactive_streak = 0
          BY <2>2, ResetFacts
        <5> QED
          BY <2>1, <4>1, <5>1, <5>2, <5>3
    <3>2. c.inactive_streak >= LayerResetWindows
      BY <2>3, <2>9
    <3>3. layer.current.opened = 0 /\ layer.inactive_streak + 1 >= LayerResetWindows
      <4>1. c.inactive_streak =
              IF layer.current.opened = 0 THEN layer.inactive_streak + 1 ELSE 0
        BY CloseFacts DEF c
      <4> QED
        BY <3>2, <2>5, <2>6, <4>1
    <3> QED
      BY <3>1, <3>3
  <2> QED
    BY <2>4, <2>7, <2>8, <2>9
<1> QED
  BY <1>2, <1>3

----------------------------------------------------------------------------
(* The table of layers, from one step to the next.                         *)

(* layer_for_h keeps what it knows of every layer it does not evict, and   *)
(* the layer of h is in the table, perhaps new.                            *)
LEMMA TablesFacts ==
  ASSUME TriggerTypeOK, NEW h \in Hs, NEW table \in TablesWith(h)
  PROVE  /\ TableType(table) /\ h \in DOMAIN table
         /\ \A k \in DOMAIN table :
               \/ k \in Tracked /\ table[k] = layers[k]
               \/ k \notin Tracked /\ k = h /\ table[k] = NewLayer
<1> USE DEF TriggerTypeOK, TablesOK, TableType, Tracked
<1>0. NewLayer \in LayerType
  BY NewLayerType DEF CountersOK
<1>1. CASE h \in Tracked
  BY <1>1 DEF TablesWith
<1>2. CASE h \notin Tracked
  <2>1. PICK D \in SUBSET Hs :
          /\ h \in D /\ D \subseteq Tracked \cup {h}
          /\ table = [k \in D |-> IF k = h THEN NewLayer ELSE layers[k]]
    <3>1. CASE Cardinality(Tracked) < Capacity
      <4>1. table = [k \in Tracked \cup {h} |-> IF k = h THEN NewLayer ELSE layers[k]]
        BY <1>2, <3>1 DEF TablesWith
      <4> QED
        BY <4>1
    <3>2. CASE ~(Cardinality(Tracked) < Capacity)
      <4>1. PICK victim \in Stalest :
              table = [k \in (Tracked \ {victim}) \cup {h} |->
                         IF k = h THEN NewLayer ELSE layers[k]]
        BY <1>2, <3>2 DEF TablesWith
      <4> QED
        BY <4>1
    <3> QED
      BY <3>1, <3>2
  <2>2. \A k \in D : k # h => k \in Tracked /\ layers[k] \in LayerType
    BY <2>1
  <2>3. DOMAIN table = D
    BY <2>1
  <2>4. \A k \in D : table[k] = IF k = h THEN NewLayer ELSE layers[k]
    BY <2>1
  <2>5. table \in [D -> LayerType]
    BY <1>0, <2>1, <2>2
  <2> QED
    BY <1>2, <2>1, <2>2, <2>3, <2>4, <2>5
<1> QED
  BY <1>1, <1>2

(* The history forgets a layer that the table has evicted.                 *)
LEMMA RememberedFacts ==
  ASSUME TriggerTypeOK, LayersOK, NEW h \in Hs, NEW table \in TablesWith(h)
  PROVE  Remembered(table) \in [Hs -> History] /\ Agree(table, Remembered(table))
<1> USE DEF TriggerTypeOK, TablesOK
<1>1. \A k \in Hs : /\ since[k] \in History
                    /\ Remembered(table)[k] =
                         IF k \in Evicted(table)
                         THEN [since[k] EXCEPT !.forgotten = TRUE] ELSE since[k]
  BY DEF Remembered
<1>2. \A k \in Hs : [since[k] EXCEPT !.forgotten = TRUE] \in History
  BY <1>1 DEF History
<1>3. Remembered(table) \in [Hs -> History]
  BY <1>1, <1>2 DEF Remembered
<1>4. ASSUME NEW k \in Hs
      PROVE  /\ Remembered(table)[k].opened = since[k].opened
             /\ Remembered(table)[k].expanded = since[k].expanded
             /\ Remembered(table)[k].quiet = since[k].quiet
             /\ ~Remembered(table)[k].forgotten =>
                   k \notin Evicted(table) /\ ~since[k].forgotten
  BY <1>1 DEF History
<1>5. ASSUME NEW k \in Hs, k \in DOMAIN table
      PROVE  /\ table[k].since_request.opened <= since[k].opened
             /\ table[k].since_request.expanded <= since[k].expanded
             /\ table[k].inactive_streak <= since[k].quiet
  <2>1. CASE k \in Tracked /\ table[k] = layers[k]
    BY <2>1 DEF LayersOK, Agree, Tracked
  <2>2. CASE table[k] = NewLayer
    <3>1. /\ since[k].opened \in Nat /\ since[k].expanded \in Nat
          /\ since[k].quiet \in Nat
      BY <1>1 DEF History
    <3>2. /\ NewLayer.since_request.opened = 0
          /\ NewLayer.since_request.expanded = 0
          /\ NewLayer.inactive_streak = 0
      BY DEF NewLayer, NoWindow
    <3> QED
      BY <2>2, <3>1, <3>2
  <2> QED
    BY <1>5, <2>1, <2>2, TablesFacts
<1>6. ASSUME NEW k \in Hs, k \notin Evicted(table), ~since[k].forgotten,
             NEW i \in EarlierOfLayer(k)
      PROVE  k \in DOMAIN table /\ log[i].at <= table[k].last_request
  <2>1. k \in Tracked /\ log[i].at <= layers[k].last_request
    BY <1>6 DEF LayersOK, Agree, Tracked
  <2>2. k \in DOMAIN table
    BY <1>6, <2>1 DEF Evicted
  <2> QED
    BY <2>1, <2>2, TablesFacts
<1>7. Agree(table, Remembered(table))
  BY <1>4, <1>5, <1>6 DEF Agree
<1> QED
  BY <1>3, <1>7

OpenedIn(table, h) ==
    [table EXCEPT ![h].current.opened = @ + 1,
                  ![h].since_request.opened = @ + 1,
                  ![h].last_seen = expansions]

ExpandedIn(table, h, now, mark) ==
    [table EXCEPT ![h].current.expanded = @ + 1,
                  ![h].since_request.expanded = @ + 1,
                  ![h].last_seen = now,
                  ![h].rep = mark,
                  ![h].rep_at = now]

MoreOpened(record, h) == [record EXCEPT ![h].opened = @ + 1]
MoreExpanded(record, h) == [record EXCEPT ![h].expanded = @ + 1]

(* An insertion counts for the layer's evidence and for its history alike. *)
LEMMA OpenedFacts ==
  ASSUME NEW table, TableType(table), NEW h \in DOMAIN table, expansions \in Nat,
         NEW record \in [Hs -> History], Agree(table, record)
  PROVE  /\ TableType(OpenedIn(table, h)) /\ MoreOpened(record, h) \in [Hs -> History]
         /\ Agree(OpenedIn(table, h), MoreOpened(record, h))
<1> DEFINE table2 == OpenedIn(table, h)
           record2 == MoreOpened(record, h)
<1> USE DEF OpenedIn, MoreOpened
<1>1. /\ h \in Hs /\ table[h] \in LayerType /\ record[h] \in History
      /\ \A k \in DOMAIN table : k \in Hs /\ table[k] \in LayerType
  BY DEF TableType
<1> DEFINE layer == [table[h] EXCEPT !.current.opened = @ + 1,
                                     !.since_request.opened = @ + 1,
                                     !.last_seen = expansions]
           rec == [record[h] EXCEPT !.opened = @ + 1]
<1>2. /\ DOMAIN table2 = DOMAIN table
      /\ \A k \in DOMAIN table : table2[k] = IF k = h THEN layer ELSE table[k]
      /\ table2 = [k \in DOMAIN table |-> IF k = h THEN layer ELSE table[k]]
  BY <1>1 DEF TableType
<1>3. /\ \A k \in Hs : record2[k] = IF k = h THEN rec ELSE record[k]
      /\ record2 = [k \in Hs |-> IF k = h THEN rec ELSE record[k]]
  BY <1>1
<1>4. /\ layer \in LayerType
      /\ layer.since_request.opened = table[h].since_request.opened + 1
      /\ layer.since_request.expanded = table[h].since_request.expanded
      /\ layer.inactive_streak = table[h].inactive_streak
      /\ layer.last_request = table[h].last_request
  <2>1. table[h].current \in Window /\ table[h].since_request \in Window
    BY <1>1 DEF LayerType
  <2>2. /\ [table[h].current EXCEPT !.opened = @ + 1] \in Window
        /\ [table[h].since_request EXCEPT !.opened = @ + 1] \in Window
    BY <2>1 DEF Window
  <2>3. layer = [table[h] EXCEPT
                   !.current = [table[h].current EXCEPT !.opened = @ + 1],
                   !.since_request = [table[h].since_request EXCEPT !.opened = @ + 1],
                   !.last_seen = expansions]
    BY <1>1 DEF LayerType
  <2> HIDE DEF layer
  <2>4. layer \in LayerType
    BY <1>1, <2>2, <2>3 DEF LayerType
  <2>5. /\ layer.since_request = [table[h].since_request EXCEPT !.opened = @ + 1]
        /\ layer.inactive_streak = table[h].inactive_streak
        /\ layer.last_request = table[h].last_request
    BY <1>1, <2>3 DEF LayerType
  <2> QED
    BY <2>1, <2>4, <2>5 DEF Window
<1>5. /\ rec \in History /\ rec.opened = record[h].opened + 1
      /\ rec.expanded = record[h].expanded /\ rec.quiet = record[h].quiet
      /\ rec.forgotten = record[h].forgotten
  BY <1>1 DEF History
<1>6. /\ table[h].since_request.opened \in Nat /\ record[h].opened \in Nat
  BY <1>1 DEF LayerType, Window, History
<1> HIDE DEF layer, rec, table2, record2
<1>7. TableType(table2)
  BY <1>1, <1>2, <1>4 DEF TableType
<1>8. record2 \in [Hs -> History]
  BY <1>1, <1>3, <1>5
<1>9. ASSUME NEW k \in Hs, k \in DOMAIN table2
      PROVE  /\ table2[k].since_request.opened <= record2[k].opened
             /\ table2[k].since_request.expanded <= record2[k].expanded
             /\ table2[k].inactive_streak <= record2[k].quiet
  BY <1>2, <1>3, <1>4, <1>5, <1>6, <1>9 DEF Agree
<1>10. ASSUME NEW k \in Hs, ~record2[k].forgotten, NEW i \in EarlierOfLayer(k)
       PROVE  k \in DOMAIN table2 /\ log[i].at <= table2[k].last_request
  <2>1. ~record[k].forgotten
    BY <1>3, <1>5, <1>10
  <2>2. k \in DOMAIN table /\ log[i].at <= table[k].last_request
    BY <1>10, <2>1 DEF Agree
  <2> QED
    BY <1>2, <1>4, <2>2
<1> QED
  BY <1>7, <1>8, <1>9, <1>10 DEF Agree, table2, record2

(* So does an expansion, whose state becomes the layer's representative.   *)
LEMMA CountedFacts ==
  ASSUME NEW table, TableType(table), NEW h \in DOMAIN table,
         NEW now \in Nat, NEW mark \in {"none", "new", "asked"},
         NEW record \in [Hs -> History], Agree(table, record)
  PROVE  /\ TableType(ExpandedIn(table, h, now, mark))
         /\ MoreExpanded(record, h) \in [Hs -> History]
         /\ Agree(ExpandedIn(table, h, now, mark), MoreExpanded(record, h))
<1> DEFINE table2 == ExpandedIn(table, h, now, mark)
           record2 == MoreExpanded(record, h)
<1> USE DEF ExpandedIn, MoreExpanded
<1>1. /\ h \in Hs /\ table[h] \in LayerType /\ record[h] \in History
      /\ \A k \in DOMAIN table : k \in Hs /\ table[k] \in LayerType
  BY DEF TableType
<1> DEFINE layer == [table[h] EXCEPT !.current.expanded = @ + 1,
                                     !.since_request.expanded = @ + 1,
                                     !.last_seen = now, !.rep = mark, !.rep_at = now]
           rec == [record[h] EXCEPT !.expanded = @ + 1]
<1>2. /\ DOMAIN table2 = DOMAIN table
      /\ \A k \in DOMAIN table : table2[k] = IF k = h THEN layer ELSE table[k]
      /\ table2 = [k \in DOMAIN table |-> IF k = h THEN layer ELSE table[k]]
  BY <1>1 DEF TableType
<1>3. /\ \A k \in Hs : record2[k] = IF k = h THEN rec ELSE record[k]
      /\ record2 = [k \in Hs |-> IF k = h THEN rec ELSE record[k]]
  BY <1>1
<1>4. /\ layer \in LayerType
      /\ layer.since_request.opened = table[h].since_request.opened
      /\ layer.since_request.expanded = table[h].since_request.expanded + 1
      /\ layer.inactive_streak = table[h].inactive_streak
      /\ layer.last_request = table[h].last_request
  <2>1. table[h].current \in Window /\ table[h].since_request \in Window
    BY <1>1 DEF LayerType
  <2>2. /\ [table[h].current EXCEPT !.expanded = @ + 1] \in Window
        /\ [table[h].since_request EXCEPT !.expanded = @ + 1] \in Window
    BY <2>1 DEF Window
  <2>3. layer = [table[h] EXCEPT
                   !.current = [table[h].current EXCEPT !.expanded = @ + 1],
                   !.since_request = [table[h].since_request EXCEPT !.expanded = @ + 1],
                   !.last_seen = now, !.rep = mark, !.rep_at = now]
    BY <1>1 DEF LayerType
  <2> HIDE DEF layer
  <2>4. layer \in LayerType
    BY <1>1, <2>2, <2>3 DEF LayerType, Time
  <2>5. /\ layer.since_request = [table[h].since_request EXCEPT !.expanded = @ + 1]
        /\ layer.inactive_streak = table[h].inactive_streak
        /\ layer.last_request = table[h].last_request
    BY <1>1, <2>3 DEF LayerType
  <2> QED
    BY <2>1, <2>4, <2>5 DEF Window
<1>5. /\ rec \in History /\ rec.expanded = record[h].expanded + 1
      /\ rec.opened = record[h].opened /\ rec.quiet = record[h].quiet
      /\ rec.forgotten = record[h].forgotten
  BY <1>1 DEF History
<1>6. /\ table[h].since_request.expanded \in Nat /\ record[h].expanded \in Nat
  BY <1>1 DEF LayerType, Window, History
<1> HIDE DEF layer, rec, table2, record2
<1>7. TableType(table2)
  BY <1>1, <1>2, <1>4 DEF TableType
<1>8. record2 \in [Hs -> History]
  BY <1>1, <1>3, <1>5
<1>9. ASSUME NEW k \in Hs, k \in DOMAIN table2
      PROVE  /\ table2[k].since_request.opened <= record2[k].opened
             /\ table2[k].since_request.expanded <= record2[k].expanded
             /\ table2[k].inactive_streak <= record2[k].quiet
  BY <1>2, <1>3, <1>4, <1>5, <1>6, <1>9 DEF Agree
<1>10. ASSUME NEW k \in Hs, ~record2[k].forgotten, NEW i \in EarlierOfLayer(k)
       PROVE  k \in DOMAIN table2 /\ log[i].at <= table2[k].last_request
  <2>1. ~record[k].forgotten
    BY <1>3, <1>5, <1>10
  <2>2. k \in DOMAIN table /\ log[i].at <= table[k].last_request
    BY <1>10, <2>1 DEF Agree
  <2> QED
    BY <1>2, <1>4, <2>2
<1> QED
  BY <1>7, <1>8, <1>9, <1>10 DEF Agree, table2, record2

(* The analysis of the windows forgets a request only of a layer that was  *)
(* quiet for LayerResetWindows of them.                                    *)
LEMMA AnalysisFacts ==
  ASSUME NEW table, TableType(table), expansions \in Nat,
         NEW record \in [Hs -> History], Agree(table, record),
         NEW table2, NEW record2,
         table2 = [k \in DOMAIN table |-> UpdateWindow(table[k])],
         record2 = [k \in Hs |-> AfterAnalysis(k, table, record[k])]
  PROVE  TableType(table2) /\ record2 \in [Hs -> History] /\ Agree(table2, record2)
<1> DEFINE active(k) == k \in DOMAIN table /\ table[k].current.opened > 0
           quiet(k) == IF active(k) THEN 0 ELSE record[k].quiet + 1
<1>1. \A k \in DOMAIN table : table[k] \in LayerType
  BY DEF TableType
<1>2. ASSUME NEW k \in Hs
      PROVE  /\ record2[k].opened = record[k].opened
             /\ record2[k].expanded = record[k].expanded
             /\ record2[k].quiet = quiet(k)
             /\ ~record2[k].forgotten =>
                   ~record[k].forgotten /\ ~(quiet(k) >= LayerResetWindows)
             /\ record2[k] \in History
  <2>1. record[k] \in History /\ quiet(k) \in Nat
    BY DEF History
  <2>2. (record[k].forgotten \/ quiet(k) >= LayerResetWindows) \in BOOLEAN
    OBVIOUS
  <2>3. record2[k] = [record[k] EXCEPT !.quiet = quiet(k),
                        !.forgotten = @ \/ quiet(k) >= LayerResetWindows]
    BY DEF AfterAnalysis
  <2> HIDE DEF quiet
  <2>4. /\ record2[k].opened = record[k].opened
        /\ record2[k].expanded = record[k].expanded
        /\ record2[k].quiet = quiet(k)
        /\ record2[k].forgotten = (record[k].forgotten \/ quiet(k) >= LayerResetWindows)
    BY <2>1, <2>3, Zenon DEF History
  <2>5. record2[k] \in History
    BY <2>1, <2>2, <2>3, Zenon DEF History
  <2> QED
    BY <2>4, <2>5, Zenon
<1>3. ASSUME NEW k \in DOMAIN table
      PROVE  /\ table2[k] \in LayerType
             /\ table2[k].since_request \in {table[k].since_request, NoWindow}
             /\ table2[k].inactive_streak \in
                  {0, IF table[k].current.opened = 0
                      THEN table[k].inactive_streak + 1 ELSE 0}
             /\ \/ table2[k].last_request = table[k].last_request
                \/ /\ table[k].current.opened = 0
                   /\ table[k].inactive_streak + 1 >= LayerResetWindows
  BY <1>1, <1>3, UpdateFacts
<1>4. TableType(table2)
  BY <1>3 DEF TableType
<1>5. record2 \in [Hs -> History]
  BY <1>2
<1>6. ASSUME NEW k \in Hs, k \in DOMAIN table
      PROVE  /\ table2[k].since_request.opened <= record2[k].opened
             /\ table2[k].since_request.expanded <= record2[k].expanded
             /\ table2[k].inactive_streak <= record2[k].quiet
  <2>1. /\ table[k].since_request \in Window /\ table[k].current \in Window
        /\ table[k].inactive_streak \in Nat
        /\ record[k].opened \in Nat /\ record[k].expanded \in Nat
        /\ record[k].quiet \in Nat
    BY <1>1, <1>6 DEF LayerType, History
  <2>2. /\ table[k].since_request.opened <= record[k].opened
        /\ table[k].since_request.expanded <= record[k].expanded
        /\ table[k].inactive_streak <= record[k].quiet
    BY <1>6 DEF Agree
  <2>3. /\ table2[k].since_request.opened <= record[k].opened
        /\ table2[k].since_request.expanded <= record[k].expanded
    BY <1>3, <1>6, <2>1, <2>2 DEF NoWindow
  <2>4. table2[k].inactive_streak <= quiet(k)
    BY <1>3, <1>6, <2>1, <2>2 DEF Window
  <2> QED
    BY <1>2, <2>3, <2>4
<1>7. ASSUME NEW k \in Hs, ~record2[k].forgotten, NEW i \in EarlierOfLayer(k)
      PROVE  k \in DOMAIN table /\ log[i].at <= table2[k].last_request
  <2>1. ~record[k].forgotten /\ ~(quiet(k) >= LayerResetWindows)
    BY <1>2, <1>7
  <2>2. k \in DOMAIN table /\ log[i].at <= table[k].last_request
    BY <1>7, <2>1 DEF Agree
  <2>3. /\ table[k].current \in Window /\ table[k].inactive_streak \in Nat
        /\ record[k].quiet \in Nat /\ LayerResetWindows \in Nat
    BY <1>1, <2>2, TriggerAssumption DEF LayerType, History
  <2>4. table[k].inactive_streak <= record[k].quiet
    BY <2>2 DEF Agree
  <2>5. table2[k].last_request = table[k].last_request
    BY <1>3, <2>1, <2>2, <2>3, <2>4 DEF Window
  <2> QED
    BY <2>2, <2>5
<1>8. DOMAIN table2 = DOMAIN table
  OBVIOUS
<1> QED
  BY <1>4, <1>5, <1>6, <1>7, <1>8 DEF Agree

----------------------------------------------------------------------------
(* The log.                                                                *)

(* A submitted request is logged last, under the current expansion.        *)
LEMMA SubmittedFacts ==
  ASSUME TriggerTypeOK, LogOK, NEW h \in Hs, NEW reason \in Reasons,
         Submitted(h, reason), expansions' = expansions
  PROVE  /\ log' \in Seq(Request) /\ Len(log') = Len(log) + 1
         /\ DOMAIN log' = DOMAIN log \cup {Len(log) + 1}
         /\ Len(log) + 1 \notin DOMAIN log
         /\ \A i \in DOMAIN log : log'[i] = log[i]
         /\ log'[Len(log) + 1] = [h |-> h, reason |-> reason, at |-> expansions,
                                  best |-> best_h]
         /\ LogOK'
<1> DEFINE new == [h |-> h, reason |-> reason, at |-> expansions, best |-> best_h]
           n == Len(log)
<1>1. new \in Request
  BY DEF TriggerTypeOK, CountersOK, Request
<1>2. log \in Seq(Request) /\ log' = Append(log, new)
  BY DEF TriggerTypeOK, Submitted
<1>3. new.at = expansions
  OBVIOUS
<1> HIDE DEF new
<1>4. /\ n \in Nat /\ DOMAIN log = 1..n
      /\ log' \in Seq(Request) /\ Len(log') = n + 1 /\ DOMAIN log' = 1..(n + 1)
      /\ log'[n + 1] = new
      /\ \A i \in 1..n : log'[i] = log[i]
  BY <1>1, <1>2
<1>5. /\ DOMAIN log' = DOMAIN log \cup {n + 1} /\ n + 1 \notin DOMAIN log
      /\ \A i \in DOMAIN log : log'[i] = log[i]
  BY <1>4
<1>6. LogOK'
  <2>1. \A i \in DOMAIN log : log'[i].at <= expansions
    BY <1>5 DEF LogOK
  <2>2. expansions \in Nat
    BY DEF TriggerTypeOK, CountersOK
  <2>3. \A i \in DOMAIN log' : log'[i].at <= expansions'
    BY <1>3, <1>4, <1>5, <2>1, <2>2
  <2>4. ASSUME NEW j \in DOMAIN log', NEW i \in 1..(j - 1)
        PROVE  log'[i].at <= log'[j].at
    <3>1. CASE j \in DOMAIN log
      <4>1. i \in DOMAIN log
        BY <1>4, <3>1
      <4>2. log[i].at <= log[j].at
        BY <3>1 DEF LogOK
      <4> QED
        BY <1>5, <3>1, <4>1, <4>2
    <3>2. CASE j = n + 1
      <4>1. i \in DOMAIN log
        BY <1>4, <3>2
      <4> QED
        BY <1>3, <1>4, <2>1, <3>2, <4>1
    <3> QED
      BY <1>5, <3>1, <3>2
  <2>5. last_request_expansion' = log'[Len(log')].at
    BY <1>3, <1>4 DEF Submitted
  <2>6. log' # <<>>
    BY <1>4
  <2> QED
    BY <2>3, <2>4, <2>5, <2>6 DEF LogOK
<1> QED
  BY <1>4, <1>5, <1>6 DEF new

(* A request of another kind is not one of a layer.                        *)
LEMMA OtherRequest ==
  ASSUME TriggerTypeOK, LogOK, NEW h \in Hs, NEW reason \in Reasons \ FrontierReasons,
         Submitted(h, reason), expansions' = expansions
  PROVE  \A k \in Hs : EarlierOfLayer(k)' = EarlierOfLayer(k)
<1>1. reason \in Reasons
  OBVIOUS
<1> DEFINE new == [h |-> h, reason |-> reason, at |-> expansions, best |-> best_h]
<1>2. /\ DOMAIN log' = DOMAIN log \cup {Len(log) + 1}
      /\ \A i \in DOMAIN log : log'[i] = log[i]
      /\ log'[Len(log) + 1] = new
  BY <1>1, SubmittedFacts
<1>3. new.reason \notin FrontierReasons
  OBVIOUS
<1> HIDE DEF new
<1> QED
  BY <1>2, <1>3 DEF EarlierOfLayer

(* Marking the representative of a layer as asked about is all that a      *)
(* request about the state just expanded does to the table.                *)
LEMMA MarkFacts ==
  ASSUME TriggerTypeOK, NEW h \in Hs
  PROVE  /\ TableType(MarkAsked(h)) /\ DOMAIN MarkAsked(h) = Tracked
         /\ \A k \in Tracked :
               /\ MarkAsked(h)[k].since_request = layers[k].since_request
               /\ MarkAsked(h)[k].inactive_streak = layers[k].inactive_streak
               /\ MarkAsked(h)[k].last_request = layers[k].last_request
<1> USE DEF TriggerTypeOK, TablesOK, TableType, Tracked
<1>1. \A k \in DOMAIN layers :
         /\ layers[k] \in LayerType
         /\ [layers[k] EXCEPT !.rep = "asked"] \in LayerType
  BY DEF LayerType
<1>2. ASSUME NEW k \in Tracked
      PROVE  MarkAsked(h)[k] = IF k = h THEN [layers[k] EXCEPT !.rep = "asked"]
                               ELSE layers[k]
  BY DEF MarkAsked
<1>3. DOMAIN MarkAsked(h) = Tracked
  BY DEF MarkAsked
<1>4. MarkAsked(h) \in [Tracked -> LayerType]
  BY <1>1 DEF MarkAsked
<1>5. \A k \in Tracked :
        /\ [layers[k] EXCEPT !.rep = "asked"].since_request = layers[k].since_request
        /\ [layers[k] EXCEPT !.rep = "asked"].inactive_streak = layers[k].inactive_streak
        /\ [layers[k] EXCEPT !.rep = "asked"].last_request = layers[k].last_request
  BY <1>1 DEF LayerType
<1> QED
  BY <1>2, <1>3, <1>4, <1>5

(* A request that leaves the layers as they are to the history leaves what *)
(* they remember of it true.                                               *)
LEMMA MarkAgrees ==
  ASSUME TriggerTypeOK, LayersOK, NEW h \in Hs, layers' = MarkAsked(h), since' = since,
         \A k \in Hs : EarlierOfLayer(k)' = EarlierOfLayer(k),
         \A i \in DOMAIN log : log'[i] = log[i]
  PROVE  LayersOK'
<1>1. /\ DOMAIN layers' = Tracked
      /\ \A k \in Tracked :
            /\ layers'[k].since_request = layers[k].since_request
            /\ layers'[k].inactive_streak = layers[k].inactive_streak
            /\ layers'[k].last_request = layers[k].last_request
  BY MarkFacts
<1>2. \A k \in Hs : \A i \in EarlierOfLayer(k) : log'[i].at = log[i].at
  BY DEF EarlierOfLayer
<1> QED
  BY <1>1, <1>2 DEF LayersOK, Agree, Tracked

----------------------------------------------------------------------------
(* The table and its history, step by step.                                *)

Tables == TablesOK /\ LayersOK

(* record_open_state may evict a layer, and counts for the one of h.       *)
LEMMA RecordOpenTables ==
  ASSUME TriggerTypeOK, LayersOK, NEW h \in Hs, RecordOpen(h)
  PROVE  Tables'
<1> USE DEF Tables
<1>1. open' \in [Hs -> Nat]
  <2>1. open \in [Hs -> Nat] /\ open' = [open EXCEPT ![h] = @ + 1]
    BY DEF RecordOpen, TriggerTypeOK, TablesOK
  <2> QED
    BY <2>1
<1>2. log' = log
  BY DEF RecordOpen
<1>3. expansions \in Nat
  BY DEF TriggerTypeOK, CountersOK
<1>4. CASE "plateau" \in Rules
  <2>1. PICK table \in TablesWith(h) :
          /\ layers' = OpenedIn(table, h)
          /\ since' = MoreOpened(Remembered(table), h)
    BY <1>4 DEF RecordOpen, OpenedIn, MoreOpened
  <2>2. TableType(table) /\ h \in DOMAIN table
    BY TablesFacts
  <2>3. Remembered(table) \in [Hs -> History] /\ Agree(table, Remembered(table))
    BY RememberedFacts
  <2>4. TableType(layers') /\ since' \in [Hs -> History] /\ Agree(layers', since')
    BY <1>3, <2>1, <2>2, <2>3, OpenedFacts
  <2> QED
    BY <1>1, <1>2, <2>4 DEF TablesOK, TableType, LayersOK, Agree, EarlierOfLayer
<1>5. CASE "plateau" \notin Rules
  <2>1. UNCHANGED <<layers, since>>
    BY <1>5 DEF RecordOpen
  <2> QED
    BY <1>1, <1>2, <2>1
       DEF TriggerTypeOK, TablesOK, TableType, LayersOK, Agree, EarlierOfLayer
<1> QED
  BY <1>4, <1>5

(* record_expanded does too, and then may close all windows.               *)
LEMMA ExpandTables ==
  ASSUME TriggerTypeOK, LayersOK, NEW h \in Hs, NEW again \in BOOLEAN, Expand(h, again)
  PROVE  Tables'
<1> USE DEF Tables
<1> DEFINE now == expansions + 1
           mark == IF again THEN "asked" ELSE "new"
           due == now - last_analysis_expansion >= AnalysisInterval
           counted(table) == ExpandedIn(table, h, now, mark)
           seen(table) == MoreExpanded(Remembered(table), h)
<1>1. open' \in [Hs -> Nat]
  <2>1. open \in [Hs -> Nat] /\ open[h] > 0 /\ open' = [open EXCEPT ![h] = @ - 1]
    BY DEF Expand, TriggerTypeOK, TablesOK
  <2>2. open[h] - 1 \in Nat
    BY <2>1
  <2> QED
    BY <2>1, <2>2
<1>2. log' = log
  BY DEF Expand
<1>3. now \in Nat /\ expansions \in Nat
  BY DEF TriggerTypeOK, CountersOK
<1>4. PICK table \in IF "plateau" \in Rules
                     THEN {counted(t) : t \in TablesWith(h)} ELSE {layers} :
         IF due
         THEN /\ layers' = [k \in DOMAIN table |-> UpdateWindow(table[k])]
              /\ since' = [k \in Hs |-> AfterAnalysis(k, table, seen(table)[k])]
         ELSE layers' = table /\ since' = seen(table)
  BY Zenon DEF Expand, ExpandedIn, MoreExpanded
<1>5. TableType(table) /\ seen(table) \in [Hs -> History] /\ Agree(table, seen(table))
  <2>1. CASE "plateau" \in Rules
    <3>1. PICK t \in TablesWith(h) : table = counted(t)
      BY <1>4, <2>1
    <3>2. TableType(t) /\ h \in DOMAIN t
      BY TablesFacts
    <3>3. Remembered(t) \in [Hs -> History] /\ Agree(t, Remembered(t))
      BY RememberedFacts
    <3>4. DOMAIN table = DOMAIN t
      BY <3>1 DEF ExpandedIn
    <3>5. Remembered(table) = Remembered(t)
      BY <3>4 DEF Remembered, Evicted
    <3>6. mark \in {"none", "new", "asked"}
      OBVIOUS
    <3> HIDE DEF mark, now
    <3> QED
      BY <1>3, <3>1, <3>2, <3>3, <3>5, <3>6, CountedFacts
  <2>2. CASE "plateau" \notin Rules
    <3>1. table = layers
      BY <1>4, <2>2
    <3>2. \A k \in Hs : since[k] \in History
      BY DEF TriggerTypeOK, TablesOK
    <3>3. Remembered(table) = since
      BY <3>1 DEF Remembered, Evicted, Tracked, TriggerTypeOK, TablesOK
    <3> DEFINE more == [since[h] EXCEPT !.expanded = @ + 1]
    <3>4. since \in [Hs -> History] /\ seen(table) = [since EXCEPT ![h] = more]
      BY <3>2, <3>3 DEF TriggerTypeOK, TablesOK, MoreExpanded
    <3>5. /\ more \in History /\ more.opened = since[h].opened
          /\ more.expanded = since[h].expanded + 1
          /\ more.quiet = since[h].quiet /\ more.forgotten = since[h].forgotten
      BY <3>2 DEF History
    <3> HIDE DEF more
    <3>6. seen(table) \in [Hs -> History]
      BY <3>4, <3>5
    <3>7. ASSUME NEW k \in Hs
          PROVE  /\ seen(table)[k].opened = since[k].opened
                 /\ since[k].expanded <= seen(table)[k].expanded
                 /\ seen(table)[k].quiet = since[k].quiet
                 /\ seen(table)[k].forgotten = since[k].forgotten
                 /\ since[k].expanded \in Nat /\ seen(table)[k].expanded \in Nat
      <4>1. since[k].expanded \in Nat /\ since[h].expanded \in Nat
        BY <3>2 DEF History
      <4>2. seen(table)[k] = IF k = h THEN more ELSE since[k]
        BY <3>4
      <4> QED
        BY <3>5, <4>1, <4>2
    <3>8. TableType(layers)
      BY DEF TriggerTypeOK, TablesOK
    <3>9. \A k \in DOMAIN layers : layers[k].since_request.expanded \in Nat
      BY <3>8 DEF TableType, LayerType, Window
    <3> HIDE DEF seen
    <3>10. ASSUME NEW k \in Hs
           PROVE  /\ k \in DOMAIN layers =>
                       /\ layers[k].since_request.opened <= seen(table)[k].opened
                       /\ layers[k].since_request.expanded <= seen(table)[k].expanded
                       /\ layers[k].inactive_streak <= seen(table)[k].quiet
                  /\ ~seen(table)[k].forgotten => ~since[k].forgotten
      BY <3>7, <3>9 DEF LayersOK, Agree
    <3> QED
      BY <3>1, <3>6, <3>8, <3>10 DEF LayersOK, Agree
  <2> QED
    BY <2>1, <2>2
<1> HIDE DEF seen, counted, now
<1>6. TableType(layers') /\ since' \in [Hs -> History] /\ Agree(layers', since')
  <2>1. CASE due
    BY <1>3, <1>4, <1>5, <2>1, AnalysisFacts
  <2>2. CASE ~due
    BY <1>4, <1>5, <2>2
  <2> QED
    BY <2>1, <2>2
<1> QED
  BY <1>1, <1>2, <1>6 DEF TablesOK, TableType, LayersOK, Agree, EarlierOfLayer

(* A request for a layer is remembered by the layer with its time.         *)
LEMMA ConsiderTables ==
  ASSUME TriggerTypeOK, LogOK, SlotOK, LayersOK, NEW h \in Hs, ConsiderLayer(h)
  PROVE  Tables'
<1> USE DEF Tables
<1>1. h \in Tracked /\ UNCHANGED <<open, expansions>> /\ expansions \in Nat
  BY DEF ConsiderLayer, BestCandidate, SlotOK, envVars, TriggerTypeOK, CountersOK
<1>2. TableType(layers) /\ since \in [Hs -> History] /\ open \in [Hs -> Nat]
  BY DEF TriggerTypeOK, TablesOK
<1>3. CASE UNCHANGED <<log, layers, since>>
  BY <1>1, <1>2, <1>3 DEF TablesOK, TableType, LayersOK, Agree, EarlierOfLayer
<1>4. CASE /\ Submitted(h, PlateauReason)
           /\ layers' = [layers EXCEPT ![h] = Requested(@)]
           /\ since' = [since EXCEPT ![h] = [NothingSince EXCEPT !.quiet = since[h].quiet]]
  <2>1. PlateauReason \in Reasons
    BY DEF PlateauReason, Reasons, FrontierReasons
  <2>2. /\ \A i \in DOMAIN log : log'[i] = log[i]
        /\ DOMAIN log' = DOMAIN log \cup {Len(log) + 1}
        /\ log'[Len(log) + 1].h = h /\ log'[Len(log) + 1].at = expansions
    <3>1. expansions' = expansions
      BY <1>1
    <3>2. /\ \A i \in DOMAIN log : log'[i] = log[i]
          /\ DOMAIN log' = DOMAIN log \cup {Len(log) + 1}
          /\ log'[Len(log) + 1] = [h |-> h, reason |-> PlateauReason,
                                   at |-> expansions, best |-> best_h]
      BY <1>4, <2>1, <3>1, SubmittedFacts
    <3> QED
      BY <3>2
  <2>3. layers[h] \in LayerType /\ since[h] \in History
    BY <1>1, <1>2 DEF TableType, Tracked
  <2>4. /\ Requested(layers[h]) \in LayerType
        /\ Requested(layers[h]).since_request = NoWindow
        /\ Requested(layers[h]).inactive_streak = layers[h].inactive_streak
        /\ Requested(layers[h]).last_request = expansions
    BY <1>1, <2>3 DEF Requested, LayerType, NoWindow, Window, Time
  <2>5. [NothingSince EXCEPT !.quiet = since[h].quiet] \in History
    BY <2>3 DEF NothingSince, History
  <2>6. \A k \in Hs \ {h} : since'[k] = since[k]
    BY <1>2, <1>4
  <2>7. \A k \in Tracked \ {h} : layers'[k] = layers[k]
    BY <1>2, <1>4 DEF TableType, Tracked
  <2>8. /\ layers'[h] = Requested(layers[h]) /\ DOMAIN layers' = Tracked
        /\ since'[h] = [NothingSince EXCEPT !.quiet = since[h].quiet]
    BY <1>1, <1>2, <1>4 DEF TableType, Tracked
  <2>9. TablesOK'
    <3>1. layers' \in [Tracked -> LayerType]
      BY <1>2, <1>4, <2>4 DEF TableType, Tracked
    <3>2. since' \in [Hs -> History]
      BY <1>2, <1>4, <2>5
    <3> QED
      BY <1>1, <1>2, <2>8, <3>1, <3>2 DEF TablesOK, TableType, Tracked
  <2>10. ASSUME NEW k \in Hs, k # h, NEW i \in EarlierOfLayer(k)'
         PROVE  i \in EarlierOfLayer(k) /\ log'[i].at = log[i].at
    BY <2>2, <2>10 DEF EarlierOfLayer
  <2>11. ASSUME NEW k \in Hs
         PROVE  /\ k \in DOMAIN layers' =>
                     /\ layers'[k].since_request.opened <= since'[k].opened
                     /\ layers'[k].since_request.expanded <= since'[k].expanded
                     /\ layers'[k].inactive_streak <= since'[k].quiet
                /\ ~since'[k].forgotten => \A i \in EarlierOfLayer(k)' :
                     k \in DOMAIN layers' /\ log'[i].at <= layers'[k].last_request
    <3>1. CASE k = h
      <4>1. /\ since'[h].opened = 0 /\ since'[h].expanded = 0
            /\ since'[h].quiet = since[h].quiet
        BY <2>8 DEF NothingSince
      <4>2. layers[h].inactive_streak <= since[h].quiet
        BY <1>1 DEF LayersOK, Agree, Tracked
      <4>3. \A i \in DOMAIN log' : log'[i].at <= expansions
        <5>1. \A i \in DOMAIN log : log'[i].at <= expansions
          BY <2>2 DEF LogOK
        <5> QED
          BY <1>1, <2>2, <5>1
      <4>4. layers'[h].last_request = expansions /\ h \in DOMAIN layers'
        BY <1>1, <2>4, <2>8
      <4>5. \A i \in EarlierOfLayer(h)' :
               h \in DOMAIN layers' /\ log'[i].at <= layers'[h].last_request
        BY <4>3, <4>4 DEF EarlierOfLayer
      <4>6. /\ layers'[h].since_request.opened <= since'[h].opened
            /\ layers'[h].since_request.expanded <= since'[h].expanded
            /\ layers'[h].inactive_streak <= since'[h].quiet
        BY <2>4, <2>8, <4>1, <4>2 DEF NoWindow
      <4> QED
        BY <3>1, <4>5, <4>6
    <3>2. CASE k # h
      BY <2>6, <2>7, <2>8, <2>10, <3>2 DEF LayersOK, Agree, Tracked
    <3> QED
      BY <3>1, <3>2
  <2> QED
    BY <2>9, <2>11 DEF LayersOK, Agree
<1> QED
  BY <1>3, <1>4 DEF ConsiderLayer, Refused

(* The other steps leave the history of the layers alone.                  *)
LEMMA TablesNext ==
  TriggerTypeOK /\ LogOK /\ SlotOK /\ LayersOK /\ [Next]_vars => Tables'
<1> SUFFICES ASSUME TriggerTypeOK, LogOK, SlotOK, LayersOK, [Next]_vars
             PROVE  Tables'
  OBVIOUS
<1>1. ASSUME NEW h \in Hs, NEW reason \in Reasons \ FrontierReasons,
             Submitted(h, reason), layers' = MarkAsked(h),
             UNCHANGED <<expansions, envVars, since>>
      PROVE  Tables'
  <2>1. \A k \in Hs : EarlierOfLayer(k)' = EarlierOfLayer(k)
    BY <1>1, OtherRequest
  <2>2. reason \in Reasons /\ expansions' = expansions
    BY <1>1
  <2>3. \A i \in DOMAIN log : log'[i] = log[i]
    BY <1>1, <2>2, SubmittedFacts
  <2>4. LayersOK'
    BY <1>1, <2>1, <2>3, MarkAgrees
  <2>5. TablesOK'
    BY <1>1, MarkFacts DEF TriggerTypeOK, TablesOK, TableType, envVars, Tracked
  <2> QED
    BY <2>4, <2>5 DEF Tables
<1>2. CASE UNCHANGED <<log, layers, since, open>>
  BY <1>2 DEF Tables, TriggerTypeOK, TablesOK, TableType, LayersOK, Agree, EarlierOfLayer
<1>3. ASSUME NEW h \in Hs, RecordOpen(h) PROVE Tables'
  BY <1>3, RecordOpenTables
<1>4. ASSUME NEW h \in Hs, NEW again \in BOOLEAN, Expand(h, again) PROVE Tables'
  BY <1>4, ExpandTables
<1>5. ASSUME NEW h \in Hs, ConsiderLayer(h) PROVE Tables'
  BY <1>5, ConsiderTables
<1>6. {"stall", "ancestor"} \subseteq Reasons \ FrontierReasons /\ cur.h \in Hs
  BY DEF Reasons, FrontierReasons, StallReasons, TriggerTypeOK, FlagsOK
<1>7. CASE EndSlot
  BY <1>1, <1>2, <1>6, <1>7 DEF EndSlot, Refused, envVars
<1>8. CASE CheckAncestor
  BY <1>1, <1>2, <1>6, <1>8 DEF CheckAncestor, Refused, envVars
<1>9. CASE PollBridge \/ Finished \/ UNCHANGED vars
  BY <1>2, <1>9 DEF PollBridge, Finished, vars, monitorVars, envVars
<1> QED
  BY <1>3, <1>4, <1>5, <1>7, <1>8, <1>9 DEF Next

----------------------------------------------------------------------------
(* Types, and the order of the log.                                        *)

(* Every counter stays a number and every flag a flag.                     *)
LEMMA CountersNext ==
  TriggerTypeOK /\ [Next]_vars => CountersOK' /\ FlagsOK'
<1> SUFFICES ASSUME TriggerTypeOK, [Next]_vars PROVE CountersOK' /\ FlagsOK'
  OBVIOUS
<1>1. CountersOK'
  <2> USE DEF TriggerTypeOK, CountersOK
  <2>1. ASSUME NEW h \in Hs, NEW reason, Submitted(h, reason)
        PROVE  /\ requests_submitted' \in Nat /\ pending' \in Nat
               /\ last_request_expansion' \in Time
    BY <2>1 DEF Submitted, Time
  <2>2. cur.h \in Hs
    BY DEF FlagsOK
  <2>3. ASSUME NEW h \in Hs, RecordOpen(h) PROVE CountersOK'
    <3>1. UNCHANGED <<expansions, last_analysis_expansion, considered, submitted,
                      last_ancestor_check_expansion, last_request_expansion,
                      requests_submitted, pending>>
      BY <2>3 DEF RecordOpen, slotVars
    <3>2. opened_states' = opened_states + 1
      BY <2>3 DEF RecordOpen
    <3>3. /\ best_h' \in {h, best_h}
          /\ expansions_since_best_h' \in {0, expansions_since_best_h}
      BY <2>3 DEF RecordOpen
    <3> QED
      BY <3>1, <3>2, <3>3
  <2>4. ASSUME NEW h \in Hs, NEW again \in BOOLEAN, Expand(h, again) PROVE CountersOK'
    <3>1. UNCHANGED <<last_ancestor_check_expansion, last_request_expansion, best_h,
                      requests_submitted, pending, opened_states>>
      BY <2>4 DEF Expand
    <3>2. /\ expansions' = expansions + 1 /\ considered' = 0 /\ submitted' = 0
          /\ expansions_since_best_h' = expansions_since_best_h + 1
      BY <2>4 DEF Expand
    <3>3. last_analysis_expansion' \in {expansions + 1, last_analysis_expansion}
      BY <2>4 DEF Expand
    <3> QED
      BY <3>1, <3>2, <3>3
  <2>5. ASSUME NEW h \in Hs, ConsiderLayer(h) PROVE CountersOK'
    <3>1. UNCHANGED <<expansions, expansions_since_best_h, last_analysis_expansion,
                      last_ancestor_check_expansion, best_h, opened_states>>
      BY <2>5 DEF ConsiderLayer, envVars
    <3>2. considered' = considered + 1 /\ submitted' \in {submitted, submitted + 1}
      BY <2>5 DEF ConsiderLayer
    <3>3. \/ Submitted(h, PlateauReason)
          \/ UNCHANGED <<requests_submitted, last_request_expansion, pending>>
      BY <2>5 DEF ConsiderLayer, Refused
    <3>4. /\ requests_submitted' \in Nat /\ pending' \in Nat
          /\ last_request_expansion' \in Time
      BY <2>1, <3>3
    <3> QED
      BY <3>1, <3>2, <3>4
  <2>6. CASE EndSlot
    <3>1. /\ UNCHANGED <<expansions, expansions_since_best_h, last_analysis_expansion,
                         last_ancestor_check_expansion, best_h, opened_states>>
          /\ considered' = 0 /\ submitted' = 0
      BY <2>6 DEF EndSlot, envVars
    <3>2. /\ requests_submitted' \in Nat /\ pending' \in Nat
          /\ last_request_expansion' \in Time
      BY <2>1, <2>2, <2>6 DEF EndSlot, Refused
    <3> QED
      BY <3>1, <3>2
  <2>7. CASE CheckAncestor
    <3>1. /\ UNCHANGED <<expansions, expansions_since_best_h, last_analysis_expansion,
                         best_h, opened_states, considered, submitted>>
          /\ last_ancestor_check_expansion' \in {expansions, last_ancestor_check_expansion}
      BY <2>7 DEF CheckAncestor, envVars
    <3>2. /\ requests_submitted' \in Nat /\ pending' \in Nat
          /\ last_request_expansion' \in Time
      BY <2>1, <2>2, <2>7 DEF CheckAncestor, Refused
    <3> QED
      BY <3>1, <3>2
  <2>8. CASE PollBridge
    BY <2>8 DEF PollBridge, slotVars, envVars
  <2>9. CASE Finished \/ UNCHANGED vars
    BY <2>9 DEF Finished, vars, monitorVars, slotVars, envVars
  <2> QED
    BY <2>3, <2>4, <2>5, <2>6, <2>7, <2>8, <2>9 DEF Next
<1>2. FlagsOK'
  <2> USE DEF FlagsOK
  <2>0. FlagsOK
    BY DEF TriggerTypeOK
  <2>1. ASSUME NEW h \in Hs, RecordOpen(h) PROVE FlagsOK'
    BY <2>0, <2>1, Zenon DEF RecordOpen, slotVars
  <2>2. ASSUME NEW h \in Hs, NEW again \in BOOLEAN, Expand(h, again) PROVE FlagsOK'
    <3>1. /\ cur' = [h |-> h, asked |-> again]
          /\ global_stall_requested' = global_stall_requested
      BY <2>2, Zenon DEF Expand
    <3>2. pc' \in {"slot", "ancestor"}
      BY <2>2, Zenon DEF Expand
    <3>3. stall' \in BOOLEAN
      BY <2>2, Zenon DEF Expand
    <3> QED
      BY <2>0, <3>1, <3>2, <3>3, Zenon
  <2>3. ASSUME NEW h \in Hs, ConsiderLayer(h) PROVE FlagsOK'
    <3>1. UNCHANGED <<global_stall_requested, pc, stall>>
      BY <2>3, Zenon DEF ConsiderLayer
    <3>2. \/ cur' = [cur EXCEPT !.asked = @ \/ cur.h = h] \/ cur' = cur
      BY <2>3, Zenon DEF ConsiderLayer
    <3>3. (cur.asked \/ cur.h = h) \in BOOLEAN
      OBVIOUS
    <3> QED
      BY <2>0, <3>1, <3>2, <3>3, Zenon
  <2>4. [cur EXCEPT !.asked = TRUE] \in [h : Hs, asked : BOOLEAN]
    BY <2>0
  <2>5. CASE EndSlot
    <3>1. pc' = "ancestor" /\ stall' = FALSE
      BY <2>5 DEF EndSlot
    <3>2. cur' = [cur EXCEPT !.asked = TRUE] \/ cur' = cur
      BY <2>5 DEF EndSlot
    <3>3. global_stall_requested' \in BOOLEAN
      BY <2>5, Zenon DEF EndSlot
    <3> QED
      BY <2>0, <2>4, <3>1, <3>2, <3>3, Zenon
  <2>6. CASE CheckAncestor
    <3>1. pc' = "search" /\ UNCHANGED <<stall, global_stall_requested>>
      BY <2>6 DEF CheckAncestor
    <3>2. cur' = [cur EXCEPT !.asked = TRUE] \/ cur' = cur
      BY <2>6 DEF CheckAncestor
    <3> QED
      BY <2>0, <2>4, <3>1, <3>2, Zenon
  <2>7. CASE PollBridge \/ Finished \/ UNCHANGED vars
    BY <2>0, <2>7, Zenon DEF PollBridge, Finished, vars, monitorVars, slotVars
  <2> QED
    BY <2>1, <2>2, <2>3, <2>5, <2>6, <2>7 DEF Next
<1> QED
  BY <1>1, <1>2

(* What a step does to the log: nothing, or one request of the current     *)
(* expansion.                                                              *)
LEMMA LogMoves ==
  ASSUME TriggerTypeOK, [Next]_vars
  PROVE  \/ UNCHANGED <<log, last_request_expansion>> /\ expansions' >= expansions
         \/ \E h \in Hs, reason \in Reasons :
               Submitted(h, reason) /\ expansions' = expansions
<1>1. cur.h \in Hs /\ {"stall", "ancestor", PlateauReason} \subseteq Reasons
  BY DEF TriggerTypeOK, FlagsOK, Reasons, FrontierReasons, StallReasons, PlateauReason
<1>2. expansions \in Nat
  BY DEF TriggerTypeOK, CountersOK
<1>3. ASSUME NEW h \in Hs, RecordOpen(h)
      PROVE  UNCHANGED <<log, last_request_expansion, expansions>>
  BY <1>3 DEF RecordOpen
<1>4. ASSUME NEW h \in Hs, NEW again \in BOOLEAN, Expand(h, again)
      PROVE  UNCHANGED <<log, last_request_expansion>> /\ expansions' = expansions + 1
  BY <1>4 DEF Expand
<1>5. ASSUME NEW h \in Hs, ConsiderLayer(h)
      PROVE  /\ expansions' = expansions
             /\ Submitted(h, PlateauReason) \/ UNCHANGED <<log, last_request_expansion>>
  BY <1>5 DEF ConsiderLayer, Refused
<1>6. CASE EndSlot
  <2>1. /\ expansions' = expansions
        /\ Submitted(cur.h, "stall") \/ UNCHANGED <<log, last_request_expansion>>
    BY <1>6 DEF EndSlot, Refused
  <2> QED
    BY <1>1, <1>2, <2>1
<1>7. CASE CheckAncestor
  <2>1. /\ expansions' = expansions
        /\ Submitted(cur.h, "ancestor") \/ UNCHANGED <<log, last_request_expansion>>
    BY <1>7 DEF CheckAncestor, Refused
  <2> QED
    BY <1>1, <1>2, <2>1
<1>8. CASE PollBridge \/ Finished \/ UNCHANGED vars
  BY <1>2, <1>8 DEF PollBridge, Finished, vars, monitorVars
<1> QED
  BY <1>1, <1>2, <1>3, <1>4, <1>5, <1>6, <1>7, <1>8 DEF Next

(* The log stays a log of requests, in the order they were made.           *)
LEMMA LogNext ==
  TriggerTypeOK /\ LogOK /\ [Next]_vars => LogOK' /\ log' \in Seq(Request)
<1> SUFFICES ASSUME TriggerTypeOK, LogOK, [Next]_vars PROVE LogOK' /\ log' \in Seq(Request)
  OBVIOUS
<1>1. CASE UNCHANGED <<log, last_request_expansion>> /\ expansions' >= expansions
  <2>1. expansions \in Nat /\ expansions' \in Nat /\ log \in Seq(Request)
    BY CountersNext DEF TriggerTypeOK, CountersOK
  <2>2. \A i \in DOMAIN log : log[i].at \in Nat /\ log[i].at <= expansions
    <3>1. \A i \in DOMAIN log : log[i] \in Request
      BY <2>1
    <3> QED
      BY <3>1 DEF Request, LogOK
  <2>3. \A i \in DOMAIN log' : log'[i].at <= expansions'
    BY <1>1, <2>1, <2>2
  <2> QED
    BY <1>1, <2>1, <2>3 DEF LogOK
<1>2. CASE \E h \in Hs, reason \in Reasons :
              Submitted(h, reason) /\ expansions' = expansions
  BY <1>2, SubmittedFacts
<1> QED
  BY <1>1, <1>2, LogMoves

----------------------------------------------------------------------------
(* The spacing.                                                            *)

(* The requests of one expansion are finitely many.                        *)
LEMMA AskedFinite ==
  ASSUME TriggerTypeOK, NEW now
  PROVE  IsFiniteSet(AskedAt(now)) /\ Cardinality(AskedAt(now)) \in Nat
<1>1. DOMAIN log = 1..Len(log) /\ Len(log) \in Nat
  BY DEF TriggerTypeOK
<1>2. IsFiniteSet(1..Len(log))
  BY <1>1, FS_Interval
<1>3. AskedAt(now) \subseteq 1..Len(log)
  BY <1>1 DEF AskedAt
<1>4. IsFiniteSet(AskedAt(now))
  BY <1>2, <1>3, FS_Subset
<1> QED
  BY <1>4, FS_CardinalityType

(* A submitted request adds one to those of its expansion.                 *)
LEMMA OneMore ==
  ASSUME TriggerTypeOK, LogOK, NEW h \in Hs, NEW reason \in Reasons,
         Submitted(h, reason), expansions' = expansions
  PROVE  /\ Cardinality(AskedAt(expansions)') = Cardinality(AskedAt(expansions)) + 1
         /\ \A now \in Nat \ {expansions} : AskedAt(now)' = AskedAt(now)
<1> DEFINE new == [h |-> h, reason |-> reason, at |-> expansions, best |-> best_h]
           n == Len(log)
<1>1. /\ DOMAIN log' = DOMAIN log \cup {n + 1} /\ n + 1 \notin DOMAIN log
      /\ \A i \in DOMAIN log : log'[i] = log[i]
      /\ log'[n + 1] = new
  BY SubmittedFacts
<1>2. new.at = expansions
  OBVIOUS
<1> HIDE DEF new, n
<1>3. AskedAt(expansions)' = AskedAt(expansions) \cup {n + 1}
  BY <1>1, <1>2 DEF AskedAt
<1>4. n + 1 \notin AskedAt(expansions)
  BY <1>1 DEF AskedAt
<1>5. Cardinality(AskedAt(expansions) \cup {n + 1}) = Cardinality(AskedAt(expansions)) + 1
  BY <1>4, AskedFinite, FS_AddElement
<1>6. \A now \in Nat \ {expansions} : AskedAt(now)' = AskedAt(now)
  BY <1>1, <1>2 DEF AskedAt
<1> QED
  BY <1>3, <1>5, <1>6

(* A slot counts its requests.                                             *)
LEMMA SlotNext ==
  TriggerTypeOK /\ LogOK /\ SlotOK /\ TriggerTypeOK' /\ [Next]_vars => SlotOK'
<1> SUFFICES ASSUME TriggerTypeOK, LogOK, SlotOK, TriggerTypeOK', [Next]_vars
             PROVE  SlotOK'
  OBVIOUS
<1>0. /\ expansions \in Nat /\ submitted \in Nat
      /\ RequestsPerSlot \in Nat \ {0}
  BY TriggerAssumption DEF TriggerTypeOK, CountersOK
<1>1. ASSUME pc' # "slot", waiting' = {}, submitted' = 0, ~stall'
      PROVE  SlotOK'
  BY <1>1 DEF SlotOK
<1>2. ASSUME NEW h \in Hs, RecordOpen(h) PROVE SlotOK'
  BY <1>1, <1>2 DEF RecordOpen, slotVars, SlotOK
<1>3. ASSUME NEW h \in Hs, NEW again \in BOOLEAN, Expand(h, again) PROVE SlotOK'
  <2> DEFINE now == expansions + 1
             due == now - last_analysis_expansion >= AnalysisInterval
             skipped == ReachedRequestLimit \/ SpacingActiveAt(now)
  <2>1. /\ expansions' = now /\ submitted' = 0 /\ UNCHANGED log
        /\ waiting' = IF due /\ ~skipped THEN EligibleLayers(layers', now) ELSE {}
        /\ pc' = IF due /\ ~skipped THEN "slot" ELSE "ancestor"
        /\ stall' = (due /\ ~skipped /\ GlobalStallEligible(expansions_since_best_h + 1))
    BY <1>3, Zenon DEF Expand
  <2> HIDE DEF due, skipped
  <2>2. \A h2 \in waiting' : h2 \in Tracked' /\ Eligible(layers'[h2], expansions')
    BY <2>1 DEF EligibleLayers, Tracked
  <2>3. AskedAt(expansions)' = {}
    <3>1. \A i \in DOMAIN log : log[i].at <= expansions
      BY DEF LogOK
    <3>2. \A i \in DOMAIN log : log[i] \in Request
      BY DEF TriggerTypeOK
    <3>3. \A i \in DOMAIN log : log[i].at # now
      BY <1>0, <3>1, <3>2 DEF Request
    <3> QED
      BY <2>1, <3>3 DEF AskedAt
  <2>4. Cardinality(AskedAt(expansions)') = 0
    BY <2>3, FS_EmptySet
  <2>5. Cardinality(AskedAt(expansions))' = submitted' /\ submitted' <= RequestsPerSlot
    BY <1>0, <2>1, <2>4
  <2>6. pc' # "slot" => waiting' = {} /\ submitted' = 0 /\ ~stall'
    BY <2>1, Zenon
  <2> QED
    BY <2>2, <2>5, <2>6 DEF SlotOK
<1>4. ASSUME NEW h \in Hs, ConsiderLayer(h) PROVE SlotOK'
  <2>1. /\ pc = "slot" /\ pc' = "slot" /\ waiting' = waiting \ {h} /\ h \in waiting
        /\ expansions' = expansions /\ submitted < RequestsPerSlot
    BY <1>4 DEF ConsiderLayer, MoreCandidates, BestCandidate
  <2>2. /\ Cardinality(AskedAt(expansions)) = submitted
        /\ \A k \in waiting : k \in Tracked /\ Eligible(layers[k], expansions)
    BY <2>1 DEF SlotOK
  <2>3. CASE Submitted(h, PlateauReason) /\ submitted' = submitted + 1
             /\ layers' = [layers EXCEPT ![h] = Requested(@)]
    <3>1. PlateauReason \in Reasons
      BY DEF PlateauReason, Reasons, FrontierReasons
    <3>2. Cardinality(AskedAt(expansions)') = submitted + 1
      BY <2>1, <2>2, <2>3, <3>1, OneMore
    <3>3. /\ Cardinality(AskedAt(expansions))' = submitted'
          /\ submitted' <= RequestsPerSlot
      BY <1>0, <2>1, <2>3, <3>2
    <3>4. ASSUME NEW k \in waiting'
          PROVE  k \in Tracked' /\ Eligible(layers'[k], expansions')
      <4>1. k \in waiting /\ k # h
        BY <2>1
      <4>2. layers'[k] = layers[k] /\ k \in Tracked'
        BY <2>2, <2>3, <4>1 DEF TriggerTypeOK, TablesOK, TableType, Tracked
      <4> QED
        BY <2>1, <2>2, <4>1, <4>2
    <3> QED
      BY <2>1, <3>3, <3>4 DEF SlotOK
  <2>4. CASE UNCHANGED <<log, submitted, layers>>
    <3>1. AskedAt(expansions)' = AskedAt(expansions)
      BY <2>1, <2>4 DEF AskedAt
    <3> QED
      BY <1>0, <2>1, <2>2, <2>4, <3>1 DEF SlotOK, Tracked
  <2> QED
    BY <1>4, <2>3, <2>4 DEF ConsiderLayer, Refused
<1>5. CASE EndSlot
  BY <1>1, <1>5 DEF EndSlot
<1>6. CASE CheckAncestor
  <2>1. pc = "ancestor" /\ pc' = "search" /\ UNCHANGED <<waiting, submitted, stall>>
    BY <1>6 DEF CheckAncestor
  <2> QED
    BY <1>1, <2>1 DEF SlotOK
<1>7. CASE PollBridge
  <2>1. pc = "search" /\ UNCHANGED <<pc, waiting, submitted, stall>>
    BY <1>7 DEF PollBridge, slotVars
  <2> QED
    BY <1>1, <2>1 DEF SlotOK
<1>8. CASE Finished \/ UNCHANGED vars
  BY <1>8 DEF Finished, vars, monitorVars, slotVars, SlotOK, AskedAt, Tracked
<1> QED
  BY <1>2, <1>3, <1>4, <1>5, <1>6, <1>7, <1>8 DEF Next

(* A request at its distance from all others, in a slot with room for it,  *)
(* keeps the spacing.                                                      *)
LEMMA SpacingStep ==
  ASSUME TriggerTypeOK, LogOK, SharedSpacing, MinGap > 0,
         NEW h \in Hs, NEW reason \in Reasons,
         Submitted(h, reason), expansions' = expansions,
         \A i \in DOMAIN log : log[i].at = expansions \/ expansions - log[i].at >= MinGap,
         Cardinality(AskedAt(expansions)) + 1 <= RequestsPerSlot
  PROVE  SharedSpacing'
<1> DEFINE n == Len(log)
           new == [h |-> h, reason |-> reason, at |-> expansions, best |-> best_h]
<1>1. /\ DOMAIN log' = DOMAIN log \cup {n + 1} /\ DOMAIN log = 1..n /\ n \in Nat
      /\ \A i \in DOMAIN log : log'[i] = log[i]
      /\ log'[n + 1] = new
  <2>1. DOMAIN log = 1..n /\ n \in Nat
    BY DEF TriggerTypeOK
  <2> QED
    BY <2>1, SubmittedFacts
<1>2. log'[n + 1].at = expansions
  BY <1>1
<1>3. \A i \in DOMAIN log : log[i].at \in Nat
  <2>1. \A i \in DOMAIN log : log[i] \in Request
    BY DEF TriggerTypeOK
  <2> QED
    BY <2>1 DEF Request
<1> HIDE DEF new
<1>4. ASSUME NEW j \in DOMAIN log'
      PROVE  /\ \A i \in 1..(j - 1) :
                   log'[i].at = log'[j].at \/ log'[j].at - log'[i].at >= MinGap
             /\ Cardinality({i \in DOMAIN log' : log'[i].at = log'[j].at})
                   <= RequestsPerSlot
  <2>1. {i \in DOMAIN log' : log'[i].at = log'[j].at} = AskedAt(log[j].at)'
        \/ j = n + 1
    BY <1>1 DEF AskedAt
  <2>2. CASE j = n + 1
    <3>1. {i \in DOMAIN log' : log'[i].at = log'[j].at} = AskedAt(expansions)'
      BY <1>2, <2>2 DEF AskedAt
    <3>2. \A i \in 1..(j - 1) : i \in DOMAIN log
      BY <1>1, <2>2
    <3> QED
      BY <1>1, <1>2, <2>2, <3>1, <3>2, OneMore
  <2>3. CASE j \in DOMAIN log
    <3>1. \A i \in 1..(j - 1) : i \in DOMAIN log
      BY <1>1, <2>3
    <3>2. \A i \in 1..(j - 1) : log[i].at = log[j].at \/ log[j].at - log[i].at >= MinGap
      BY <2>3 DEF SharedSpacing
    <3>3. Cardinality({i \in DOMAIN log' : log'[i].at = log'[j].at}) <= RequestsPerSlot
      <4>1. CASE log[j].at = expansions
        <5>1. {i \in DOMAIN log' : log'[i].at = log'[j].at} = AskedAt(expansions)'
          BY <1>1, <2>3, <4>1 DEF AskedAt
        <5> QED
          BY <5>1, OneMore
      <4>2. CASE log[j].at # expansions
        <5>1. {i \in DOMAIN log' : log'[i].at = log'[j].at}
                 = {i \in DOMAIN log : log[i].at = log[j].at}
          BY <1>1, <1>2, <2>3, <4>2
        <5>2. Cardinality({i \in DOMAIN log : log[i].at = log[j].at}) <= RequestsPerSlot
          BY <2>3 DEF SharedSpacing
        <5> QED
          BY <5>1, <5>2
      <4> QED
        BY <4>1, <4>2
    <3> QED
      BY <1>1, <2>3, <3>1, <3>2, <3>3
  <2> QED
    BY <1>1, <2>2, <2>3
<1> QED
  BY <1>4 DEF SharedSpacing

(* A request that obeys the spacing is at its distance from all others, as *)
(* the last of them is the latest.                                         *)
LEMMA SpacedRequest ==
  ASSUME TriggerTypeOK, LogOK, SharedSpacing,
         NEW h \in Hs, NEW reason \in Reasons, NEW asked,
         MaySubmit(asked, FALSE), Submitted(h, reason), expansions' = expansions
  PROVE  SharedSpacing'
<1> SUFFICES ASSUME MinGap > 0 PROVE SharedSpacing'
  BY DEF SharedSpacing
<1>0. /\ MinGap \in Nat /\ RequestsPerSlot \in Nat \ {0} /\ expansions \in Nat
      /\ last_request_expansion \in Time
  BY TriggerAssumption DEF TriggerTypeOK, CountersOK
<1>1. last_request_expansion < 0 \/ expansions - last_request_expansion >= MinGap
  BY <1>0 DEF MaySubmit, SpacingActive, SpacingActiveAt, Time
<1>2. \A i \in DOMAIN log : log[i].at \in Nat
  <2>1. \A i \in DOMAIN log : log[i] \in Request
    BY DEF TriggerTypeOK
  <2> QED
    BY <2>1 DEF Request
<1>3. ASSUME NEW i \in DOMAIN log
      PROVE  expansions - log[i].at >= MinGap
  <2>1. DOMAIN log = 1..Len(log) /\ Len(log) \in Nat /\ log # <<>>
    BY DEF TriggerTypeOK
  <2>2. last_request_expansion = log[Len(log)].at /\ Len(log) \in DOMAIN log
    BY <2>1 DEF LogOK
  <2>3. log[i].at <= log[Len(log)].at
    <3>1. CASE i = Len(log)
      BY <1>2, <3>1
    <3>2. CASE i # Len(log)
      <4>1. i \in 1..(Len(log) - 1)
        BY <2>1, <3>2
      <4> QED
        BY <2>2, <4>1 DEF LogOK
    <3> QED
      BY <3>1, <3>2
  <2> QED
    BY <1>0, <1>1, <1>2, <2>2, <2>3
<1>4. AskedAt(expansions) = {}
  BY <1>0, <1>2, <1>3 DEF AskedAt
<1>5. Cardinality(AskedAt(expansions)) = 0
  BY <1>4, FS_EmptySet
<1>6. Cardinality(AskedAt(expansions)) + 1 <= RequestsPerSlot
  BY <1>0, <1>5
<1> QED
  BY <1>3, <1>6, SpacingStep

(* A later request of a slot is at the distance of the first.              *)
LEMMA BypassingRequest ==
  ASSUME TriggerTypeOK, LogOK, SlotOK, SharedSpacing, pc = "slot",
         submitted > 0, submitted < RequestsPerSlot,
         NEW h \in Hs, NEW reason \in Reasons,
         Submitted(h, reason), expansions' = expansions
  PROVE  SharedSpacing'
<1> SUFFICES ASSUME MinGap > 0 PROVE SharedSpacing'
  BY DEF SharedSpacing
<1>0. /\ MinGap \in Nat /\ RequestsPerSlot \in Nat \ {0}
      /\ expansions \in Nat /\ submitted \in Nat
  BY TriggerAssumption DEF TriggerTypeOK, CountersOK
<1>1. Cardinality(AskedAt(expansions)) = submitted
  BY DEF SlotOK
<1>2. AskedAt(expansions) # {}
  BY <1>0, <1>1, FS_EmptySet
<1>3. PICK j \in DOMAIN log : log[j].at = expansions
  BY <1>2 DEF AskedAt
<1>4. ASSUME NEW i \in DOMAIN log
      PROVE  log[i].at = expansions \/ expansions - log[i].at >= MinGap
  <2>1. DOMAIN log = 1..Len(log) /\ Len(log) \in Nat
    BY DEF TriggerTypeOK
  <2>2. CASE i \in 1..(j - 1)
    BY <1>3, <2>2 DEF SharedSpacing
  <2>3. CASE j \in 1..(i - 1)
    <3>1. log[i].at \in Nat
      <4>1. log[i] \in Request
        BY DEF TriggerTypeOK
      <4> QED
        BY <4>1 DEF Request
    <3>2. log[j].at <= log[i].at /\ log[i].at <= expansions
      BY <2>3 DEF LogOK
    <3> QED
      BY <1>0, <1>3, <3>1, <3>2
  <2>4. CASE i = j
    BY <1>3, <2>4
  <2> QED
    BY <2>1, <2>2, <2>3, <2>4
<1>5. Cardinality(AskedAt(expansions)) + 1 <= RequestsPerSlot
  BY <1>0, <1>1
<1> QED
  BY <1>4, <1>5, SpacingStep

(* Every request is of one of these two kinds.                             *)
LEMMA SpacingNext ==
  TriggerTypeOK /\ LogOK /\ SlotOK /\ SharedSpacing /\ [Next]_vars => SharedSpacing'
<1> SUFFICES ASSUME TriggerTypeOK, LogOK, SlotOK, SharedSpacing, [Next]_vars
             PROVE  SharedSpacing'
  OBVIOUS
<1>1. cur.h \in Hs /\ {"stall", "ancestor", PlateauReason} \subseteq Reasons
  BY DEF TriggerTypeOK, FlagsOK, Reasons, FrontierReasons, StallReasons, PlateauReason
<1>2. ASSUME UNCHANGED log PROVE SharedSpacing'
  BY <1>2 DEF SharedSpacing
<1>3. ASSUME NEW h \in Hs, ConsiderLayer(h) PROVE SharedSpacing'
  <2>1. /\ pc = "slot" /\ expansions' = expansions /\ submitted < RequestsPerSlot
        /\ \/ /\ MaySubmit(layers[h].rep = "asked", BypassSpacing)
              /\ Submitted(h, PlateauReason)
           \/ UNCHANGED log
    BY <1>3 DEF ConsiderLayer, MoreCandidates, Refused
  <2>2. CASE UNCHANGED log
    BY <1>2, <2>2
  <2>3. CASE submitted > 0 /\ Submitted(h, PlateauReason)
    BY <1>1, <2>1, <2>3, BypassingRequest
  <2>4. CASE /\ ~(submitted > 0) /\ Submitted(h, PlateauReason)
             /\ MaySubmit(layers[h].rep = "asked", BypassSpacing)
    <3>1. MaySubmit(layers[h].rep = "asked", FALSE)
      BY <2>4, Zenon DEF BypassSpacing, MaySubmit
    <3> QED
      BY <1>1, <2>1, <2>4, <3>1, SpacedRequest
  <2> QED
    BY <2>1, <2>2, <2>3, <2>4
<1>4. CASE EndSlot
  <2>1. \/ MaySubmit(cur.asked, FALSE) /\ Submitted(cur.h, "stall")
        \/ UNCHANGED log
    BY <1>4 DEF EndSlot, Refused
  <2>2. expansions' = expansions
    BY <1>4 DEF EndSlot
  <2> QED
    BY <1>1, <1>2, <2>1, <2>2, SpacedRequest
<1>5. CASE CheckAncestor
  <2>1. \/ MaySubmit(cur.asked, FALSE) /\ Submitted(cur.h, "ancestor")
        \/ UNCHANGED log
    BY <1>5 DEF CheckAncestor, Refused
  <2>2. expansions' = expansions
    BY <1>5 DEF CheckAncestor
  <2> QED
    BY <1>1, <1>2, <2>1, <2>2, SpacedRequest
<1>6. ASSUME NEW h \in Hs, RecordOpen(h) PROVE SharedSpacing'
  BY <1>2, <1>6 DEF RecordOpen
<1>7. ASSUME NEW h \in Hs, NEW again \in BOOLEAN, Expand(h, again) PROVE SharedSpacing'
  BY <1>2, <1>7 DEF Expand
<1>8. CASE PollBridge \/ Finished \/ UNCHANGED vars
  BY <1>2, <1>8 DEF PollBridge, Finished, vars
<1> QED
  BY <1>3, <1>4, <1>5, <1>6, <1>7, <1>8 DEF Next

----------------------------------------------------------------------------
(* The stall.                                                              *)

(* A request with another reason, or the first of an episode, keeps the    *)
(* episodes of a stall apart.                                              *)
LEMMA StallStep ==
  ASSUME TriggerTypeOK, LogOK, StallOK, StallOnce,
         NEW h \in Hs, NEW reason \in Reasons,
         Submitted(h, reason), expansions' = expansions, best_h' = best_h,
         reason \in StallReasons => ~global_stall_requested /\ ~LayerServedStall,
         ~global_stall_requested' /\ ~LayerServedStall' =>
             /\ reason \notin StallReasons
             /\ ~global_stall_requested /\ ~LayerServedStall,
         stall' => ~global_stall_requested'
  PROVE  StallOK' /\ StallOnce'
<1> DEFINE n == Len(log)
           new == [h |-> h, reason |-> reason, at |-> expansions, best |-> best_h]
<1>1. DOMAIN log = 1..n /\ n \in Nat
  BY DEF TriggerTypeOK
<1>2. /\ DOMAIN log' = DOMAIN log \cup {n + 1}
      /\ \A i \in DOMAIN log : log'[i] = log[i]
      /\ log'[n + 1] = new
  BY SubmittedFacts
<1>3. log'[n + 1].reason = reason /\ log'[n + 1].best = best_h
  BY <1>2
<1>4. best_h \in Nat
  BY TriggerAssumption DEF TriggerTypeOK, CountersOK
<1> HIDE DEF new
<1>5. StallOK'
  <2>1. ASSUME NEW i \in DOMAIN log', log'[i].reason \in StallReasons
        PROVE  /\ best_h' <= log'[i].best
               /\ ~global_stall_requested' /\ ~LayerServedStall' => best_h' < log'[i].best
    <3>1. CASE i \in DOMAIN log
      <4>1. log[i].reason \in StallReasons
        BY <1>2, <2>1, <3>1
      <4>2. /\ best_h <= log[i].best
            /\ ~global_stall_requested /\ ~LayerServedStall => best_h < log[i].best
        BY <3>1, <4>1 DEF StallOK
      <4> QED
        BY <1>2, <3>1, <4>2
    <3>2. CASE i = n + 1
      BY <1>3, <1>4, <2>1, <3>2
    <3> QED
      BY <1>2, <3>1, <3>2
  <2> QED
    BY <2>1 DEF StallOK
<1>6. StallOnce'
  <2>1. ASSUME NEW j \in DOMAIN log', NEW i \in Earlier(StallReasons, j)'
        PROVE  log'[j].best < log'[i].best
    <3>1. /\ i \in 1..(j - 1) /\ i \in DOMAIN log
          /\ log'[i].reason \in StallReasons /\ log'[j].reason \in StallReasons
      BY <1>1, <1>2, <2>1 DEF Earlier
    <3>2. CASE j \in DOMAIN log
      <4>1. i \in Earlier(StallReasons, j)
        BY <1>2, <3>1, <3>2 DEF Earlier
      <4>2. log[j].best < log[i].best
        BY <3>2, <4>1 DEF StallOnce
      <4> QED
        BY <1>2, <3>1, <3>2, <4>2
    <3>3. CASE j = n + 1
      <4>1. ~global_stall_requested /\ ~LayerServedStall
        BY <1>3, <3>1, <3>3
      <4>2. log[i].reason \in StallReasons
        BY <1>2, <3>1
      <4>3. best_h < log[i].best
        BY <3>1, <4>1, <4>2 DEF StallOK
      <4> QED
        BY <1>2, <1>3, <3>1, <3>3, <4>3
    <3> QED
      BY <1>2, <3>2, <3>3
  <2> QED
    BY <2>1 DEF StallOnce
<1> QED
  BY <1>5, <1>6

(* A stall is pending only until it is served, and only a better best_h    *)
(* makes a new episode of it.                                              *)
LEMMA StallNext ==
  TriggerTypeOK /\ LogOK /\ SlotOK /\ StallOK /\ StallOnce /\ [Next]_vars
      => StallOK' /\ StallOnce'
<1> SUFFICES ASSUME TriggerTypeOK, LogOK, SlotOK, StallOK, StallOnce, [Next]_vars
             PROVE  StallOK' /\ StallOnce'
  OBVIOUS
<1>0. /\ best_h \in Nat /\ submitted \in Nat /\ HEpsilon \in Nat /\ Hs \subseteq Nat
      /\ cur.h \in Hs /\ {"stall", "ancestor", PlateauReason} \subseteq Reasons
  BY TriggerAssumption DEF TriggerTypeOK, CountersOK, FlagsOK, Reasons,
     FrontierReasons, StallReasons, PlateauReason
<1>1. ASSUME UNCHANGED <<log, best_h>>, stall' => ~global_stall_requested',
             ~global_stall_requested' /\ ~LayerServedStall' =>
                ~global_stall_requested /\ ~LayerServedStall
      PROVE  StallOK' /\ StallOnce'
  <2>1. StallOnce'
    BY <1>1 DEF StallOnce, Earlier
  <2> QED
    BY <1>1, <2>1 DEF StallOK
<1>2. ASSUME NEW h \in Hs, RecordOpen(h) PROVE StallOK' /\ StallOnce'
  <2>1. pc = "search" /\ UNCHANGED <<pc, stall, submitted, log>>
    BY <1>2 DEF RecordOpen, slotVars
  <2>2. ~stall /\ ~stall'
    BY <2>1 DEF SlotOK
  <2>3. CASE Improves(h)
    <3>1. best_h' = h
      BY <1>2, <2>3 DEF RecordOpen
    <3>2. h \in Nat /\ best_h' < best_h
      BY <1>0, <2>3, <3>1 DEF Improves
    <3>3. ASSUME NEW i \in DOMAIN log, log[i].reason \in StallReasons
          PROVE  best_h' < log[i].best /\ best_h' <= log[i].best
      <4>1. best_h <= log[i].best
        BY <3>3 DEF StallOK
      <4>2. log[i].best \in Nat
        <5>1. log[i] \in Request
          BY DEF TriggerTypeOK
        <5> QED
          BY <1>0, <5>1 DEF Request
      <4> QED
        BY <1>0, <3>1, <3>2, <4>1, <4>2
    <3>4. StallOnce'
      BY <2>1 DEF StallOnce, Earlier
    <3> QED
      BY <2>1, <2>2, <3>3, <3>4 DEF StallOK
  <2>4. CASE ~Improves(h)
    <3>1. UNCHANGED <<best_h, global_stall_requested>>
      BY <1>2, <2>4 DEF RecordOpen
    <3> QED
      BY <1>1, <2>1, <2>2, <3>1 DEF LayerServedStall
  <2> QED
    BY <2>3, <2>4
<1>3. ASSUME NEW h \in Hs, NEW again \in BOOLEAN, Expand(h, again)
      PROVE  StallOK' /\ StallOnce'
  <2>1. /\ pc = "search" /\ UNCHANGED <<best_h, global_stall_requested, log>>
        /\ stall' => GlobalStallEligible(expansions_since_best_h + 1)
    BY <1>3, Zenon DEF Expand
  <2>2. stall' => ~global_stall_requested
    BY <2>1 DEF GlobalStallEligible
  <2>3. ~LayerServedStall
    BY <2>1 DEF SlotOK, LayerServedStall
  <2> QED
    BY <1>1, <2>1, <2>2, <2>3
<1>4. ASSUME NEW h \in Hs, ConsiderLayer(h) PROVE StallOK' /\ StallOnce'
  <2>1. /\ UNCHANGED <<expansions, best_h, global_stall_requested, stall>>
        /\ \/ Submitted(h, PlateauReason) /\ submitted' = submitted + 1
           \/ UNCHANGED <<log, submitted>>
    BY <1>4 DEF ConsiderLayer, Refused
  <2>2. stall' => ~global_stall_requested'
    BY <2>1 DEF StallOK
  <2>3. CASE Submitted(h, PlateauReason) /\ submitted' = submitted + 1
    <3>1. PlateauReason \in StallReasons => stall /\ submitted = 0
      BY DEF PlateauReason, StallReasons
    <3>2. PlateauReason \in StallReasons =>
             ~global_stall_requested /\ ~LayerServedStall
      BY <1>0, <3>1 DEF StallOK, LayerServedStall
    <3>3. submitted' > 0
      BY <1>0, <2>3
    <3>4. ~LayerServedStall' =>
             PlateauReason \notin StallReasons /\ ~LayerServedStall
      BY <2>1, <3>1, <3>3 DEF LayerServedStall
    <3> QED
      BY <1>0, <2>1, <2>2, <2>3, <3>2, <3>4, StallStep
  <2>4. CASE UNCHANGED <<log, submitted>>
    BY <1>1, <2>1, <2>2, <2>4 DEF LayerServedStall
  <2> QED
    BY <2>1, <2>3, <2>4
<1>5. CASE EndSlot
  <2>1. expansions' = expansions /\ best_h' = best_h /\ ~stall'
    BY <1>5 DEF EndSlot
  <2>2. CASE /\ stall /\ submitted = 0 /\ Submitted(cur.h, "stall")
             /\ global_stall_requested' = TRUE
    <3>1. ~global_stall_requested /\ ~LayerServedStall
      BY <2>2 DEF StallOK, LayerServedStall
    <3> QED
      BY <1>0, <2>1, <2>2, <3>1, StallStep
  <2>3. CASE /\ UNCHANGED log
             /\ global_stall_requested' = (global_stall_requested \/ LayerServedStall)
    BY <1>1, <2>1, <2>3
  <2> QED
    BY <1>5, <2>2, <2>3 DEF EndSlot, Refused
<1>6. CASE CheckAncestor
  <2>1. /\ UNCHANGED <<expansions, best_h, global_stall_requested, stall, submitted>>
        /\ Submitted(cur.h, "ancestor") \/ UNCHANGED log
    BY <1>6 DEF CheckAncestor, Refused
  <2>2. stall' => ~global_stall_requested'
    BY <2>1 DEF StallOK
  <2>3. "ancestor" \notin StallReasons /\ (LayerServedStall' <=> LayerServedStall)
    BY <2>1 DEF StallReasons, LayerServedStall
  <2>4. CASE Submitted(cur.h, "ancestor")
    BY <1>0, <2>1, <2>2, <2>3, <2>4, StallStep
  <2>5. CASE UNCHANGED log
    BY <1>1, <2>1, <2>2, <2>3, <2>5
  <2> QED
    BY <2>1, <2>4, <2>5
<1>7. CASE PollBridge \/ Finished \/ UNCHANGED vars
  <2>1. UNCHANGED <<log, best_h, global_stall_requested, stall, submitted>>
    BY <1>7 DEF PollBridge, Finished, vars, monitorVars, slotVars
  <2> QED
    BY <1>1, <2>1 DEF StallOK, LayerServedStall
<1> QED
  BY <1>2, <1>3, <1>4, <1>5, <1>6, <1>7 DEF Next

----------------------------------------------------------------------------
(* The theorems.                                                           *)

(* The monitor starts with one layer at most, and the initial state's      *)
(* request if that is asked for.                                           *)
LEMMA InitIInv == Init => IInv
<1> SUFFICES ASSUME Init PROVE IInv
  OBVIOUS
<1>1. /\ InitialH \in Hs /\ Hs \subseteq Nat /\ RequestsPerSlot \in Nat \ {0}
      /\ expansions = 0 /\ expansions \in Nat
  BY TriggerAssumption DEF Init
<1> DEFINE first == [NewLayer EXCEPT !.current.opened = 1, !.since_request.opened = 1]
           tracked == IF "plateau" \in Rules THEN {InitialH} ELSE {}
<1>2. layers = [h \in tracked |-> first] /\ DOMAIN layers = tracked
  BY DEF Init
<1>3. /\ first \in LayerType /\ first.since_request.opened = 1
      /\ first.since_request.expanded = 0 /\ first.inactive_streak = 0
  BY <1>1, NewLayerType DEF NewLayer, NoWindow, LayerType, Window, Time
<1> HIDE DEF first
<1>4. /\ \A h \in Hs : /\ since[h] \in History /\ since[h].expanded = 0
                       /\ since[h].quiet = 0 /\ (h = InitialH => since[h].opened = 1)
      /\ since \in [Hs -> History]
  <2>1. \A h \in Hs : since[h] = [NothingSince EXCEPT
                                     !.opened = IF h = InitialH THEN 1 ELSE 0]
    BY DEF Init
  <2>2. ASSUME NEW n \in Nat
        PROVE  /\ [NothingSince EXCEPT !.opened = n] \in History
               /\ [NothingSince EXCEPT !.opened = n].opened = n
               /\ [NothingSince EXCEPT !.opened = n].expanded = 0
               /\ [NothingSince EXCEPT !.opened = n].quiet = 0
    <3>1. [NothingSince EXCEPT !.opened = n] \in History
      BY DEF NothingSince, History
    <3>2. /\ [NothingSince EXCEPT !.opened = n].opened = n
          /\ [NothingSince EXCEPT !.opened = n].expanded = 0
          /\ [NothingSince EXCEPT !.opened = n].quiet = 0
      BY DEF NothingSince
    <3> QED
      BY <3>1, <3>2
  <2>3. DOMAIN since = Hs /\ since = [h \in Hs |-> since[h]]
    BY DEF Init
  <2>4. ASSUME NEW h \in Hs
        PROVE  /\ since[h] \in History /\ since[h].expanded = 0
               /\ since[h].quiet = 0 /\ (h = InitialH => since[h].opened = 1)
    <3> DEFINE n == IF h = InitialH THEN 1 ELSE 0
    <3>1. n \in Nat /\ since[h] = [NothingSince EXCEPT !.opened = n]
      BY <2>1
    <3>2. since[h] \in History /\ since[h].opened = n /\ since[h].expanded = 0
          /\ since[h].quiet = 0
      BY <2>2, <3>1
    <3> QED
      BY <3>2
  <2>5. \A h \in Hs : since[h] \in History
    BY <2>4
  <2>6. since \in [Hs -> History]
    BY <2>3, <2>5
  <2> QED
    BY <2>4, <2>6
<1>5. TablesOK
  <2>1. open \in [Hs -> Nat]
    BY DEF Init
  <2> QED
    BY <1>1, <1>2, <1>3, <1>4, <2>1 DEF TablesOK, TableType
<1> DEFINE asked == [h |-> InitialH, reason |-> "initial", at |-> 0, best |-> InitialH]
<1>6. asked \in Request /\ asked.at = 0 /\ asked.reason \notin FrontierReasons \cup StallReasons
  BY <1>1 DEF Request, Reasons, FrontierReasons, StallReasons
<1> HIDE DEF asked
<1>7. /\ log = <<asked>> \/ log = <<>>
      /\ log = <<asked>> => last_request_expansion = 0
      /\ log = <<>> => last_request_expansion = -1
  BY DEF Init, asked
<1>8. /\ log \in Seq(Request) /\ Len(log) \in {0, 1}
      /\ \A i \in DOMAIN log : i = 1 /\ log[i] = asked
  <2>1. CASE log = <<asked>>
    BY <1>6, <2>1
  <2>2. CASE log = <<>>
    BY <2>2
  <2> QED
    BY <1>7, <2>1, <2>2
<1>9. CountersOK
  BY <1>1, <1>7, <1>8 DEF Init, CountersOK, Time
<1>10. FlagsOK
  <2>1. RequestInitial \in BOOLEAN
    BY TriggerAssumption
  <2> QED
    BY <1>1, <2>1 DEF Init, FlagsOK
<1>11. TriggerTypeOK
  BY <1>5, <1>8, <1>9, <1>10 DEF Init, TriggerTypeOK
<1>12. LogOK
  <2>1. last_request_expansion = IF log = <<>> THEN -1 ELSE log[Len(log)].at
    BY <1>6, <1>7
  <2> QED
    BY <1>1, <1>6, <1>8, <2>1 DEF LogOK
<1>13. SlotOK
  BY DEF Init, SlotOK
<1>14. SharedSpacing
  <2>1. ASSUME NEW j \in DOMAIN log
        PROVE  Cardinality({i \in DOMAIN log : log[i].at = log[j].at}) <= RequestsPerSlot
    <3>1. {i \in DOMAIN log : log[i].at = log[j].at} = {1}
      BY <1>8
    <3>2. Cardinality({1}) = 1
      BY FS_Singleton
    <3> QED
      BY <1>1, <3>1, <3>2
  <2> QED
    BY <1>8, <2>1 DEF SharedSpacing
<1>15. StallOK /\ StallOnce
  BY <1>6, <1>8 DEF Init, StallOK, StallOnce, Earlier
<1>16. LayersOK
  <2>1. \A k \in Hs : EarlierOfLayer(k) = {}
    BY <1>6, <1>8 DEF EarlierOfLayer
  <2> QED
    BY <1>2, <1>3, <1>4, <2>1 DEF LayersOK, Agree
<1> QED
  BY <1>11, <1>12, <1>13, <1>14, <1>15, <1>16 DEF IInv

(* The parts of the invariant support one another over every step.         *)
LEMMA NextIInv == IInv /\ [Next]_vars => IInv'
<1> SUFFICES ASSUME IInv, [Next]_vars PROVE IInv'
  OBVIOUS
<1> USE DEF IInv
<1>1. TablesOK' /\ LayersOK'
  BY TablesNext DEF Tables
<1>2. CountersOK' /\ FlagsOK'
  BY CountersNext
<1>3. LogOK' /\ log' \in Seq(Request)
  BY LogNext
<1>4. (waiting \subseteq Hs)'
  <2>1. waiting \subseteq Hs
    BY DEF TriggerTypeOK
  <2>2. ASSUME NEW h \in Hs, NEW again \in BOOLEAN, Expand(h, again)
        PROVE  waiting' \subseteq DOMAIN layers'
    BY <2>2, Zenon DEF Expand, EligibleLayers
  <2>3. DOMAIN layers' \subseteq Hs
    BY <1>1 DEF TablesOK, TableType
  <2>4. ASSUME NEW h \in Hs, RecordOpen(h) PROVE waiting' = waiting
    BY <2>4 DEF RecordOpen, slotVars
  <2>5. ASSUME NEW h \in Hs, ConsiderLayer(h) PROVE waiting' \subseteq waiting
    BY <2>5 DEF ConsiderLayer
  <2>6. CASE EndSlot
    BY <2>6 DEF EndSlot
  <2>7. CASE CheckAncestor \/ PollBridge \/ Finished \/ UNCHANGED vars
    BY <2>1, <2>7 DEF CheckAncestor, PollBridge, Finished, vars, slotVars
  <2> QED
    BY <2>1, <2>2, <2>3, <2>4, <2>5, <2>6, <2>7 DEF Next
<1>5. TriggerTypeOK'
  BY <1>1, <1>2, <1>3, <1>4 DEF TriggerTypeOK
<1> QED
  BY <1>1, <1>3, <1>5, SlotNext, SpacingNext, StallNext

(* Hence it holds of every state of the monitor.                           *)
LEMMA Invariance == Spec => []IInv
  BY InitIInv, NextIInv, PTL DEF Spec

(* Every structure of LLMTriggerMonitor keeps its type: the layer table,   *)
(* its windows, the counters and the log.                                  *)
THEOREM TriggerTypeCorrect == Spec => []TriggerTypeOK
<1>1. IInv => TriggerTypeOK
  BY DEF IInv
<1> QED
  BY <1>1, Invariance, PTL

(* request_spacing_active: requests of two expansions are at least MinGap  *)
(* apart, and those of one, although the later ones of a slot bypass the   *)
(* spacing, are at most RequestsPerSlot.                                   *)
THEOREM SharedSpacingAlways == Spec => []SharedSpacing
<1>1. IInv => SharedSpacing
  BY DEF IInv
<1> QED
  BY <1>1, Invariance, PTL

(* global_stall_requested: a stall asks again only after best_h improved.  *)
THEOREM StallOnceAlways == Spec => []StallOnce
<1>1. IInv => StallOnce
  BY DEF IInv
<1> QED
  BY <1>1, Invariance, PTL

(* Only submit_layer_candidates asks about a layer, and it asks about one  *)
(* that is eligible now.                                                   *)
LEMMA OnlyEligible ==
  ASSUME IInv, [Next]_vars, NEW h \in Hs, AsksAgainAbout(h)
  PROVE  /\ h \in Tracked /\ layers[h] \in LayerType
         /\ Eligible(layers[h], expansions)
<1>1. /\ Len(log') > Len(log) /\ log'[Len(log')].h = h
      /\ log'[Len(log')].reason \in FrontierReasons
  BY DEF AsksAgainAbout
<1>2. Len(log) \in Nat /\ cur.h \in Hs
  BY DEF IInv, TriggerTypeOK, FlagsOK
<1>3. log' # log
  BY <1>1, <1>2
<1>4. ASSUME NEW k \in Hs, NEW reason \in Reasons, Submitted(k, reason),
             expansions' = expansions
      PROVE  k = h /\ reason \in FrontierReasons
  <2>1. /\ Len(log') = Len(log) + 1
        /\ log'[Len(log) + 1] = [h |-> k, reason |-> reason, at |-> expansions,
                                 best |-> best_h]
    BY <1>4, SubmittedFacts DEF IInv
  <2> QED
    BY <1>1, <2>1
<1>5. ASSUME NEW k \in Hs, ConsiderLayer(k) PROVE k = h /\ h \in waiting
  <2>1. k \in waiting /\ expansions' = expansions /\ Submitted(k, PlateauReason)
    BY <1>3, <1>5 DEF ConsiderLayer, Refused, BestCandidate
  <2>2. PlateauReason \in Reasons
    BY DEF PlateauReason, Reasons, FrontierReasons
  <2> QED
    BY <1>4, <2>1, <2>2
<1>6. "stall" \in Reasons \ FrontierReasons /\ "ancestor" \in Reasons \ FrontierReasons
  BY DEF Reasons, FrontierReasons, StallReasons
<1>7. ~EndSlot
  <2>1. EndSlot => Submitted(cur.h, "stall") /\ expansions' = expansions
    BY <1>3 DEF EndSlot, Refused
  <2> QED
    BY <1>2, <1>4, <1>6, <2>1
<1>8. ~CheckAncestor
  <2>1. CheckAncestor => Submitted(cur.h, "ancestor") /\ expansions' = expansions
    BY <1>3 DEF CheckAncestor, Refused
  <2> QED
    BY <1>2, <1>4, <1>6, <2>1
<1>9. h \in waiting
  BY <1>3, <1>5, <1>7, <1>8 DEF Next, RecordOpen, Expand, PollBridge, Finished, vars
<1> QED
  BY <1>9 DEF IInv, SlotOK, TriggerTypeOK, TablesOK, TableType, Tracked

(* layer_request_eligible and reset_layer_episode: a layer not quiet nor   *)
(* evicted since is asked about again only after PerLayerGap expansions.   *)
THEOREM LayerIntervalAlways == Spec => LayerInterval
<1>1. ASSUME IInv, [Next]_vars, NEW h \in Hs, AsksAgainAbout(h), ~since[h].forgotten,
             NEW i \in EarlierOfLayer(h)
      PROVE  expansions - log[i].at >= PerLayerGap
  <2>1. layers[h] \in LayerType /\ Eligible(layers[h], expansions)
    BY <1>1, OnlyEligible
  <2>2. log[i].at <= layers[h].last_request
    BY <1>1 DEF IInv, LayersOK, Agree
  <2>3. log[i] \in Request
    BY <1>1 DEF IInv, TriggerTypeOK, EarlierOfLayer
  <2>4. /\ layers[h].last_request \in Int /\ log[i].at \in Nat
        /\ expansions \in Nat /\ PerLayerGap \in Nat
    <3>1. layers[h].last_request \in Time
      BY <2>1 DEF LayerType
    <3>2. expansions \in Nat
      BY <1>1 DEF IInv, TriggerTypeOK, CountersOK
    <3> QED
      BY <2>3, <3>1, <3>2, TriggerAssumption DEF Time, Request
  <2>5. layers[h].last_request < 0 \/ expansions - layers[h].last_request >= PerLayerGap
    BY <2>1 DEF Eligible
  <2> QED
    BY <2>2, <2>4, <2>5
<1>2. ASSUME IInv, [Next]_vars
      PROVE  \A h \in Hs : AsksAgainAbout(h) =>
                \/ since[h].forgotten
                \/ \A i \in EarlierOfLayer(h) : expansions - log[i].at >= PerLayerGap
  BY <1>1, <1>2
<1>3. IInv /\ [Next]_vars =>
        [\A h \in Hs : AsksAgainAbout(h) =>
            \/ since[h].forgotten
            \/ \A i \in EarlierOfLayer(h) : expansions - log[i].at >= PerLayerGap]_vars
  BY <1>2
<1> QED
  BY <1>3, Invariance, PTL DEF LayerInterval, Spec

(* layer_has_new_evidence: whatever resets and evictions did to the        *)
(* counters, a layer has gathered the evidence since it was asked about.   *)
THEOREM FreshEvidenceAlways == Spec => FreshEvidence
<1>1. ASSUME IInv, [Next]_vars, NEW h \in Hs, AsksAgainAbout(h)
      PROVE  /\ since[h].expanded >= MinSinceExpanded
             /\ since[h].opened >= MinSinceExpanded + MinSinceNetGrowth
  <2> DEFINE s == layers[h].since_request
  <2>1. h \in Tracked /\ layers[h] \in LayerType /\ Eligible(layers[h], expansions)
    BY <1>1, OnlyEligible
  <2>2. /\ s.opened \in Nat /\ s.expanded \in Nat
        /\ since[h].opened \in Nat /\ since[h].expanded \in Nat
        /\ MinSinceExpanded \in Nat /\ MinSinceNetGrowth \in Nat \ {0}
    <3>1. s \in Window
      BY <2>1 DEF LayerType
    <3>2. since[h] \in History
      BY <1>1 DEF IInv, TriggerTypeOK, TablesOK
    <3> QED
      BY <3>1, <3>2, TriggerAssumption DEF Window, History
  <2>3. s.opened <= since[h].opened /\ s.expanded <= since[h].expanded
    BY <1>1, <2>1 DEF IInv, LayersOK, Agree, Tracked
  <2>4. HasNewEvidence(layers[h])
    BY <2>1 DEF Eligible
  <2>5. /\ s.expanded >= MinSinceExpanded
        /\ NetGrowth(s.opened, s.expanded) >= MinSinceNetGrowth
    BY <2>4 DEF HasNewEvidence
  <2> HIDE DEF s
  <2>6. s.opened > s.expanded /\ s.opened - s.expanded >= MinSinceNetGrowth
    BY <2>2, <2>5 DEF NetGrowth
  <2> QED
    BY <2>2, <2>3, <2>5, <2>6
<1>2. ASSUME IInv, [Next]_vars
      PROVE  \A h \in Hs : AsksAgainAbout(h) =>
                /\ since[h].expanded >= MinSinceExpanded
                /\ since[h].opened >= MinSinceExpanded + MinSinceNetGrowth
  BY <1>1, <1>2
<1>3. IInv /\ [Next]_vars =>
        [\A h \in Hs : AsksAgainAbout(h) =>
            /\ since[h].expanded >= MinSinceExpanded
            /\ since[h].opened >= MinSinceExpanded + MinSinceNetGrowth]_vars
  BY <1>2
<1> QED
  BY <1>3, Invariance, PTL DEF FreshEvidence, Spec
=============================================================================
