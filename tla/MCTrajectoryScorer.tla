------------------------- MODULE MCTrajectoryScorer -------------------------
(* Small numeric tasks for TrajectoryScorer: two finite-domain variables,  *)
(* a comparison, two derived variables, and numbers of every type.         *)
EXTENDS TrajectoryScorer

(* Logic variables: 1 and 2 in no layer, 3 compared, 4 and 5 derived.      *)
(* Numbers: 1 and 2 regular, 3 constant, 4 = 1 + 2, 5 counts the cost.     *)
Rules == <<[cond |-> {<<1, 1>>, <<3, 0>>}, var |-> 4, val |-> 0],
           [cond |-> {<<5, 0>>},           var |-> 4, val |-> 0],
           [cond |-> {<<4, 0>>},           var |-> 5, val |-> 0],
           [cond |-> {<<3, 1>>, <<1, 0>>}, var |-> 5, val |-> 0],
           [cond |-> {<<4, 1>>, <<2, 1>>}, var |-> 5, val |-> 0],
           [cond |-> {},                   var |-> 4, val |-> 0]>>

Operators ==
    <<[pre  |-> {<<1, 0>>},
       effs |-> <<[cond |-> {}, var |-> 1, val |-> 1],
                  [cond |-> {<<3, 1>>}, var |-> 2, val |-> 1]>>,
       nums |-> <<[var |-> 1, fop |-> "increase", by |-> 3],
                  [var |-> 5, fop |-> "increase", by |-> 3]>>],
      [pre  |-> {<<1, 1>>},
       effs |-> <<[cond |-> {<<4, 1>>}, var |-> 1, val |-> 0],
                  [cond |-> {<<2, 1>>}, var |-> 2, val |-> 2]>>,
       nums |-> <<[var |-> 1, fop |-> "assign", by |-> 2],
                  [var |-> 2, fop |-> "assign", by |-> 1],
                  [var |-> 5, fop |-> "increase", by |-> 4]>>],
      [pre  |-> {<<4, 1>>, <<2, 1>>},
       effs |-> <<[cond |-> {}, var |-> 1, val |-> 0]>>,
       nums |-> <<[var |-> 2, fop |-> "decrease", by |-> 3]>>],
      [pre  |-> {<<1, 1>>},
       effs |-> <<[cond |-> {}, var |-> 1, val |-> 0]>>,
       nums |-> <<[var |-> 1, fop |-> "decrease", by |-> 3]>>]>>

TaskOf(rules, top, minimizes) ==
    [range |-> <<2, 3, 3, 2, 2>>, layer |-> <<-1, -1, 1, 2, top>>,
     init  |-> <<0, 0, 2, 1, 1>>,
     ntype |-> <<"regular", "regular", "constant", "derived",
                 "instrumentation">>,
     ninit |-> <<0, 0, 1, 0, 0>>,
     sums  |-> <<[var |-> 4, op |-> "sum", lhs |-> 1, rhs |-> 2]>>,
     comps |-> <<[var |-> 3, op |-> "gt", lhs |-> 4, rhs |-> 3]>>,
     rules |-> SelectSeq(Rules, LAMBDA r : \E i \in rules : Rules[i] = r),
     ops   |-> Operators, goal |-> {<<5, 0>>, <<2, 2>>},
     metric |-> 5, minimizes |-> minimizes]

(* 4 and 5 in one layer, or 5 in a layer above 4 that may test its default. *)
MCTasks ==
    <<TaskOf({1, 2, 3}, 2, TRUE), TaskOf({2, 3}, 2, TRUE),
      TaskOf({1, 3, 4, 5}, 3, FALSE), TaskOf({3, 6}, 3, TRUE)>>
=============================================================================
