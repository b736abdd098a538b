--------------------------- MODULE PlanningTask ---------------------------
(***************************************************************************)
(* The planner's numeric task as its search core executes it: the packed   *)
(* state (int_packer.cc), the axiom evaluator (axioms.cc), the application *)
(* of an operator (state_registry.cc, global_operator.cc), the operators'  *)
(* costs, and the successor generator's decision tree.                     *)
(*                                                                         *)
(* A task t is a record.  Logic variables are numbered by t.range, numeric *)
(* ones by t.ntype; a fact is <<variable, value>>.  t.init also gives the  *)
(* derived variables' defaults, as g_default_axiom_values does: the        *)
(* translator starts a comparison variable at 2, none of its truth values. *)
(* Numbers are integers; a double fills one bin of a packed state.         *)
(***************************************************************************)
EXTENDS Integers, Sequences, FiniteSets, SequencesExt

CONSTANT BinBits       \* BITS_PER_BIN

ASSUME PackerAssumption == BinBits \in Nat \ {0}

(* Op(x, k) for k = 1, ..., n, from x = base on: a loop of the code.  A     *)
(* function of the position, whose equation the proofs can use.            *)
Fold(Op(_, _), base, n) ==
    LET after[k \in 0 .. n] == IF k = 0 THEN base ELSE Op(after[k - 1], k)
    IN  after[n]

Pow2[n \in Nat] == IF n = 0 THEN 1 ELSE 2 * Pow2[n - 1]

Logic(t)   == DOMAIN t.range
Numeric(t) == DOMAIN t.ntype
OfType(t, type) == {v \in Numeric(t) : t.ntype[v] = type}

----------------------------------------------------------------------------
(* The tasks the translator and the preprocessor write: translate.py       *)
(* 603-690, causal_graph.cc 314-400, and what globals.cc and               *)
(* state_registry.cc assert of them.                                       *)

Facts(t) == UNION {{v} \X (0 .. t.range[v] - 1) : v \in Logic(t)}
Base(t) == {v \in Logic(t) : t.layer[v] = -1}
ComparisonVars(t) == {ax.var : ax \in Range(t.comps)}
Derived(t) == {v \in Logic(t) \ ComparisonVars(t) : t.layer[v] # -1}
Consistent(facts) == \A f, g \in facts : f[1] = g[1] => f = g

IsSeq(s) == s \in Seq(Range(s))

VariablesOK(t) ==
    /\ t.range \in Seq(Nat) /\ t.range # <<>>
    /\ t.layer \in [Logic(t) -> Nat \cup {-1}]
    /\ \A v \in Logic(t) : /\ 2 <= t.range[v] /\ t.range[v] <= Pow2[BinBits]
                           /\ t.init[v] \in 0 .. t.range[v] - 1
    /\ t.ntype \in Seq({"regular", "constant", "derived", "instrumentation"})
    /\ t.ninit \in [Numeric(t) -> Int]

(* Arithmetic axioms come in the order of their layers.                    *)
SumsOK(t) ==
    \A k \in 1 .. Len(t.sums) :
        LET ax == t.sums[k]
        IN  /\ ax.op \in {"sum", "diff", "mult"}
            /\ ax.var \in OfType(t, "derived")
            /\ \A u \in {ax.lhs, ax.rhs} :
                 /\ u \in Numeric(t)
                 /\ t.ntype[u] = "derived" =>
                      \E j \in 1 .. k - 1 : t.sums[j].var = u

(* Comparisons have the layer below the derived variables, a variable each *)
(* and the default "none of those".                                        *)
ComparisonsOK(t) ==
    /\ \A k \in 1 .. Len(t.comps) :
        LET ax == t.comps[k]
        IN  /\ ax.op \in {"lt", "le", "eq", "ge", "gt", "ue"}
            /\ ax.var \in Logic(t) /\ t.layer[ax.var] # -1
            /\ t.init[ax.var] \notin {0, 1}
            /\ {ax.lhs, ax.rhs} \subseteq Numeric(t)
            /\ \A j \in 1 .. Len(t.comps) : t.comps[j].var = ax.var => j = k
    /\ \A c, d \in ComparisonVars(t) : t.layer[c] = t.layer[d]
    /\ \A c \in ComparisonVars(t), v \in Derived(t) : t.layer[c] < t.layer[v]

(* The rules are stratified: a condition is from a lower layer, or it is a *)
(* value of its own layer that is not the default.                         *)
RulesOK(t) ==
    \A i \in 1 .. Len(t.rules) :
        LET r == t.rules[i]
        IN  /\ <<r.var, r.val>> \in Facts(t) /\ r.var \in Derived(t)
            /\ r.val # t.init[r.var]
            /\ r.cond \subseteq Facts(t)
            /\ \A f \in r.cond : \/ t.layer[f[1]] < t.layer[r.var]
                                 \/ /\ t.layer[f[1]] = t.layer[r.var]
                                    /\ f[2] # t.init[f[1]]
            /\ \A j \in 1 .. Len(t.rules) :
                 t.rules[j].var = r.var => t.rules[j].val = r.val

OperatorOK(t, op) ==
    /\ IsSeq(op.effs) /\ IsSeq(op.nums)
    /\ op.pre \subseteq Facts(t) /\ Consistent(op.pre)
    /\ \A k \in 1 .. Len(op.effs) :
         LET e == op.effs[k]
         IN  /\ e.cond \subseteq Facts(t) /\ <<e.var, e.val>> \in Facts(t)
             /\ t.layer[e.var] = -1
    /\ \A k \in 1 .. Len(op.nums) :
         LET e == op.nums[k]
         IN  /\ e.fop \in {"assign", "increase", "decrease", "scale_up"}
             /\ e.var \in OfType(t, "regular") \cup OfType(t, "instrumentation")
             /\ e.by \in Numeric(t)

(* The numbers that matter for more than the metric, `necessary' ones of   *)
(* the preprocessor: instrumentation variables are never among them.       *)
Suffices(t, N) ==
    /\ OfType(t, "regular") \subseteq N
    /\ N \subseteq Numeric(t) \ OfType(t, "instrumentation")
    /\ \A v \in N :
          t.ntype[v] = "derived" => \E k \in 1 .. Len(t.sums) : t.sums[k].var = v
    /\ \A k \in 1 .. Len(t.sums) :
          t.sums[k].var \in N => {t.sums[k].lhs, t.sums[k].rhs} \subseteq N
    /\ \A k \in 1 .. Len(t.comps) : {t.comps[k].lhs, t.comps[k].rhs} \subseteq N
    /\ \A i \in 1 .. Len(t.ops) : \A k \in 1 .. Len(t.ops[i].nums) :
          t.ops[i].nums[k].var \in N => t.ops[i].nums[k].by \in N

WellFormed(t) ==
    /\ VariablesOK(t) /\ SumsOK(t) /\ ComparisonsOK(t) /\ RulesOK(t)
    /\ IsSeq(t.sums) /\ IsSeq(t.comps) /\ IsSeq(t.rules) /\ IsSeq(t.ops)
    /\ \A i \in 1 .. Len(t.ops) : OperatorOK(t, t.ops[i])
    /\ t.goal \subseteq Facts(t)
    /\ t.metric \in Numeric(t) \cup {0}
    /\ \E N \in SUBSET Numeric(t) : Suffices(t, N)

----------------------------------------------------------------------------
(* IntPacker.  Regular numeric variable v is packed as <<"num", v>>.       *)

Bits(range) ==
    CHOOSE n \in 0 .. range :
        range <= Pow2[n] /\ \A m \in 0 .. n - 1 : Pow2[m] < range

Packed(t) == ({"var"} \X Logic(t)) \cup ({"num"} \X OfType(t, "regular"))
Size(t, x) == IF x[1] = "num" THEN BinBits ELSE Bits(t.range[x[2]])

(* pack_one_bin's choice: the largest variable that fits, the first among  *)
(* equals; numeric variables come after the logic ones.                    *)
BestFit(t, fits) ==
    LET largest == {x \in fits : \A y \in fits : Size(t, y) <= Size(t, x)}
        logic   == {x \in largest : x[1] = "var"}
        among   == IF logic # {} THEN logic ELSE largest
    IN  CHOOSE x \in among : \A y \in among : x[2] <= y[2]

(* p: the variables left, the places given (var_infos), the current bin    *)
(* and its used bits.  When nothing fits, the next variable opens a bin.   *)
PackNext(t, p) ==
    LET fits == {x \in p.left : Size(t, x) <= BinBits - p.used}
        x    == BestFit(t, IF fits = {} THEN p.left ELSE fits)
        bin  == IF fits = {} THEN p.bin + 1 ELSE p.bin
        from == IF fits = {} THEN 0 ELSE p.used
    IN  [left |-> p.left \ {x}, bin |-> bin, used |-> from + Size(t, x),
         place |-> [p.place EXCEPT ![x] = [bin |-> bin, shift |-> from,
                                           bits |-> Size(t, x)]]]

Unplaced == [bin |-> 0, shift |-> 0, bits |-> 0]
Packer(t) ==
    Fold(LAMBDA p, k : PackNext(t, p),
         [left |-> Packed(t), bin |-> 0, used |-> BinBits,
          place |-> [x \in Packed(t) |-> Unplaced]],
         Cardinality(Packed(t))).place

(* VariableInfo::get and set; a double is the whole bin.                   *)
Get(pk, buf, x) ==
    IF x[1] = "num" THEN buf[pk[x].bin]
    ELSE (buf[pk[x].bin] \div Pow2[pk[x].shift]) % Pow2[pk[x].bits]

Put(pk, buf, x, val) ==
    IF x[1] = "num" THEN [buf EXCEPT ![pk[x].bin] = val]
    ELSE [buf EXCEPT ![pk[x].bin] =
                     @ + (val - Get(pk, buf, x)) * Pow2[pk[x].shift]]

(* One write after the other; a write whose .when is FALSE is left out.    *)
PutAll(pk, buf, writes) ==
    Fold(LAMBDA b, k : IF writes[k].when
                       THEN Put(pk, b, writes[k].place, writes[k].val) ELSE b,
         buf, Len(writes))
WriteIf(cond, x, val) == [when |-> cond, place |-> x, val |-> val]
Write(x, val) == WriteIf(TRUE, x, val)

NoBits(pk) == [b \in {pk[x].bin : x \in DOMAIN pk} |-> 0]

Holds(pk, buf, facts) == \A f \in facts : Get(pk, buf, <<"var", f[1]>>) = f[2]

----------------------------------------------------------------------------
(* AxiomEvaluator.                                                         *)

Calculate(op, l, r) ==
    CASE op = "sum" -> l + r [] op = "diff" -> l - r [] op = "mult" -> l * r

Compare(op, l, r) ==
    CASE op = "lt" -> l < r [] op = "le" -> l <= r [] op = "eq" -> l = r
      [] op = "ge" -> l >= r [] op = "gt" -> l > r [] op = "ue" -> l # r

Sum(ax, nums) ==
    [nums EXCEPT ![ax.var] = Calculate(ax.op, nums[ax.lhs], nums[ax.rhs])]
EvaluateArithmetic(t, nums) ==
    Fold(LAMBDA ns, k : Sum(t.sums[k], ns), nums, Len(t.sums))

Compared(ax, nums) ==
    IF Compare(ax.op, nums[ax.lhs], nums[ax.rhs]) THEN 0 ELSE 1
EvaluateComparisons(t, pk, buf, nums) ==
    PutAll(pk, buf, [k \in 1 .. Len(t.comps) |->
                       Write(<<"var", t.comps[k].var>>, Compared(t.comps[k], nums))])

(* The Horn rules run on m: the buffer, the stack of literals that hold    *)
(* and have not been followed, and the unsatisfied conditions of each rule.*)
Change(t, pk, m, i) ==
    LET r == t.rules[i]
    IN  IF Get(pk, m.buf, <<"var", r.var>>) = r.val THEN m
        ELSE [m EXCEPT !.buf = Put(pk, @, <<"var", r.var>>, r.val),
                       !.queue = Append(@, <<r.var, r.val>>)]

OneConditionLess(t, pk, m, i) ==
    LET less == [m EXCEPT !.count[i] = @ - 1]
    IN  IF less.count[i] = 0 THEN Change(t, pk, less, i) ELSE less

(* The literal on top of the stack, and the rules it is a condition of.    *)
Follow(t, pk, m) ==
    Fold(LAMBDA n, i : IF Last(m.queue) \in t.rules[i].cond
                       THEN OneConditionLess(t, pk, n, i) ELSE n,
         [m EXCEPT !.queue = Front(@)], Len(t.rules))

(* Until the stack is empty, which takes at most a step for each variable. *)
ApplyHornRules(t, pk, m) ==
    Fold(LAMBDA n, k : IF n.queue = <<>> THEN n ELSE Follow(t, pk, n),
         m, Len(t.range))

LastLayer(t) ==
    CHOOSE l \in {-1} \cup Range(t.layer) : \A v \in Logic(t) : t.layer[v] <= l

(* Variant: derived variables keep what the predecessor derived.           *)
GivenAndDerived(t) == Logic(t)

(* The variables whose values the rules start from: those in no layer, and *)
(* the first layer when there are comparison axioms.                       *)
Given(t) ==
    {v \in Logic(t) :
        \/ t.layer[v] = -1
        \/ /\ t.comps # <<>>
           /\ \A u \in Logic(t) : t.layer[u] # -1 => t.layer[v] <= t.layer[u]}

(* Negation by failure: the defaults that a finished layer has left.       *)
Defaults(t, pk, buf, layer) ==
    Fold(LAMBDA q, v : IF t.layer[v] = layer /\ Holds(pk, buf, {<<v, t.init[v]>>})
                       THEN Append(q, <<v, t.init[v]>>) ELSE q,
         <<>>, Len(t.range))

ApplyLayer(t, pk, m, layer) ==
    LET n == ApplyHornRules(t, pk, m)
    IN  IF layer = LastLayer(t) THEN n
        ELSE [n EXCEPT !.queue = Defaults(t, pk, n.buf, layer)]

(* A given variable's literal is pushed, a derived one is reset.           *)
StartWith(t, pk, m, v) ==
    IF v \in Given(t)
    THEN [m EXCEPT !.queue = Append(@, <<v, Get(pk, m.buf, <<"var", v>>)>>)]
    ELSE [m EXCEPT !.buf = Put(pk, @, <<"var", v>>, t.init[v])]

Start(t, pk, buf) ==
    Fold(LAMBDA m, v : StartWith(t, pk, m, v),
         [buf |-> buf, queue |-> <<>>,
          count |-> [i \in DOMAIN t.rules |-> Cardinality(t.rules[i].cond)]],
         Len(t.range))

(* The rules without a condition.                                          *)
Begin(t, pk, m) ==
    Fold(LAMBDA n, i : IF t.rules[i].cond = {} THEN Change(t, pk, n, i) ELSE n,
         m, Len(t.rules))

EvaluateLogic(t, pk, buf) ==
    IF t.rules = <<>> THEN buf
    ELSE Fold(LAMBDA m, k : ApplyLayer(t, pk, m, k - 1),
              Begin(t, pk, Start(t, pk, buf)), LastLayer(t) + 1).buf

Evaluate(t, pk, buf, nums) ==
    EvaluateLogic(t, pk, EvaluateComparisons(t, pk, buf, nums))

----------------------------------------------------------------------------
(* StateRegistry: a state is its buffer and the values of instrumentation  *)
(* variables, which are kept beside it.                                    *)

GetNumericVars(t, pk, buf, inst) ==
    EvaluateArithmetic(t,
      [v \in Numeric(t) |->
         CASE t.ntype[v] = "regular"         -> buf[pk[<<"num", v>>].bin]
           [] t.ntype[v] = "constant"        -> t.ninit[v]
           [] t.ntype[v] = "instrumentation" -> inst[v]
           [] t.ntype[v] = "derived"         -> 0])

AssignEffect(fop, value, by) ==
    CASE fop = "assign"   -> by
      [] fop = "increase" -> value + by
      [] fop = "decrease" -> value - by
      [] fop = "scale_up" -> value * by

(* Variant: numeric effects see each other's results.                      *)
AssignNumsInOrder(t, op, nums) ==
    Fold(LAMBDA ns, k :
           LET e == op.nums[k]
           IN  [ns EXCEPT ![e.var] = AssignEffect(e.fop, @, ns[e.by])],
         nums, Len(op.nums))

(* A regular variable on the right is read as it was before the operator.  *)
AssignNum(t, e, before, ns) ==
    [ns EXCEPT ![e.var] =
       AssignEffect(e.fop, @, IF t.ntype[e.by] = "regular" THEN before[e.by]
                              ELSE ns[e.by])]
AssignNums(t, op, nums) ==
    Fold(LAMBDA ns, k : AssignNum(t, op.nums[k], nums, ns), nums, Len(op.nums))

(* Conditions are tested in the predecessor.                               *)
SetEffects(pk, op, buf) ==
    PutAll(pk, buf, [k \in 1 .. Len(op.effs) |->
                       WriteIf(Holds(pk, buf, op.effs[k].cond),
                               <<"var", op.effs[k].var>>, op.effs[k].val)])

WithNums(t, pk, buf, nums) ==
    PutAll(pk, buf, [v \in 1 .. Len(t.ntype) |->
                       WriteIf(t.ntype[v] = "regular", <<"num", v>>, nums[v])])

InstrumentationOf(t, nums) == [v \in OfType(t, "instrumentation") |-> nums[v]]

StateOf(t, pk, buf, nums) ==
    LET all == EvaluateArithmetic(t, nums)
    IN  [buf  |-> Evaluate(t, pk, WithNums(t, pk, buf, nums), all),
         inst |-> InstrumentationOf(t, all)]

InitialState(t, pk) ==
    StateOf(t, pk,
            PutAll(pk, NoBits(pk), [v \in 1 .. Len(t.range) |->
                                      Write(<<"var", v>>, t.init[v])]),
            t.ninit)

IsApplicable(pk, buf, op) == Holds(pk, buf, op.pre)

SuccessorState(t, pk, s, op) ==
    StateOf(t, pk, SetEffects(pk, op, s.buf),
            AssignNums(t, op, GetNumericVars(t, pk, s.buf, s.inst)))

(* set_cost: what the operator adds to the metric in the initial state.    *)
Cost(t, op) ==
    LET init == EvaluateArithmetic(t, t.ninit)
    IN  IF t.metric = 0 THEN 1
        ELSE EvaluateArithmetic(t, AssignNums(t, op, init))[t.metric]
               - init[t.metric]

----------------------------------------------------------------------------
(* SuccessorGenerator: an operator waits in a branch with the conditions   *)
(* that the branch has not tested; sorted by variable in the code, so that *)
(* a branch looks at the one on its own variable.                          *)

Waiting(op, i) == [op |-> i, rest |-> op.pre]
Waits(t) == [op   : DOMAIN t.ops,
             rest : SUBSET UNION {t.ops[i].pre : i \in DOMAIN t.ops}]
Leaf(queue) == [kind |-> "leaf", ops |-> {q.op : q \in queue}]

Tests(q, v) == \E f \in q.rest : f[1] = v
Past(v, val, queue) ==
    {[q EXCEPT !.rest = {f \in @ : f[1] # v}] :
        q \in {p \in queue : <<v, val>> \in p.rest}}

(* Variant: a branch on a variable forgets the operators that do not test  *)
(* it.                                                                     *)
ConstructTested(t, v, queue, after) ==
    LET immediate == {q \in queue : q.rest = {}}
        here      == {q \in queue : Tests(q, v)}
    IN  IF queue = immediate THEN Leaf(queue)
        ELSE IF here = {} THEN after[queue]
        ELSE [kind |-> "switch", var |-> v, ops |-> {q.op : q \in immediate},
              child |-> [val \in 0 .. t.range[v] - 1 |->
                           after[Past(v, val, queue)]],
              other |-> Leaf({})]

(* construct_recursive at variable v; after: what it makes of a queue at   *)
(* the next variable.                                                      *)
Construct(t, v, queue, after) ==
    LET immediate == {q \in queue : q.rest = {}}
        later     == {q \in queue \ immediate : ~Tests(q, v)}
    IN  IF queue = immediate THEN Leaf(queue)
        ELSE IF later = queue THEN after[queue]
        ELSE [kind |-> "switch", var |-> v, ops |-> {q.op : q \in immediate},
              child |-> [val \in 0 .. t.range[v] - 1 |->
                           after[Past(v, val, queue)]],
              other |-> after[later]]

(* From the last variable, after which each queue is a leaf, to the first. *)
SuccessorGenerator(t) ==
    Fold(LAMBDA after, k : [queue \in SUBSET Waits(t) |->
                              Construct(t, Len(t.range) + 1 - k, queue, after)],
         [queue \in SUBSET Waits(t) |-> Leaf(queue)],
         Len(t.range))[{Waiting(t.ops[i], i) : i \in DOMAIN t.ops}]

(* The nodes visited: of a switch, the child of the state's value and the  *)
(* one of the operators that do not test the variable.                     *)
Visits(pk, buf, nodes) ==
    nodes \cup UNION {{g.child[Get(pk, buf, <<"var", g.var>>)], g.other} :
                        g \in {n \in nodes : n.kind = "switch"}}
Generated(t, g, pk, buf) ==
    UNION {n.ops : n \in Fold(LAMBDA nodes, k : Visits(pk, buf, nodes),
                              {g}, Len(t.range))}

----------------------------------------------------------------------------
(* What a task means, for reference: a state is the values of the          *)
(* variables that are not derived and of the regular numeric ones; derived *)
(* variables are the stratified least model of the rules.                  *)

MeaningInit(t) ==
    [base |-> [v \in Base(t) |-> t.init[v]],
     nums |-> [v \in OfType(t, "regular") |-> t.ninit[v]]]

(* Values of all numeric variables a rule or effect may read.              *)
NumbersIn(t, s) ==
    EvaluateArithmetic(t,
      [v \in Numeric(t) |-> IF t.ntype[v] = "regular" THEN s.nums[v]
                            ELSE IF t.ntype[v] = "derived" THEN 0
                            ELSE t.ninit[v]])

(* The facts of a layer that every set closed under its rules contains.    *)
LeastModel(t, below, layer) ==
    LET rules == {r \in Range(t.rules) : t.layer[r.var] = layer}
        heads == {<<r.var, r.val>> : r \in rules}
        closed == {M \in SUBSET heads :
                     \A r \in rules :
                        r.cond \subseteq (below \cup M) => <<r.var, r.val>> \in M}
    IN  {h \in heads : \A M \in closed : h \in M}

(* A layer's derived variables that no rule gives a value keep the default. *)
WithLayer(t, known, layer) ==
    LET model   == LeastModel(t, known, layer)
        derived == {v \in Logic(t) \ ComparisonVars(t) : t.layer[v] = layer}
    IN  known \cup model
          \cup {<<v, t.init[v]>> : v \in {u \in derived : \A f \in model : f[1] # u}}

FactsIn(t, s) ==
    LET nums == NumbersIn(t, s)
        base == {<<v, s.base[v]>> : v \in Base(t)}
        compared == {<<ax.var, Compared(ax, nums)>> : ax \in Range(t.comps)}
    IN  Fold(LAMBDA known, k : WithLayer(t, known, k - 1),
             base \cup compared, LastLayer(t) + 1)

(* An operator changes each variable by its effects on that variable, all  *)
(* of them read in the state before: the last one, or one after the other. *)
MeantValue(op, v, value, facts) ==
    LET sets == {k \in DOMAIN op.effs :
                   op.effs[k].var = v /\ op.effs[k].cond \subseteq facts}
    IN  IF sets = {} THEN value
        ELSE op.effs[CHOOSE k \in sets : \A j \in sets : j <= k].val

MeantNumber(op, v, value, nums) ==
    Fold(LAMBDA n, k : IF op.nums[k].var = v
                       THEN AssignEffect(op.nums[k].fop, n, nums[op.nums[k].by])
                       ELSE n,
         value, Len(op.nums))

Meant(t, s, op) ==
    LET facts == FactsIn(t, s)
        nums  == NumbersIn(t, s)
    IN  [base |-> [v \in Base(t) |-> MeantValue(op, v, s.base[v], facts)],
         nums |-> [v \in OfType(t, "regular") |->
                     MeantNumber(op, v, s.nums[v], nums)]]
=============================================================================
