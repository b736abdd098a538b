---------------------- MODULE TrajectoryScorerProofs ----------------------
(***************************************************************************)
(* Theorems about TrajectoryScorer, for every sequence of well-formed      *)
(* tasks and every bound: an answer is the replay of its own chain, an id  *)
(* of the registry stands for one state, the successor generator finds the *)
(* applicable operators of each registered state, and the controller's     *)
(* validation of an answer gives the same verdict.                         *)
(***************************************************************************)
EXTENDS TrajectoryScorer, PlanningTaskProofs

(* What the definitions over a chain are for a given task.                 *)
StepOf(t, actions, k, s) ==
    IF actions[k] = 0 THEN s ELSE Meant(t, s, t.ops[actions[k]])
AfterOf(t, actions, k) ==
    Fold(LAMBDA s, j : IF actions[j] = 0 THEN s ELSE Meant(t, s, t.ops[actions[j]]),
         MeaningInit(t), k)
CostOf(t, actions, k) ==
    Fold(LAMBDA c, j : c + Cost(t, t.ops[actions[j]]), 0, k)

(* The states of a chain, from the initial one on.                         *)
AfterSteps(t, actions, n, F) ==
    /\ F[0] = MeaningInit(t)
    /\ \A k \in 1 .. n : F[k] = StepOf(t, actions, k, F[k - 1])

(* AfterOf is that loop.                                                   *)
LEMMA AfterRun ==
  ASSUME NEW t,
         NEW actions,
         NEW n \in Nat
  PROVE  \E F : AfterSteps(t, actions, n, F) /\ AfterOf(t, actions, n) = F[n]
<1> DEFINE N == n
           From == MeaningInit(t)
           Step(x, k) == StepOf(t, actions, k, x)
           Upto(j, h) == h = [k \in 0 .. j |-> IF k = 0 THEN From ELSE Step(h[k - 1], k)]
           Some == {j \in 0 .. N : \E h : Upto(j, h)}
<1> N \in Nat
  OBVIOUS
<1> HIDE DEF N, From, Step, Upto
<1>1. 0 \in Some
  <2>1. Upto(0, [k \in 0 .. 0 |-> From])
    BY DEF Upto
  <2> QED  BY <2>1
<1>2. ASSUME NEW j \in 0 .. N - 1, j \in Some  PROVE  j + 1 \in Some
  <2>1. PICK h : Upto(j, h)
    BY <1>2
  <2> DEFINE h2 == [k \in 0 .. j + 1 |-> IF k = j + 1 THEN Step(h[j], k) ELSE h[k]]
  <2>2. Upto(j + 1, h2)
    BY <2>1 DEF Upto
  <2> HIDE DEF h2
  <2> QED  BY <2>2
<1> HIDE DEF Some
<1>3. \E h : Upto(N, h)
  <2>1. 0 .. N \subseteq Some
    BY <1>1, <1>2, Upward
  <2> QED  BY <2>1 DEF Some
<1>4. PICK F : Upto(N, F) /\ AfterOf(t, actions, n) = F[N]
  BY <1>3, Zenon DEF Upto, Step, N, From, AfterOf, StepOf, Fold
<1>5. /\ F[0] = From
      /\ \A k \in 1 .. N : F[k] = Step(F[k - 1], k)
  BY <1>4 DEF Upto
<1>6. AfterSteps(t, actions, n, F)
  BY <1>5 DEF Step, N, From, AfterSteps
<1> QED  BY <1>4, <1>6 DEF N

(* The state after an action is the action applied to the state before.    *)
LEMMA AfterNext ==
  ASSUME NEW t, NEW actions
  PROVE  /\ AfterOf(t, actions, 0) = MeaningInit(t)
         /\ \A k \in Nat : AfterOf(t, actions, k + 1)
                             = StepOf(t, actions, k + 1, AfterOf(t, actions, k))
<1>1. AfterOf(t, actions, 0) = MeaningInit(t)
  BY AfterRun DEF AfterSteps
<1>2. ASSUME NEW k \in Nat
      PROVE  AfterOf(t, actions, k + 1) = StepOf(t, actions, k + 1, AfterOf(t, actions, k))
  <2>1. PICK F : AfterSteps(t, actions, k + 1, F) /\ AfterOf(t, actions, k + 1) = F[k + 1]
    <3>1. k + 1 \in Nat
      OBVIOUS
    <3> QED  BY <3>1, AfterRun
  <2>2. PICK G : AfterSteps(t, actions, k, G) /\ AfterOf(t, actions, k) = G[k]
    BY AfterRun
  <2> DEFINE Same == {j \in 0 .. k : F[j] = G[j]}
  <2>3. 0 \in Same
    BY <2>1, <2>2 DEF AfterSteps
  <2>4. ASSUME NEW j \in 0 .. k - 1, j \in Same  PROVE  j + 1 \in Same
    <3>1. /\ j + 1 \in 1 .. k /\ j + 1 \in 1 .. k + 1 /\ j + 1 \in 0 .. k
          /\ (j + 1) - 1 = j
      OBVIOUS
    <3>2. F[j] = G[j]
      BY <2>4
    <3>3. F[j + 1] = G[j + 1]
      BY <2>1, <2>2, <3>1, <3>2 DEF AfterSteps
    <3> QED  BY <3>1, <3>3
  <2>5. F[k] = G[k]
    <3> HIDE DEF Same
    <3>1. 0 .. k \subseteq Same
      BY <2>3, <2>4, Upward
    <3> QED  BY <3>1 DEF Same
  <2>6. k + 1 \in 1 .. k + 1 /\ (k + 1) - 1 = k
    OBVIOUS
  <2> QED  BY <2>1, <2>2, <2>5, <2>6 DEF AfterSteps
<1> QED  BY <1>1, <1>2

(* The cost of a chain.                                                    *)
CostSteps(t, actions, n, F) ==
    /\ F[0] = 0
    /\ \A k \in 1 .. n : F[k] = F[k - 1] + Cost(t, t.ops[actions[k]])

(* CostOf is that loop.                                                    *)
LEMMA CostRun ==
  ASSUME NEW t,
         NEW actions,
         NEW n \in Nat
  PROVE  \E F : CostSteps(t, actions, n, F) /\ CostOf(t, actions, n) = F[n]
<1> DEFINE N == n
           From == 0
           Step(x, k) == x + Cost(t, t.ops[actions[k]])
           Upto(j, h) == h = [k \in 0 .. j |-> IF k = 0 THEN From ELSE Step(h[k - 1], k)]
           Some == {j \in 0 .. N : \E h : Upto(j, h)}
<1> N \in Nat
  OBVIOUS
<1> HIDE DEF N, From, Step, Upto
<1>1. 0 \in Some
  <2>1. Upto(0, [k \in 0 .. 0 |-> From])
    BY DEF Upto
  <2> QED  BY <2>1
<1>2. ASSUME NEW j \in 0 .. N - 1, j \in Some  PROVE  j + 1 \in Some
  <2>1. PICK h : Upto(j, h)
    BY <1>2
  <2> DEFINE h2 == [k \in 0 .. j + 1 |-> IF k = j + 1 THEN Step(h[j], k) ELSE h[k]]
  <2>2. Upto(j + 1, h2)
    BY <2>1 DEF Upto
  <2> HIDE DEF h2
  <2> QED  BY <2>2
<1> HIDE DEF Some
<1>3. \E h : Upto(N, h)
  <2>1. 0 .. N \subseteq Some
    BY <1>1, <1>2, Upward
  <2> QED  BY <2>1 DEF Some
<1>4. PICK F : Upto(N, F) /\ CostOf(t, actions, n) = F[N]
  BY <1>3, Zenon DEF Upto, Step, N, From, CostOf, Fold
<1>5. /\ F[0] = From
      /\ \A k \in 1 .. N : F[k] = Step(F[k - 1], k)
  BY <1>4 DEF Upto
<1>6. CostSteps(t, actions, n, F)
  BY <1>5 DEF Step, N, From, CostSteps
<1> QED  BY <1>4, <1>6 DEF N

(* The cost of a chain grows by the cost of each of its operators.         *)
LEMMA CostNext ==
  ASSUME NEW t, NEW actions
  PROVE  /\ CostOf(t, actions, 0) = 0
         /\ \A k \in Nat : CostOf(t, actions, k + 1)
                             = CostOf(t, actions, k) + Cost(t, t.ops[actions[k + 1]])
<1>1. CostOf(t, actions, 0) = 0
  BY CostRun DEF CostSteps
<1>2. ASSUME NEW k \in Nat
      PROVE  CostOf(t, actions, k + 1) = CostOf(t, actions, k) + Cost(t, t.ops[actions[k + 1]])
  <2>1. PICK F : CostSteps(t, actions, k + 1, F) /\ CostOf(t, actions, k + 1) = F[k + 1]
    <3>1. k + 1 \in Nat
      OBVIOUS
    <3> QED  BY <3>1, CostRun
  <2>2. PICK G : CostSteps(t, actions, k, G) /\ CostOf(t, actions, k) = G[k]
    BY CostRun
  <2> DEFINE Same == {j \in 0 .. k : F[j] = G[j]}
  <2>3. 0 \in Same
    BY <2>1, <2>2 DEF CostSteps
  <2>4. ASSUME NEW j \in 0 .. k - 1, j \in Same  PROVE  j + 1 \in Same
    <3>1. /\ j + 1 \in 1 .. k /\ j + 1 \in 1 .. k + 1 /\ j + 1 \in 0 .. k
          /\ (j + 1) - 1 = j
      OBVIOUS
    <3>2. F[j] = G[j]
      BY <2>4
    <3>3. F[j + 1] = G[j + 1]
      BY <2>1, <2>2, <3>1, <3>2 DEF CostSteps
    <3> QED  BY <3>1, <3>3
  <2>5. F[k] = G[k]
    <3> HIDE DEF Same
    <3>1. 0 .. k \subseteq Same
      BY <2>3, <2>4, Upward
    <3> QED  BY <3>1 DEF Same
  <2>6. k + 1 \in 1 .. k + 1 /\ (k + 1) - 1 = k
    OBVIOUS
  <2> QED  BY <2>1, <2>2, <2>5, <2>6 DEF CostSteps
<1> QED  BY <1>1, <1>2

(* The registry: each packed state once, with what it stands for.          *)
Insts(t) == [OfType(t, "instrumentation") -> Int]
Registry(t, pk, p, i, m) ==
    /\ p \in Seq(Stored(t, pk)) /\ i \in Seq(Insts(t)) /\ m \in Seq(Meanings(t))
    /\ Len(p) # 0 /\ Len(i) = Len(p) /\ Len(m) = Len(p)
    /\ \A k \in 1 .. Len(p) : Represents(t, pk, p[k], m[k])
    /\ \A j, k \in 1 .. Len(p) : p[j] = p[k] => j = k
    /\ m[1] = MeaningInit(t)

(* The first k actions are legal, and none before the last ends the chain. *)
GoalAt(t, actions, k) == t.goal \subseteq FactsIn(t, AfterOf(t, actions, k))
LegalAt(t, actions, k) ==
    /\ actions[k + 1] # 0
    /\ t.ops[actions[k + 1]].pre \subseteq FactsIn(t, AfterOf(t, actions, k))

(* The states so far are those after each of the actions: all of these     *)
(* were legal, and no state before the last ended the chain.               *)
Walked(t, actions, next, states, m, sum) ==
    /\ actions \in Seq({0} \cup DOMAIN t.ops)
    /\ next \in 1 .. Len(actions) + 1
    /\ states \in Seq(1 .. Len(m)) /\ Len(states) = next
    /\ \A k \in 1 .. next : m[states[k]] = AfterOf(t, actions, k - 1)
    /\ \A k \in 0 .. next - 2 : LegalAt(t, actions, k) /\ ~GoalAt(t, actions, k)
    /\ sum = CostOf(t, actions, next - 1)

(* Why the evaluation ended there.                                         *)
Stops(t, actions, k, outcome) ==
    \/ outcome = "goal_reached" /\ GoalAt(t, actions, k)
    \/ outcome = "legal_incomplete" /\ ~GoalAt(t, actions, k) /\ k = Len(actions)
    \/ /\ outcome = "invalid" /\ ~GoalAt(t, actions, k)
       /\ k < Len(actions) /\ ~LegalAt(t, actions, k)

(* The inductive invariant of the scorer: the registry is exact, the chain *)
(* under evaluation is a walk from the initial state, and an answer ends   *)
(* for the reason it gives.                                                *)
ScorerInv ==
    /\ task \in 1 .. Len(Tasks)
    /\ Registry(T, PK, pool, info, meaning)
    /\ pc \in {"chain", "answer"} => Walked(T, chain, at, path, meaning, cost)
    /\ pc = "chain" => ~GoalAt(T, chain, at - 1)
    /\ Answered => Stops(T, chain, at - 1, result.outcome)

(* The loaded task is one of the tasks, with the packer, the tree and the  *)
(* costs made for it.                                                      *)
LEMMA TaskIs ==
  ASSUME task \in 1 .. Len(Tasks)
  PROVE  /\ T = Tasks[task] /\ PK = Packer(T) /\ WellFormed(T) /\ Placing(T, PK)
         /\ Loaded[task].generator = SuccessorGenerator(T)
         /\ Loaded[task].costs = [i \in DOMAIN T.ops |-> Cost(T, T.ops[i])]
         /\ DOMAIN T.ops = 1 .. Len(T.ops)
<1>1. DOMAIN Tasks = 1 .. Len(Tasks)
  BY ScorerAssumption DEF IsSeq
<1>2. Loaded[task] = Load(Tasks[task])
  BY <1>1 DEF Loaded
<1>3. /\ T = Tasks[task] /\ PK = Packer(T)
      /\ Loaded[task].generator = SuccessorGenerator(T)
      /\ Loaded[task].costs = [i \in DOMAIN T.ops |-> Cost(T, T.ops[i])]
  BY <1>2 DEF T, PK, Load
<1>4. WellFormed(T)
  BY <1>3, ScorerAssumption
<1>5. Placing(T, PK)
  BY <1>3, <1>4, PackerPlaces DEF Placing, WellFormed
<1>6. DOMAIN T.ops = 1 .. Len(T.ops)
  BY <1>4 DEF WellFormed, IsSeq
<1> QED  BY <1>3, <1>4, <1>5, <1>6

(* What the code tests on a packed state is what the task means.           *)
LEMMA TestsMean ==
  ASSUME NEW t, WellFormed(t), NEW pk, NEW buf, NEW s,
         Represents(t, pk, buf, s),
         NEW facts, facts \subseteq Facts(t)
  PROVE  Holds(pk, buf, facts) <=> facts \subseteq FactsIn(t, s)
BY HoldsIff DEF Represents

(* One more state, that stands for something, with its cost information.   *)
Added(t, pk, p, i, m, buf, inst, meant, p2, i2, m2) ==
    /\ Registry(t, pk, p, i, m) /\ Represents(t, pk, buf, meant)
    /\ inst \in Insts(t) /\ \A k \in 1 .. Len(p) : p[k] # buf
    /\ p2 = Append(p, buf) /\ i2 = Append(i, inst) /\ m2 = Append(m, meant)

(* A state that is not yet in the registry gets the next id.               *)
LEMMA RegistryAdds ==
  ASSUME NEW t, NEW pk, NEW p, NEW i, NEW m, NEW buf, NEW inst, NEW meant,
         NEW p2, NEW i2, NEW m2,
         Added(t, pk, p, i, m, buf, inst, meant, p2, i2, m2)
  PROVE  /\ Registry(t, pk, p2, i2, m2)
         /\ Len(p) + 1 \in 1 .. Len(m2) /\ m2[Len(p) + 1] = meant
         /\ \A k \in 1 .. Len(m) : k \in 1 .. Len(m2) /\ m2[k] = m[k]
<1> DEFINE B == Stored(t, pk)
           I == Insts(t)
           M == Meanings(t)
           n == Len(p)
<1>1. /\ p \in Seq(B) /\ i \in Seq(I) /\ m \in Seq(M)
      /\ n # 0 /\ Len(i) = n /\ Len(m) = n
      /\ \A k \in 1 .. n : Represents(t, pk, p[k], m[k])
      /\ \A j, k \in 1 .. n : p[j] = p[k] => j = k
      /\ m[1] = MeaningInit(t)
  BY DEF Registry, Added
<1>2. buf \in B /\ meant \in M /\ inst \in I
  BY DEF Represents, Added
<1>0. /\ p2 = Append(p, buf) /\ i2 = Append(i, inst) /\ m2 = Append(m, meant)
      /\ \A k \in 1 .. n : p[k] # buf
      /\ Represents(t, pk, buf, meant)
  BY DEF Added
<1> HIDE DEF B, I, M
<1>3. n \in Nat
  BY <1>1
<1>4. /\ p2 \in Seq(B) /\ Len(p2) = n + 1 /\ p2[n + 1] = buf
      /\ \A k \in 1 .. n : p2[k] = p[k]
  BY <1>0, <1>1, <1>2
<1>5. i2 \in Seq(I) /\ Len(i2) = n + 1
  BY <1>0, <1>1, <1>2
<1>6. /\ m2 \in Seq(M) /\ Len(m2) = n + 1 /\ m2[n + 1] = meant
      /\ \A k \in 1 .. n : m2[k] = m[k]
  BY <1>0, <1>1, <1>2
<1>7. /\ \A k \in 1 .. n + 1 : k \in 1 .. n \/ k = n + 1
      /\ \A k \in 1 .. n : k \in 1 .. n + 1 /\ k # n + 1
      /\ n + 1 \in 1 .. n + 1 /\ 1 \in 1 .. n /\ n + 1 # 0
  BY <1>1, <1>3
<1> HIDE DEF n
<1>9. \A k \in 1 .. n + 1 : Represents(t, pk, p2[k], m2[k])
  BY <1>0, <1>1, <1>4, <1>6, <1>7
<1>10. \A j, k \in 1 .. n + 1 : p2[j] = p2[k] => j = k
  BY <1>0, <1>1, <1>4, <1>7
<1>11. m2[1] = MeaningInit(t)
  BY <1>1, <1>6, <1>7
<1>12. Registry(t, pk, p2, i2, m2)
  BY <1>4, <1>5, <1>6, <1>7, <1>9, <1>10, <1>11 DEF Registry, B, I, M
<1> QED  BY <1>1, <1>6, <1>7, <1>12 DEF n

(* A state that is there keeps its id; its cost information may change.    *)
LEMMA RegistryKeeps ==
  ASSUME NEW t, NEW pk, NEW p, NEW i, NEW m, Registry(t, pk, p, i, m),
         NEW inst \in Insts(t), NEW id \in 1 .. Len(p)
  PROVE  Registry(t, pk, p, [i EXCEPT ![id] = inst], m)
<1> DEFINE I == Insts(t)
           i2 == [i EXCEPT ![id] = inst]
<1>1. i \in Seq(I) /\ inst \in I /\ Len(i) = Len(p)
  BY DEF Registry
<1> HIDE DEF I
<1>2. i2 \in Seq(I) /\ Len(i2) = Len(p)
  BY <1>1
<1> HIDE DEF i2
<1>3. Registry(t, pk, p, i2, m)
  BY <1>2 DEF Registry, I
<1> QED  BY <1>3 DEF i2

(* A registry of one state.                                                *)
LEMMA RegistryOne ==
  ASSUME NEW t, NEW pk, NEW buf, NEW inst \in Insts(t),
         Represents(t, pk, buf, MeaningInit(t))
  PROVE  Registry(t, pk, <<buf>>, <<inst>>, <<MeaningInit(t)>>)
<1> DEFINE B == Stored(t, pk)
           I == Insts(t)
           M == Meanings(t)
           first == MeaningInit(t)
<1>1. buf \in B /\ first \in M /\ inst \in I
  BY DEF Represents
<1>2. Represents(t, pk, buf, first)
  OBVIOUS
<1> HIDE DEF B, I, M, first
<1>3. <<buf>> \in Seq(B) /\ <<inst>> \in Seq(I) /\ <<first>> \in Seq(M)
  BY <1>1
<1>4. /\ Len(<<buf>>) = 1 /\ Len(<<inst>>) = 1 /\ Len(<<first>>) = 1
      /\ <<buf>>[1] = buf /\ <<first>>[1] = first
  OBVIOUS
<1>5. \A k \in 1 .. 1 : k = 1
  OBVIOUS
<1>6. /\ \A k \in 1 .. 1 : Represents(t, pk, <<buf>>[k], <<first>>[k])
      /\ \A j, k \in 1 .. 1 : <<buf>>[j] = <<buf>>[k] => j = k
  BY <1>2, <1>4, <1>5
<1> QED  BY <1>3, <1>4, <1>6 DEF Registry, B, I, M, first

(* A state is registered under the id that stands for it.                  *)
LEMMA Registers ==
  ASSUME ScorerInv, NEW s, NEW meant, Represents(T, PK, s.buf, meant),
         s.inst \in Insts(T),
         NEW before, NEW id \in 1 .. Len(pool) + 1,
         Register(before, s, meant, id)
  PROVE  /\ Registry(T, PK, pool', info', meaning')
         /\ id \in 1 .. Len(meaning') /\ meaning'[id] = meant
         /\ \A k \in 1 .. Len(meaning) : k \in 1 .. Len(meaning') /\ meaning'[k] = meaning[k]
<1>1. Registry(T, PK, pool, info, meaning) /\ WellFormed(T) /\ Placing(T, PK)
  BY TaskIs DEF ScorerInv
<1>2. Len(meaning) = Len(pool) /\ DOMAIN pool = 1 .. Len(pool)
  BY <1>1 DEF Registry
<1>3. IdsOf(s.buf) = {k \in 1 .. Len(pool) : pool[k] = s.buf}
  BY <1>2 DEF IdsOf
<1>4. CASE IdsOf(s.buf) = {}
  <2>1. \A k \in 1 .. Len(pool) : pool[k] # s.buf
    BY <1>3, <1>4
  <2>2. Added(T, PK, pool, info, meaning, s.buf, s.inst, meant, pool', info', meaning')
    BY <1>1, <1>4, <2>1 DEF Added, Register
  <2>3. id = Len(pool) + 1
    BY <1>4 DEF Register
  <2> QED  BY <2>2, <2>3, RegistryAdds
<1>5. CASE IdsOf(s.buf) # {}
  <2>1. /\ id \in IdsOf(s.buf) /\ pool' = pool /\ meaning' = meaning
        /\ info' = info \/ info' = [info EXCEPT ![id] = s.inst]
    BY <1>5 DEF Register
  <2>2. id \in 1 .. Len(pool) /\ pool[id] = s.buf
    BY <1>3, <2>1
  <2>3. Represents(T, PK, pool[id], meaning[id])
    BY <1>1, <2>2 DEF Registry
  <2>4. meaning[id] = meant
    BY <1>1, <2>2, <2>3, RepresentsOne
  <2>5. Registry(T, PK, pool', info', meaning')
    <3>1. Registry(T, PK, pool, [info EXCEPT ![id] = s.inst], meaning)
      BY <1>1, <2>2, RegistryKeeps
    <3> QED  BY <1>1, <2>1, <3>1
  <2> QED  BY <1>2, <2>1, <2>2, <2>4, <2>5
<1> QED  BY <1>4, <1>5

(* A process that has loaded its task has the initial state in its registry. *)
LEMMA ScorerInit == Init => ScorerInv
<1> SUFFICES ASSUME Init  PROVE  ScorerInv
  OBVIOUS
<1>1. task \in 1 .. Len(Tasks)
  BY ScorerAssumption DEF Init, IsSeq
<1>2. WellFormed(T) /\ Placing(T, PK)
  BY <1>1, TaskIs
<1> DEFINE s == InitialState(T, PK)
<1>3. /\ Represents(T, PK, s.buf, MeaningInit(T))
      /\ s.inst \in Insts(T)
  BY <1>2, InitialRepresents DEF Insts
<1>4. pool = <<s.buf>> /\ info = <<s.inst>> /\ meaning = <<MeaningInit(T)>>
      /\ pc = "read"
  BY DEF Init
<1> HIDE DEF s
<1>5. Registry(T, PK, pool, info, meaning)
  BY <1>3, <1>4, RegistryOne
<1> QED  BY <1>1, <1>4, <1>5 DEF ScorerInv, Answered

(* What the scorer does next to a chain keeps the walk so far.             *)
LEMMA WalkedFrom ==
  ASSUME NEW t, NEW actions \in Seq({0} \cup DOMAIN t.ops), NEW m,
         m[1] = MeaningInit(t), Len(m) \in Nat, Len(m) # 0
  PROVE  Walked(t, actions, 1, <<1>>, m, 0)
<1> DEFINE n == Len(m)
           first == AfterOf(t, actions, 0)
           zero == CostOf(t, actions, 0)
<1>1. m[1] = first /\ zero = 0
  BY AfterNext, CostNext
<1>2. n \in Nat /\ n # 0 /\ Len(actions) \in Nat
  OBVIOUS
<1> HIDE DEF n, first, zero
<1>3. <<1>> \in Seq(1 .. n) /\ Len(<<1>>) = 1 /\ <<1>>[1] = 1
  <2>1. 1 \in 1 .. n
    BY <1>2
  <2> DEFINE I == 1 .. n
  <2> HIDE DEF I
  <2>2. <<1>> \in Seq(I)
    BY <2>1 DEF I
  <2> QED  BY <2>2 DEF I
<1>4. /\ 1 \in 1 .. Len(actions) + 1 /\ 1 - 1 = 0 /\ 0 .. 1 - 2 = {}
      /\ \A k \in 1 .. 1 : k = 1
  BY <1>2
<1>5. \A k \in 1 .. 1 : m[<<1>>[k]] = AfterOf(t, actions, k - 1)
  BY <1>1, <1>3, <1>4 DEF first
<1>6. 0 = CostOf(t, actions, 1 - 1)
  BY <1>1, <1>4 DEF zero
<1> QED  BY <1>3, <1>4, <1>5, <1>6 DEF Walked, n

(* A legal action from a state that is not a goal leads the walk on.       *)
Leads(t, actions, next, states, m, sum, id, m2) ==
    /\ Walked(t, actions, next, states, m, sum) /\ next <= Len(actions)
    /\ LegalAt(t, actions, next - 1) /\ ~GoalAt(t, actions, next - 1)
    /\ id \in 1 .. Len(m2) /\ m2[id] = AfterOf(t, actions, next)
    /\ \A k \in 1 .. Len(m) : k \in 1 .. Len(m2) /\ m2[k] = m[k]

(* Such an action makes the walk one state longer.                         *)
LEMMA WalkedOn ==
  ASSUME NEW t, NEW actions, NEW next, NEW states, NEW m, NEW sum, NEW id,
         NEW m2,
         Leads(t, actions, next, states, m, sum, id, m2)
  PROVE  Walked(t, actions, next + 1, Append(states, id), m2,
                sum + Cost(t, t.ops[actions[next]]))
<1> DEFINE A == 1 .. Len(m)
           B == 1 .. Len(m2)
           S == {0} \cup DOMAIN t.ops
           states2 == Append(states, id)
           c == Cost(t, t.ops[actions[next]])
<1>1. /\ actions \in Seq(S) /\ next \in 1 .. Len(actions) + 1 /\ next <= Len(actions)
      /\ states \in Seq(A) /\ Len(states) = next
      /\ \A k \in 1 .. next : m[states[k]] = AfterOf(t, actions, k - 1)
      /\ \A k \in 0 .. next - 2 : LegalAt(t, actions, k) /\ ~GoalAt(t, actions, k)
      /\ sum = CostOf(t, actions, next - 1)
  BY DEF Leads, Walked
<1>2. /\ LegalAt(t, actions, next - 1) /\ ~GoalAt(t, actions, next - 1)
      /\ id \in B /\ m2[id] = AfterOf(t, actions, next)
      /\ \A k \in A : k \in B /\ m2[k] = m[k]
  BY DEF Leads
<1> HIDE DEF A, B, S, c
<1>3. /\ next \in Nat /\ next - 1 \in Nat /\ (next - 1) + 1 = next
      /\ next + 1 \in 1 .. Len(actions) + 1 /\ (next + 1) - 1 = next
      /\ \A k \in 1 .. next + 1 : k \in 1 .. next \/ k = next + 1
      /\ \A k \in 0 .. (next + 1) - 2 : k \in 0 .. next - 2 \/ k = next - 1
  BY <1>1
<1>4. states \in Seq(B)
  <2>1. \A k \in 1 .. next : states[k] \in B
    BY <1>1, <1>2
  <2>2. states \in [1 .. next -> B]
    BY <1>1, <2>1
  <2> QED  BY <1>3, <2>2
<1>5. /\ states2 \in Seq(B) /\ Len(states2) = next + 1 /\ states2[next + 1] = id
      /\ \A k \in 1 .. next : states2[k] = states[k] /\ states[k] \in A
  BY <1>1, <1>2, <1>3, <1>4
<1> HIDE DEF states2
<1>6. \A k \in 1 .. next + 1 : m2[states2[k]] = AfterOf(t, actions, k - 1)
  BY <1>1, <1>2, <1>3, <1>5
<1>7. \A k \in 0 .. (next + 1) - 2 : LegalAt(t, actions, k) /\ ~GoalAt(t, actions, k)
  BY <1>1, <1>2, <1>3
<1>8. CostOf(t, actions, next) = CostOf(t, actions, next - 1) + c
  BY <1>3, CostNext DEF c
<1>9. sum + c = CostOf(t, actions, (next + 1) - 1)
  BY <1>1, <1>3, <1>8
<1> QED  BY <1>1, <1>3, <1>5, <1>6, <1>7, <1>9 DEF Walked, B, S, c, states2

(* A process never loads another task.                                     *)
LEMMA TaskStays ==
  ASSUME task' = task
  PROVE  T' = T /\ PK' = PK
BY DEF T, PK, Loaded

(* A step that leaves no chain behind and the registry alone.              *)
LEMMA Quiet ==
  ASSUME ScorerInv, task' = task, UNCHANGED registry,
         pc' \notin {"chain", "answer"}
  PROVE  ScorerInv'
BY TaskStays DEF ScorerInv, registry, Answered

(* A step that ends an evaluation for a reason.                            *)
LEMMA Finishes ==
  ASSUME ScorerInv, task' = task, UNCHANGED registry, UNCHANGED request,
         pc = "chain", pc' = "answer",
         result'.status = "ok" => Stops(T, chain, at - 1, result'.outcome)
  PROVE  ScorerInv'
BY TaskStays DEF ScorerInv, registry, request, Answered

(* Where the evaluation of a chain is, and what its tests mean there.      *)
LEMMA AtCurrent ==
  ASSUME ScorerInv, pc = "chain"
  PROVE  /\ WellFormed(T) /\ Placing(T, PK)
         /\ Current \in 1 .. Len(pool) /\ Current \in 1 .. Len(meaning)
         /\ at \in Nat /\ at # 0 /\ Len(chain) \in Nat
         /\ meaning[Current] = AfterOf(T, chain, at - 1)
         /\ Represents(T, PK, pool[Current], meaning[Current])
         /\ info[Current] \in Insts(T)
         /\ at <= Len(chain) => /\ chain[at] # 0 => chain[at] \in 1 .. Len(T.ops)
                                /\ Resolves(chain[at]) <=> LegalAt(T, chain, at - 1)
<1>1. WellFormed(T) /\ Placing(T, PK) /\ DOMAIN T.ops = 1 .. Len(T.ops)
  BY TaskIs DEF ScorerInv
<1>2. /\ Walked(T, chain, at, path, meaning, cost)
      /\ Registry(T, PK, pool, info, meaning)
  BY DEF ScorerInv
<1> DEFINE A == 1 .. Len(meaning)
           S == {0} \cup DOMAIN T.ops
           I == Insts(T)
<1>3. /\ chain \in Seq(S) /\ at \in 1 .. Len(chain) + 1
      /\ path \in Seq(A) /\ Len(path) = at
      /\ \A k \in 1 .. at : meaning[path[k]] = AfterOf(T, chain, k - 1)
  BY <1>2 DEF Walked
<1>4. /\ info \in Seq(I) /\ Len(info) = Len(pool) /\ Len(meaning) = Len(pool)
      /\ \A k \in 1 .. Len(pool) : Represents(T, PK, pool[k], meaning[k])
  BY <1>2 DEF Registry
<1> HIDE DEF A, S, I
<1>5. Len(chain) \in Nat /\ at \in Nat /\ at # 0 /\ at \in 1 .. at
  BY <1>3
<1>6. Current = path[at] /\ path[at] \in A
  BY <1>3, <1>5 DEF Current, Last
<1>7. Current \in 1 .. Len(pool) /\ Current \in 1 .. Len(meaning)
  BY <1>4, <1>6 DEF A
<1>8. meaning[Current] = AfterOf(T, chain, at - 1)
  BY <1>3, <1>5, <1>6
<1>9. Represents(T, PK, pool[Current], meaning[Current])
  BY <1>4, <1>7
<1>10. info[Current] \in I
  BY <1>4, <1>7
<1>11. ASSUME at <= Len(chain)
       PROVE  /\ chain[at] # 0 => chain[at] \in 1 .. Len(T.ops)
              /\ Resolves(chain[at]) <=> LegalAt(T, chain, at - 1)
  <2>1. at \in 1 .. Len(chain) /\ (at - 1) + 1 = at
    BY <1>5, <1>11
  <2>2. chain[at] \in S
    BY <1>3, <2>1
  <2>3. chain[at] # 0 => chain[at] \in 1 .. Len(T.ops)
    BY <1>1, <2>2 DEF S
  <2>4. CASE chain[at] = 0
    BY <2>1, <2>4 DEF Resolves, LegalAt
  <2>5. CASE chain[at] # 0
    <3> DEFINE op == T.ops[chain[at]]
    <3>1. op.pre \subseteq Facts(T)
      <4>1. OperatorOK(T, op)
        BY <1>1, <2>3, <2>5 DEF WellFormed
      <4> QED  BY <4>1 DEF OperatorOK
    <3> HIDE DEF op
    <3>2. Holds(PK, pool[Current], op.pre) <=> op.pre \subseteq FactsIn(T, meaning[Current])
      BY <1>1, <1>9, <3>1, TestsMean
    <3>3. Resolves(chain[at]) <=> Holds(PK, pool[Current], op.pre)
      BY <2>5 DEF Resolves, IsApplicable, op
    <3>4. LegalAt(T, chain, at - 1) <=> op.pre \subseteq FactsIn(T, meaning[Current])
      BY <1>8, <2>1, <2>5 DEF LegalAt, op
    <3> QED  BY <2>3, <3>2, <3>3, <3>4
  <2> QED  BY <2>3, <2>4, <2>5
<1> QED  BY <1>1, <1>5, <1>7, <1>8, <1>9, <1>10, <1>11 DEF I

(* The goal test of a packed state.                                        *)
LEMMA GoalMeans ==
  ASSUME WellFormed(T), NEW buf, NEW s, Represents(T, PK, buf, s)
  PROVE  TestGoal(buf) <=> T.goal \subseteq FactsIn(T, s)
<1>1. T.goal \subseteq Facts(T)
  BY DEF WellFormed
<1> QED  BY <1>1, TestsMean DEF TestGoal

(* A new request starts its walk in the initial state, id 1.               *)
LEMMA ScorerBegins ==
  ASSUME ScorerInv, NEW actions \in Chains, BeginScore(actions)
  PROVE  ScorerInv'
<1>1. /\ task' = task /\ chain' = actions /\ at' = 1 /\ path' = <<1>> /\ cost' = 0
      /\ pool' = pool /\ info' = info /\ meaning' = meaning
      /\ IF TestGoal(pool[1])
         THEN /\ result' = [status |-> "ok", outcome |-> "goal_reached"]
              /\ pc' = "answer"
         ELSE result' = None /\ pc' = "chain"
  BY DEF BeginScore, registry
<1>2. T' = T /\ PK' = PK
  BY <1>1, TaskStays
<1>3. WellFormed(T) /\ Registry(T, PK, pool, info, meaning) /\ task \in 1 .. Len(Tasks)
  BY TaskIs DEF ScorerInv
<1>4. actions \in Seq({0} \cup DOMAIN T.ops)
  <2> DEFINE S == {0} \cup DOMAIN T.ops
  <2>1. actions \in UNION {[1 .. n -> S] : n \in 0 .. MaxChain}
    BY DEF Chains
  <2> HIDE DEF S
  <2>2. PICK n \in 0 .. MaxChain : actions \in [1 .. n -> S]
    BY <2>1
  <2>3. n \in Nat
    BY ScorerAssumption, <2>2
  <2>4. actions \in Seq(S)
    BY <2>2, <2>3
  <2> QED  BY <2>4 DEF S
<1>5. /\ meaning[1] = MeaningInit(T) /\ Len(meaning) \in Nat /\ Len(meaning) # 0
      /\ Represents(T, PK, pool[1], meaning[1])
  <2>1. /\ meaning \in Seq(Meanings(T)) /\ Len(pool) # 0 /\ Len(meaning) = Len(pool)
        /\ \A k \in 1 .. Len(pool) : Represents(T, PK, pool[k], meaning[k])
        /\ meaning[1] = MeaningInit(T)
    BY <1>3 DEF Registry
  <2>2. Len(meaning) \in Nat
    BY <2>1
  <2>3. 1 \in 1 .. Len(pool)
    BY <2>1, <2>2
  <2> QED  BY <2>1, <2>2, <2>3
<1>6. Walked(T, actions, 1, <<1>>, meaning, 0)
  BY <1>4, <1>5, WalkedFrom
<1>7. TestGoal(pool[1]) <=> GoalAt(T, actions, 0)
  <2>1. AfterOf(T, actions, 0) = meaning[1]
    BY <1>5, AfterNext
  <2>2. TestGoal(pool[1]) <=> T.goal \subseteq FactsIn(T, meaning[1])
    BY <1>3, <1>5, GoalMeans
  <2> QED  BY <2>1, <2>2 DEF GoalAt
<1>8. 1 - 1 = 0
  OBVIOUS
<1>9. /\ pc' = "chain" => ~GoalAt(T, actions, 0)
      /\ Answered' => Stops(T, actions, 0, result'.outcome)
  BY <1>1, <1>7 DEF Answered, Stops
<1> QED  BY <1>1, <1>2, <1>3, <1>6, <1>8, <1>9 DEF ScorerInv

(* Applying an action registers the state that is meant, under its id.     *)
LEMMA ScorerApplies ==
  ASSUME ScorerInv, ApplyAction
  PROVE  ScorerInv'
<1> DEFINE i == chain[at]
           op == T.ops[i]
           s == SuccessorState(T, PK, CurrentState, op)
           meant == Meant(T, meaning[Current], op)
<1>1. /\ pc = "chain" /\ at <= Len(chain) /\ Resolves(i)
      /\ task' = task /\ once' = once /\ chain' = chain
  BY DEF ApplyAction
<1>2. PICK id \in 1 .. Len(pool) + 1 :
        /\ Register(CurrentState, s, meant, id)
        /\ \/ /\ path' = Append(path, id)
              /\ cost' = cost + Loaded[task].costs[i]
              /\ at' = at + 1
              /\ IF TestGoal(s.buf) THEN Finish("ok", "goal_reached")
                 ELSE UNCHANGED <<pc, result>>
           \/ pc' = IF once THEN "end" ELSE "read"
  BY DEF ApplyAction
<1>3. /\ WellFormed(T) /\ Placing(T, PK)
      /\ at \in Nat /\ at # 0 /\ Len(chain) \in Nat
      /\ meaning[Current] = AfterOf(T, chain, at - 1)
      /\ Represents(T, PK, pool[Current], meaning[Current])
      /\ info[Current] \in Insts(T)
      /\ i # 0 => i \in 1 .. Len(T.ops)
      /\ LegalAt(T, chain, at - 1)
  BY <1>1, AtCurrent
<1>4. /\ task \in 1 .. Len(Tasks) /\ ~GoalAt(T, chain, at - 1)
      /\ Walked(T, chain, at, path, meaning, cost)
  BY <1>1 DEF ScorerInv
<1>5. i # 0 /\ i \in 1 .. Len(T.ops)
  BY <1>1, <1>3 DEF Resolves
<1>6. /\ Loaded[task].costs[i] = Cost(T, op) /\ T' = T /\ PK' = PK
  <2>1. i \in DOMAIN T.ops
    BY <1>4, <1>5, TaskIs
  <2>2. Loaded[task].costs = [j \in DOMAIN T.ops |-> Cost(T, T.ops[j])]
    BY <1>4, TaskIs
  <2> QED  BY <1>1, <2>1, <2>2, TaskStays
<1>7. Represents(T, PK, s.buf, meant) /\ s.inst \in Insts(T)
  <2> DEFINE st == CurrentState
             m == meaning[Current]
  <2>1. st.buf = pool[Current] /\ st.inst = info[Current]
    BY DEF CurrentState
  <2> HIDE DEF st, m
  <2>2. /\ Represents(T, PK, st.buf, m)
        /\ st.inst \in [OfType(T, "instrumentation") -> Int]
    BY <1>3, <2>1 DEF Insts, m
  <2>3. LET new == SuccessorState(T, PK, st, T.ops[i])
        IN  /\ Represents(T, PK, new.buf, Meant(T, m, T.ops[i]))
            /\ new.inst \in [OfType(T, "instrumentation") -> Int]
    BY <1>3, <1>5, <2>2, SuccessorRepresents
  <2> QED  BY <2>3 DEF Insts, st, m
<1>8. meant = AfterOf(T, chain, at)
  <2>1. at - 1 \in Nat /\ (at - 1) + 1 = at
    BY <1>3
  <2>2. AfterOf(T, chain, at) = StepOf(T, chain, at, AfterOf(T, chain, at - 1))
    BY <2>1, AfterNext
  <2> QED  BY <1>3, <1>5, <2>2 DEF StepOf
<1> HIDE DEF s, meant, op, i
<1>9. /\ Registry(T, PK, pool', info', meaning')
      /\ id \in 1 .. Len(meaning') /\ meaning'[id] = meant
      /\ \A k \in 1 .. Len(meaning) : k \in 1 .. Len(meaning') /\ meaning'[k] = meaning[k]
  BY <1>2, <1>7, Registers
<1>10. CASE pc' = IF once THEN "end" ELSE "read"
  <2>1. pc' \notin {"chain", "answer"}
    BY <1>10
  <2> QED  BY <1>1, <1>4, <1>6, <1>9, <2>1 DEF ScorerInv, Answered
<1>11. CASE /\ path' = Append(path, id)
            /\ cost' = cost + Loaded[task].costs[i]
            /\ at' = at + 1
            /\ IF TestGoal(s.buf) THEN Finish("ok", "goal_reached")
               ELSE UNCHANGED <<pc, result>>
  <2>1. Leads(T, chain, at, path, meaning, cost, id, meaning')
    BY <1>1, <1>3, <1>4, <1>8, <1>9 DEF Leads
  <2>2. Walked(T, chain, at + 1, Append(path, id), meaning', cost + Cost(T, T.ops[chain[at]]))
    BY <2>1, WalkedOn
  <2>3. Walked(T, chain, at', path', meaning', cost')
    BY <1>6, <1>11, <2>2 DEF op, i
  <2>4. TestGoal(s.buf) <=> GoalAt(T, chain, at)
    <3>1. TestGoal(s.buf) <=> T.goal \subseteq FactsIn(T, meant)
      BY <1>3, <1>7, GoalMeans
    <3> QED  BY <1>8, <3>1 DEF GoalAt
  <2>5. at' - 1 = at
    BY <1>3, <1>11
  <2>6. /\ pc' = "chain" => ~GoalAt(T, chain, at)
        /\ Answered' => Stops(T, chain, at, result'.outcome)
    BY <1>1, <1>11, <2>4 DEF Finish, Answered, Stops
  <2> QED  BY <1>1, <1>4, <1>6, <1>9, <2>3, <2>5, <2>6 DEF ScorerInv
<1> QED  BY <1>2, <1>10, <1>11

(* Every step keeps the invariant.                                         *)
LEMMA ScorerNext == ScorerInv /\ [Next]_vars => ScorerInv'
<1> SUFFICES ASSUME ScorerInv, [Next]_vars  PROVE  ScorerInv'
  OBVIOUS
<1>1. CASE RejectLine
  BY <1>1, Quiet DEF RejectLine
<1>2. CASE Mismatch
  BY <1>2, Quiet DEF Mismatch
<1>3. CASE Shutdown
  BY <1>3, Quiet DEF Shutdown
<1>4. CASE InitialThrows
  BY <1>4, Quiet DEF InitialThrows
<1>5. CASE \E actions \in Chains : BeginScore(actions)
  BY <1>5, ScorerBegins
<1>6. CASE Expire
  BY <1>6, Finishes DEF Expire, Finish
<1>7. CASE InvalidAction
  <2>1. /\ pc = "chain" /\ at <= Len(chain) /\ ~Resolves(chain[at])
        /\ pc' = "answer" /\ result'.outcome = "invalid" /\ task' = task
        /\ UNCHANGED registry /\ UNCHANGED request
    BY <1>7 DEF InvalidAction, Finish
  <2>2. /\ ~LegalAt(T, chain, at - 1) /\ at - 1 < Len(chain)
        /\ ~GoalAt(T, chain, at - 1)
    BY <2>1, AtCurrent DEF ScorerInv
  <2>3. Stops(T, chain, at - 1, result'.outcome)
    BY <2>1, <2>2 DEF Stops
  <2> QED  BY <2>1, <2>3, Finishes
<1>8. CASE ApplyAction
  BY <1>8, ScorerApplies
<1>9. CASE ChainEnds
  <2>1. /\ pc = "chain" /\ at > Len(chain)
        /\ pc' = "answer" /\ result'.outcome = "legal_incomplete" /\ task' = task
        /\ UNCHANGED registry /\ UNCHANGED request
    BY <1>9 DEF ChainEnds, Finish
  <2>2. at - 1 = Len(chain) /\ ~GoalAt(T, chain, at - 1)
    <3>1. at \in 1 .. Len(chain) + 1
      BY <2>1 DEF ScorerInv, Walked
    <3> QED  BY <2>1, <3>1, AtCurrent DEF ScorerInv
  <2>3. Stops(T, chain, at - 1, result'.outcome)
    BY <2>1, <2>2 DEF Stops
  <2> QED  BY <2>1, <2>3, Finishes
<1>10. CASE Answer
  BY <1>10, Quiet DEF Answer
<1>11. CASE UNCHANGED vars
  <2>1. /\ task' = task /\ pc' = pc /\ chain' = chain /\ at' = at /\ path' = path
        /\ cost' = cost /\ result' = result /\ UNCHANGED registry
    BY <1>11 DEF vars, registry
  <2> QED  BY <2>1, TaskStays DEF ScorerInv, Answered, registry
<1>12. CASE Stopped
  BY <1>11, <1>12 DEF Stopped
<1> QED  BY <1>1, <1>2, <1>3, <1>4, <1>5, <1>6, <1>7, <1>8, <1>9, <1>10,
            <1>11, <1>12
         DEF Next

(* Every reachable state satisfies the inductive invariant.                *)
LEMMA ScorerInvariant == Spec => []ScorerInv
BY ScorerInit, ScorerNext, PTL DEF Spec

(* What the controller's simulator computes, in the terms of the scorer's  *)
(* walk.                                                                   *)
LEMMA SimulatorIs ==
  ASSUME NEW actions, NEW k
  PROVE  /\ After(actions, k) = AfterOf(T, actions, k)
         /\ Simulates(After(actions, k), actions[k + 1]) <=> LegalAt(T, actions, k)
         /\ IsGoal(After(actions, k)) <=> GoalAt(T, actions, k)
<1>1. After(actions, k) = AfterOf(T, actions, k)
  BY DEF After, AfterOf
<1> QED  BY <1>1 DEF Simulates, IsGoal, LegalAt, GoalAt

(* A walk that has a reason to stop where it is is the whole replay.       *)
LEMMA ReplayIs ==
  ASSUME Walked(T, chain, at, path, meaning, cost), NEW outcome,
         Stops(T, chain, at - 1, outcome)
  PROVE  Replay(chain) = [k \in 1 .. at |-> AfterOf(T, chain, k - 1)]
<1> DEFINE n == at - 1
           last == Len(chain)
           stops == Ends(chain) \cup {k \in 0 .. last : IsGoal(After(chain, k))}
<1>1. /\ last \in Nat /\ n \in 0 .. last /\ n + 1 = at
      /\ \A k \in 0 .. n - 1 : LegalAt(T, chain, k) /\ ~GoalAt(T, chain, k)
  BY DEF Walked
<1>2. \A k \in 0 .. last : k \in stops <=> k = last \/ ~LegalAt(T, chain, k)
                                             \/ GoalAt(T, chain, k)
  BY SimulatorIs DEF Ends
<1>3. stops \subseteq 0 .. last
  BY DEF Ends
<1>4. n = last \/ ~LegalAt(T, chain, n) \/ GoalAt(T, chain, n)
  BY DEF Stops
<1>5. Replay(chain) = LET m == CHOOSE m \in stops : \A k \in stops : m <= k
                      IN  [k \in 1 .. m + 1 |-> After(chain, k - 1)]
  BY DEF Replay, Prefix
<1> HIDE DEF stops, n, last
<1>6. n \in stops
  BY <1>1, <1>2, <1>4
<1>7. \A k \in stops : n <= k
  <2> SUFFICES ASSUME NEW k \in stops, k < n  PROVE  FALSE
    BY <1>1, <1>3
  <2>1. k \in 0 .. last /\ k \in 0 .. n - 1 /\ k # last
    BY <1>1, <1>3
  <2> QED  BY <1>1, <1>2, <2>1
<1>8. \A m \in stops : (\A k \in stops : m <= k) => m = n
  BY <1>1, <1>3, <1>6, <1>7
<1>9. (CHOOSE m \in stops : \A k \in stops : m <= k) = n
  BY <1>6, <1>7, <1>8
<1>10. Replay(chain) = [k \in 1 .. n + 1 |-> After(chain, k - 1)]
  BY <1>5, <1>9
<1> QED  BY <1>1, <1>10, SimulatorIs

(* The state of the replay an answer ends with.                            *)
LEMMA AnswerIs ==
  ASSUME ScorerInv, Answered
  PROVE  /\ Walked(T, chain, at, path, meaning, cost)
         /\ Stops(T, chain, at - 1, result.outcome)
         /\ at \in 1 .. Len(chain) + 1 /\ Len(chain) \in Nat
         /\ Len(path) = at /\ DOMAIN path = 1 .. at
         /\ Replay(chain) = [k \in 1 .. at |-> AfterOf(T, chain, k - 1)]
         /\ Len(Replay(chain)) = at
         /\ Last(Replay(chain)) = AfterOf(T, chain, at - 1)
<1>1. /\ Walked(T, chain, at, path, meaning, cost)
      /\ Stops(T, chain, at - 1, result.outcome)
  BY DEF ScorerInv, Answered
<1>2. /\ at \in 1 .. Len(chain) + 1 /\ Len(chain) \in Nat
      /\ Len(path) = at /\ DOMAIN path = 1 .. at
  BY <1>1 DEF Walked
<1>3. Replay(chain) = [k \in 1 .. at |-> AfterOf(T, chain, k - 1)]
  BY <1>1, ReplayIs
<1>4. Len(Replay(chain)) = at
  BY <1>2, <1>3
<1>5. Last(Replay(chain)) = AfterOf(T, chain, at - 1)
  BY <1>2, <1>3, <1>4 DEF Last
<1> QED  BY <1>1, <1>2, <1>3, <1>4, <1>5

(* In every state of the invariant an answer is the replay of its chain.   *)
LEMMA AnswersReplay == ScorerInv => ScoreIsReplay
<1> SUFFICES ASSUME ScorerInv, Answered
             PROVE  /\ Len(path) = Len(Replay(chain))
                    /\ \A k \in DOMAIN path : meaning[path[k]] = Replay(chain)[k]
                    /\ cost = Fold(LAMBDA c, k : c + Cost(T, T.ops[chain[k]]), 0,
                                   Len(path) - 1)
  BY DEF ScoreIsReplay
<1>1. /\ Walked(T, chain, at, path, meaning, cost)
      /\ Len(path) = at /\ DOMAIN path = 1 .. at /\ Len(Replay(chain)) = at
      /\ Replay(chain) = [k \in 1 .. at |-> AfterOf(T, chain, k - 1)]
  BY AnswerIs
<1>2. /\ \A k \in 1 .. at : meaning[path[k]] = AfterOf(T, chain, k - 1)
      /\ cost = CostOf(T, chain, at - 1)
  BY <1>1 DEF Walked
<1>3. CostOf(T, chain, Len(path) - 1)
        = Fold(LAMBDA c, k : c + Cost(T, T.ops[chain[k]]), 0, Len(path) - 1)
  BY DEF CostOf
<1> QED  BY <1>1, <1>2, <1>3

(* In every state of the invariant the registry's ids are states.          *)
LEMMA IdsInjective == ScorerInv => IdsAreStates
<1> SUFFICES ASSUME ScorerInv  PROVE  IdsAreStates
  OBVIOUS
<1>1. WellFormed(T) /\ Placing(T, PK) /\ Registry(T, PK, pool, info, meaning)
  BY TaskIs DEF ScorerInv
<1>2. /\ DOMAIN pool = 1 .. Len(pool)
      /\ \A k \in 1 .. Len(pool) : Represents(T, PK, pool[k], meaning[k])
      /\ \A j, k \in 1 .. Len(pool) : pool[j] = pool[k] => j = k
  BY <1>1 DEF Registry
<1>3. ASSUME NEW i \in DOMAIN pool
      PROVE  /\ {<<v, Get(PK, pool[i], <<"var", v>>)>> : v \in Logic(T)}
                  = FactsIn(T, meaning[i])
             /\ \A v \in OfType(T, "regular") :
                  pool[i][PK[<<"num", v>>].bin] = meaning[i].nums[v]
  <2>1. Represents(T, PK, pool[i], meaning[i])
    BY <1>2, <1>3
  <2>2. /\ FactsOf(T, PK, pool[i]) = FactsIn(T, meaning[i])
        /\ SameNumbers(T, PK, pool[i], meaning[i])
    BY <2>1 DEF Represents
  <2>3. FactsOf(T, PK, pool[i]) = {<<v, Get(PK, pool[i], <<"var", v>>)>> : v \in Logic(T)}
    BY DEF FactsOf
  <2>4. \A v \in OfType(T, "regular") :
          pool[i][PK[<<"num", v>>].bin] = meaning[i].nums[v]
    BY <2>2 DEF SameNumbers, Get
  <2> QED  BY <2>2, <2>3, <2>4
<1>4. ASSUME NEW i \in DOMAIN pool, NEW j \in DOMAIN pool, meaning[i] = meaning[j]
      PROVE  i = j
  <2>1. /\ Represents(T, PK, pool[i], meaning[i])
        /\ Represents(T, PK, pool[j], meaning[j])
    BY <1>2
  <2>2. pool[i] = pool[j]
    BY <1>1, <1>4, <2>1, RepresentsOne
  <2> QED  BY <1>2, <2>2
<1> QED  BY <1>3, <1>4 DEF IdsAreStates

(* In every state of the invariant the tree and the tests agree.           *)
LEMMA TreeAdmits == ScorerInv => GeneratorFindsApplicable
<1> SUFFICES ASSUME ScorerInv, NEW i \in DOMAIN pool
             PROVE  Generated(T, Loaded[task].generator, PK, pool[i])
                      = {k \in DOMAIN T.ops : IsApplicable(PK, pool[i], T.ops[k])}
  BY DEF GeneratorFindsApplicable
<1>1. /\ WellFormed(T) /\ Placing(T, PK) /\ Registry(T, PK, pool, info, meaning)
      /\ Loaded[task].generator = SuccessorGenerator(T)
  BY TaskIs DEF ScorerInv
<1>2. Represents(T, PK, pool[i], meaning[i])
  BY <1>1 DEF Registry
<1>3. pool[i] \in Stored(T, PK)
  BY <1>2 DEF Represents
<1> QED  BY <1>1, <1>3, GeneratorIs

(* In every state of the invariant the controller's verdict is the answer. *)
LEMMA VerdictsAgree == ScorerInv => ProcessorAgrees
<1> SUFFICES ASSUME ScorerInv, Answered, chain # <<>>
             PROVE  AgreesWith(Validate(chain))
  BY DEF ProcessorAgrees
<1> DEFINE k == at - 1
           n == Len(chain)
           goal == IsGoal(Last(Replay(chain)))
           v == Validate(chain)
<1>1. /\ Walked(T, chain, at, path, meaning, cost)
      /\ Stops(T, chain, k, result.outcome)
      /\ at \in 1 .. n + 1 /\ n \in Nat /\ Len(path) = at /\ Len(Replay(chain)) = at
      /\ Last(Replay(chain)) = AfterOf(T, chain, k)
  BY AnswerIs
<1>2. goal \in BOOLEAN /\ (goal <=> GoalAt(T, chain, k))
  BY <1>1 DEF IsGoal, GoalAt
<1>3. v = [legal |-> k, goal_reached |-> goal,
           invalid_index |-> IF ~goal /\ k < n THEN k ELSE -1]
  BY <1>1 DEF Validate, Validated, Verdict
<1>4. k \in 0 .. n /\ k = Len(path) - 1
  BY <1>1
<1> HIDE DEF k, n, goal, v
<1>5. /\ goal <=> result.outcome = "goal_reached"
      /\ ~goal /\ k < n <=> result.outcome = "invalid"
  BY <1>1, <1>2, <1>4 DEF Stops, n
<1>6. v.legal = k /\ v.goal_reached = goal
  BY <1>3
<1>7. v.invalid_index >= 0 <=> ~goal /\ k < n
  BY <1>3, <1>4, <1>1
<1>8. Process(chain, v) = "ok" <=> k > 0 /\ (goal \/ k = n)
  <2>1. CASE k = 0
    BY <1>6, <2>1 DEF Process
  <2>2. CASE k > 0 /\ (goal \/ k = n)
    BY <1>6, <2>2 DEF Process, n
  <2>3. CASE k > 0 /\ ~(goal \/ k = n)
    BY <1>6, <2>3 DEF Process, n
  <2> QED  BY <1>4, <1>1, <2>1, <2>2, <2>3
<1>9. goal \/ k = n <=> result.outcome # "invalid"
  BY <1>1, <1>4, <1>5
<1> QED  BY <1>4, <1>5, <1>6, <1>7, <1>8, <1>9 DEF AgreesWith, v

(* Whatever was scored before, each answer of a process is the replay of   *)
(* its own chain from the initial state, with the cost of its operators:   *)
(* ActionChainEvaluator::evaluate over a registry that other requests have *)
(* filled.                                                                 *)
THEOREM AnswersAreReplays == Spec => []ScoreIsReplay
BY ScorerInvariant, AnswersReplay, PTL

(* Each id of the registry stands for one state: the packed buffer, with   *)
(* what the axiom evaluator derives, holds just the facts the task's state *)
(* means, and no state has two ids (StateRegistry, AxiomEvaluator).        *)
THEOREM IdsStandForStates == Spec => []IdsAreStates
BY ScorerInvariant, IdsInjective, PTL

(* The successor generator's tree yields in each registered state just the *)
(* operators whose preconditions hold (successor_generator.cc).            *)
THEOREM GeneratorIsExact == Spec => []GeneratorFindsApplicable
BY ScorerInvariant, TreeAdmits, PTL

(* The controller's validation of an answer gives the verdict the scorer   *)
(* reaches: the same prefix, the same goal, the same first invalid action. *)
THEOREM ProcessorIsRight == Spec => []ProcessorAgrees
BY ScorerInvariant, VerdictsAgree, PTL
=============================================================================
