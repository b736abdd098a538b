------------------------ MODULE PlanningTaskProofs ------------------------
(***************************************************************************)
(* Theorems about PlanningTask's algorithms, for every well-formed task:   *)
(* the packer's places are apart, a write is read back, the axiom          *)
(* evaluator derives the stratified model of its rules, an operator leads  *)
(* to a buffer that stands for the state it means, and the successor       *)
(* generator finds the operators whose preconditions hold.                 *)
(*                                                                         *)
(* A lemma named ...Run says of one loop of the code, a Fold, that its     *)
(* states are a function of the position; the induction is along that      *)
(* position (Upward).  The prover cannot instantiate a lemma that has an   *)
(* operator for a parameter, so that there is one such lemma per loop.     *)
(***************************************************************************)
EXTENDS PlanningTask, FiniteSetTheorems, WellFoundedInduction, TLAPS

(* A nonempty set of natural numbers has a least element.                  *)
LEMMA LeastNat ==
  ASSUME NEW S, S \subseteq Nat, S # {}
  PROVE  \E m \in S : \A k \in S : m <= k
<1>1. PICK m \in S : \A k \in S : ~(<<k, m>> \in OpToRel(<, Nat))
  BY NatLessThanWellFounded, WFMin
<1>2. \A k \in S : ~(k < m)
  BY <1>1 DEF OpToRel
<1> QED  BY <1>2

(* Induction along a loop of n steps, and over all numbers.                *)
LEMMA Upward ==
  ASSUME NEW n \in Nat, NEW S, 0 \in S,
         \A m \in 0 .. n - 1 : m \in S => m + 1 \in S
  PROVE  0 .. n \subseteq S
<1> DEFINE Rest == {m \in 0 .. n : m \notin S}
<1>1. ASSUME Rest # {}  PROVE  FALSE
  <2>1. PICK m \in Rest : \A k \in Rest : m <= k
    <3>1. Rest \subseteq Nat
      OBVIOUS
    <3> QED  BY <1>1, <3>1, LeastNat
  <2>2. m \in 1 .. n /\ m - 1 \in 0 .. n - 1
    BY <2>1
  <2>3. m - 1 \in S
    BY <2>1, <2>2
  <2> QED  BY <2>1, <2>2, <2>3
<1> QED  BY <1>1

(* The same for all natural numbers.                                       *)
LEMMA UpwardNat ==
  ASSUME NEW S, 0 \in S, \A m \in Nat : m \in S => m + 1 \in S
  PROVE  Nat \subseteq S
<1>1. ASSUME NEW n \in Nat  PROVE  n \in S
  <2>1. 0 .. n \subseteq S
    BY Upward
  <2> QED  BY <2>1
<1> QED  BY <1>1

(* The powers of two.                                                      *)
LEMMA Pow2Def ==
  /\ Pow2[0] = 1
  /\ \A n \in Nat : Pow2[n + 1] = 2 * Pow2[n]
<1> DEFINE Upto(m, h) == h = [k \in 0 .. m |-> IF k = 0 THEN 1 ELSE 2 * h[k - 1]]
           Some == {m \in Nat : \E h : Upto(m, h)}
<1>0. ASSUME NEW m \in Nat, NEW h, Upto(m, h)
      PROVE  /\ h[0] = 1
             /\ \A k \in 0 .. m - 1 : h[k + 1] = 2 * h[k]
  <2>1. \A k \in 0 .. m : h[k] = IF k = 0 THEN 1 ELSE 2 * h[k - 1]
    BY <1>0
  <2> QED  BY <2>1
<1> HIDE DEF Upto
<1>1. Nat \subseteq Some
  <2>1. 0 \in Some
    <3>1. Upto(0, [k \in 0 .. 0 |-> 1])
      BY DEF Upto
    <3> QED  BY <3>1
  <2>2. ASSUME NEW m \in Nat, m \in Some  PROVE  m + 1 \in Some
    <3>1. PICK h : Upto(m, h)
      BY <2>2
    <3> DEFINE g == [k \in 0 .. m + 1 |-> IF k = m + 1 THEN 2 * h[m] ELSE h[k]]
    <3>2. ASSUME NEW k \in 0 .. m + 1
          PROVE  g[k] = IF k = 0 THEN 1 ELSE 2 * g[k - 1]
      <4>1. CASE k = m + 1
        BY <4>1
      <4>2. CASE k # m + 1
        <5>1. k \in 0 .. m /\ g[k] = h[k]
          BY <4>2
        <5>2. k # 0 => k - 1 \in 0 .. m /\ g[k - 1] = h[k - 1]
          BY <5>1
        <5>3. h[k] = IF k = 0 THEN 1 ELSE 2 * h[k - 1]
          BY <3>1, <5>1 DEF Upto
        <5> QED  BY <5>1, <5>2, <5>3
      <4> QED  BY <4>1, <4>2
    <3>3. Upto(m + 1, g)
      BY <3>2 DEF Upto
    <3> QED  BY <3>3
  <2> HIDE DEF Some
  <2> QED  BY <2>1, <2>2, UpwardNat
<1> DEFINE start == [m \in Nat |-> CHOOSE h : Upto(m, h)]
           f == [n \in Nat |-> start[n][n]]
<1>2. ASSUME NEW m \in Nat  PROVE  Upto(m, start[m])
  BY <1>1
<1> HIDE DEF start
<1>3. ASSUME NEW m \in Nat
      PROVE  \A k \in 0 .. m : start[m + 1][k] = start[m][k]
  <2> DEFINE Same == {k \in 0 .. m : start[m + 1][k] = start[m][k]}
  <2>1. /\ start[m + 1][0] = 1 /\ start[m][0] = 1
        /\ \A k \in 0 .. m - 1 : /\ start[m + 1][k + 1] = 2 * start[m + 1][k]
                                  /\ start[m][k + 1] = 2 * start[m][k]
    BY <1>0, <1>2
  <2>2. 0 \in Same /\ \A k \in 0 .. m - 1 : k \in Same => k + 1 \in Same
    BY <2>1
  <2> HIDE DEF Same
  <2>3. 0 .. m \subseteq Same
    BY <2>2, Upward
  <2> QED  BY <2>3 DEF Same
<1>4. f = [n \in Nat |-> IF n = 0 THEN 1 ELSE 2 * f[n - 1]]
  <2>1. ASSUME NEW n \in Nat, n # 0
        PROVE  start[n][n] = 2 * start[n - 1][n - 1]
    <3>1. n - 1 \in Nat /\ (n - 1) + 1 = n /\ n - 1 \in 0 .. n - 1
      BY <2>1
    <3>2. start[n][(n - 1) + 1] = 2 * start[n][n - 1]
      BY <1>0, <1>2, <3>1
    <3>3. start[(n - 1) + 1][n - 1] = start[n - 1][n - 1]
      BY <1>3, <3>1
    <3> QED  BY <3>1, <3>2, <3>3
  <2>2. start[0][0] = 1
    BY <1>0, <1>2
  <2> QED  BY <2>1, <2>2
<1> HIDE DEF f
<1>5. Pow2 = [n \in Nat |-> IF n = 0 THEN 1 ELSE 2 * Pow2[n - 1]]
  BY <1>4 DEF Pow2
<1>6. \A n \in Nat : Pow2[n] = IF n = 0 THEN 1 ELSE 2 * Pow2[n - 1]
  BY <1>5
<1> QED  BY <1>6

(* A power of two is a positive number, greater than its exponent.         *)
LEMMA Pow2Positive == \A n \in Nat : Pow2[n] \in Nat /\ Pow2[n] >= 1 /\ Pow2[n] > n
<1> DEFINE S == {n \in Nat : Pow2[n] \in Nat /\ Pow2[n] >= 1 /\ Pow2[n] > n}
<1>1. 0 \in S
  BY Pow2Def
<1>2. ASSUME NEW n \in Nat, n \in S  PROVE  n + 1 \in S
  <2>1. Pow2[n + 1] = 2 * Pow2[n]
    BY Pow2Def
  <2> QED  BY <1>2, <2>1
<1> HIDE DEF S
<1>3. Nat \subseteq S
  BY <1>1, <1>2, UpwardNat
<1> QED  BY <1>3 DEF S

(* Exponents add.                                                          *)
LEMMA Pow2Adds == \A m, n \in Nat : Pow2[m + n] = Pow2[m] * Pow2[n]
<1> SUFFICES ASSUME NEW m \in Nat  PROVE  \A n \in Nat : Pow2[m + n] = Pow2[m] * Pow2[n]
  OBVIOUS
<1> DEFINE S == {n \in Nat : Pow2[m + n] = Pow2[m] * Pow2[n]}
<1>1. 0 \in S
  BY Pow2Def, Pow2Positive
<1>2. ASSUME NEW n \in Nat, n \in S  PROVE  n + 1 \in S
  <2>1. Pow2[(m + n) + 1] = 2 * (Pow2[m] * Pow2[n]) /\ Pow2[n + 1] = 2 * Pow2[n]
    BY <1>2, Pow2Def
  <2>2. Pow2[m] \in Nat /\ Pow2[n] \in Nat /\ m + (n + 1) = (m + n) + 1
    BY Pow2Positive
  <2>3. \A x, y \in Nat : 2 * (x * y) = x * (2 * y)
    OBVIOUS
  <2> QED  BY <2>1, <2>2, <2>3
<1> HIDE DEF S
<1>3. Nat \subseteq S
  BY <1>1, <1>2, UpwardNat
<1> QED  BY <1>3 DEF S

(* The facts that the rules start from.                                    *)
Given0(t, s) == {<<v, s.base[v]>> : v \in Base(t)}
      \cup {<<ax.var, Compared(ax, NumbersIn(t, s))>> : ax \in Range(t.comps)}

(* How the packer's loop runs.                                             *)
LEMMA PackerRun ==
  ASSUME NEW t,
         Cardinality(Packed(t)) \in Nat
  PROVE  \E F : /\ F[0] = [left |-> Packed(t), bin |-> 0, used |-> BinBits,
                           place |-> [z \in Packed(t) |-> Unplaced]]
                /\ \A k \in 1 .. Cardinality(Packed(t)) :
                         F[k] = PackNext(t, F[k - 1])
                /\ Packer(t) = F[Cardinality(Packed(t))].place
<1> DEFINE N == Cardinality(Packed(t))
           From == [left |-> Packed(t), bin |-> 0, used |-> BinBits,
                    place |-> [z \in Packed(t) |-> Unplaced]]
           Step(x, k) == PackNext(t, x)
           Upto(j, h) == h = [k \in 0 .. j |-> IF k = 0 THEN From ELSE Step(h[k - 1], k)]
           Some == {j \in 0 .. N : \E h : Upto(j, h)}
<1> N \in Nat
  OBVIOUS
<1> HIDE DEF N, From, Step, Upto
<1>1. 0 \in Some
  <2>1. Upto(0, [k \in 0 .. 0 |-> From])
    BY DEF Upto
  <2> QED  BY <2>1
<1>2. ASSUME NEW j \in 0 .. N - 1, j \in Some  PROVE  j + 1 \in Some
  <2>1. PICK h : Upto(j, h)
    BY <1>2
  <2> DEFINE h2 == [k \in 0 .. j + 1 |-> IF k = j + 1 THEN Step(h[j], k) ELSE h[k]]
  <2>2. Upto(j + 1, h2)
    BY <2>1 DEF Upto
  <2> HIDE DEF h2
  <2> QED  BY <2>2
<1> HIDE DEF Some
<1>3. \E h : Upto(N, h)
  <2>1. 0 .. N \subseteq Some
    BY <1>1, <1>2, Upward
  <2> QED  BY <2>1 DEF Some
<1>4. PICK F : Upto(N, F) /\ Packer(t) = F[N].place
  BY <1>3, Zenon DEF Upto, Step, N, From, Packer, Fold
<1>5. /\ F[0] = From
      /\ \A k \in 1 .. N : F[k] = Step(F[k - 1], k)
  BY <1>4 DEF Upto
<1> QED  BY <1>4, <1>5, Zenon DEF Step, N, From

(* Writes, one after the other.                                            *)
LEMMA PutsRun ==
  ASSUME NEW pk,
         NEW buf,
         NEW writes,
         Len(writes) \in Nat
  PROVE  \E F : /\ F[0] = buf
                /\ \A k \in 1 .. Len(writes) :
                         F[k] = IF writes[k].when
                                THEN Put(pk, F[k - 1], writes[k].place, writes[k].val)
                                ELSE F[k - 1]
                /\ PutAll(pk, buf, writes) = F[Len(writes)]
<1> DEFINE N == Len(writes)
           From == buf
           Step(x, k) == IF writes[k].when
                         THEN Put(pk, x, writes[k].place, writes[k].val)
                         ELSE x
           Upto(j, h) == h = [k \in 0 .. j |-> IF k = 0 THEN From ELSE Step(h[k - 1], k)]
           Some == {j \in 0 .. N : \E h : Upto(j, h)}
<1> N \in Nat
  OBVIOUS
<1> HIDE DEF N, From, Step, Upto
<1>1. 0 \in Some
  <2>1. Upto(0, [k \in 0 .. 0 |-> From])
    BY DEF Upto
  <2> QED  BY <2>1
<1>2. ASSUME NEW j \in 0 .. N - 1, j \in Some  PROVE  j + 1 \in Some
  <2>1. PICK h : Upto(j, h)
    BY <1>2
  <2> DEFINE h2 == [k \in 0 .. j + 1 |-> IF k = j + 1 THEN Step(h[j], k) ELSE h[k]]
  <2>2. Upto(j + 1, h2)
    BY <2>1 DEF Upto
  <2> HIDE DEF h2
  <2> QED  BY <2>2
<1> HIDE DEF Some
<1>3. \E h : Upto(N, h)
  <2>1. 0 .. N \subseteq Some
    BY <1>1, <1>2, Upward
  <2> QED  BY <2>1 DEF Some
<1>4. PICK F : Upto(N, F) /\ PutAll(pk, buf, writes) = F[N]
  BY <1>3, Zenon DEF Upto, Step, N, From, PutAll, Fold
<1>5. /\ F[0] = From
      /\ \A k \in 1 .. N : F[k] = Step(F[k - 1], k)
  BY <1>4 DEF Upto
<1> QED  BY <1>4, <1>5, Zenon DEF Step, N, From

(* The arithmetic axioms.                                                  *)
LEMMA SumsRun ==
  ASSUME NEW t,
         NEW nums,
         Len(t.sums) \in Nat
  PROVE  \E F : /\ F[0] = nums
                /\ \A k \in 1 .. Len(t.sums) : F[k] = Sum(t.sums[k], F[k - 1])
                /\ EvaluateArithmetic(t, nums) = F[Len(t.sums)]
<1> DEFINE N == Len(t.sums)
           From == nums
           Step(x, k) == Sum(t.sums[k], x)
           Upto(j, h) == h = [k \in 0 .. j |-> IF k = 0 THEN From ELSE Step(h[k - 1], k)]
           Some == {j \in 0 .. N : \E h : Upto(j, h)}
<1> N \in Nat
  OBVIOUS
<1> HIDE DEF N, From, Step, Upto
<1>1. 0 \in Some
  <2>1. Upto(0, [k \in 0 .. 0 |-> From])
    BY DEF Upto
  <2> QED  BY <2>1
<1>2. ASSUME NEW j \in 0 .. N - 1, j \in Some  PROVE  j + 1 \in Some
  <2>1. PICK h : Upto(j, h)
    BY <1>2
  <2> DEFINE h2 == [k \in 0 .. j + 1 |-> IF k = j + 1 THEN Step(h[j], k) ELSE h[k]]
  <2>2. Upto(j + 1, h2)
    BY <2>1 DEF Upto
  <2> HIDE DEF h2
  <2> QED  BY <2>2
<1> HIDE DEF Some
<1>3. \E h : Upto(N, h)
  <2>1. 0 .. N \subseteq Some
    BY <1>1, <1>2, Upward
  <2> QED  BY <2>1 DEF Some
<1>4. PICK F : Upto(N, F) /\ EvaluateArithmetic(t, nums) = F[N]
  BY <1>3, Zenon DEF Upto, Step, N, From, EvaluateArithmetic, Fold
<1>5. /\ F[0] = From
      /\ \A k \in 1 .. N : F[k] = Step(F[k - 1], k)
  BY <1>4 DEF Upto
<1> QED  BY <1>4, <1>5, Zenon DEF Step, N, From

(* The rules that a literal is a condition of.                             *)
FollowSteps(t, pk, m, F) ==
    /\ F[0] = [m EXCEPT !.queue = Front(@)]
    /\ \A k \in 1 .. Len(t.rules) :
             F[k] = IF Last(m.queue) \in t.rules[k].cond
                    THEN OneConditionLess(t, pk, F[k - 1], k)
                    ELSE F[k - 1]

(* Follow is that loop.                                                    *)
LEMMA FollowRun ==
  ASSUME NEW t,
         NEW pk,
         NEW m,
         Len(t.rules) \in Nat
  PROVE  \E F : FollowSteps(t, pk, m, F) /\ Follow(t, pk, m) = F[Len(t.rules)]
<1> DEFINE N == Len(t.rules)
           From == [m EXCEPT !.queue = Front(@)]
           Step(x, k) == IF Last(m.queue) \in t.rules[k].cond
                         THEN OneConditionLess(t, pk, x, k)
                         ELSE x
           Upto(j, h) == h = [k \in 0 .. j |-> IF k = 0 THEN From ELSE Step(h[k - 1], k)]
           Some == {j \in 0 .. N : \E h : Upto(j, h)}
<1> N \in Nat
  OBVIOUS
<1> HIDE DEF N, From, Step, Upto
<1>1. 0 \in Some
  <2>1. Upto(0, [k \in 0 .. 0 |-> From])
    BY DEF Upto
  <2> QED  BY <2>1
<1>2. ASSUME NEW j \in 0 .. N - 1, j \in Some  PROVE  j + 1 \in Some
  <2>1. PICK h : Upto(j, h)
    BY <1>2
  <2> DEFINE h2 == [k \in 0 .. j + 1 |-> IF k = j + 1 THEN Step(h[j], k) ELSE h[k]]
  <2>2. Upto(j + 1, h2)
    BY <2>1 DEF Upto
  <2> HIDE DEF h2
  <2> QED  BY <2>2
<1> HIDE DEF Some
<1>3. \E h : Upto(N, h)
  <2>1. 0 .. N \subseteq Some
    BY <1>1, <1>2, Upward
  <2> QED  BY <2>1 DEF Some
<1>4. PICK F : Upto(N, F) /\ Follow(t, pk, m) = F[N]
  BY <1>3, Zenon DEF Upto, Step, N, From, Follow, Fold
<1>5. /\ F[0] = From
      /\ \A k \in 1 .. N : F[k] = Step(F[k - 1], k)
  BY <1>4 DEF Upto
<1>6. FollowSteps(t, pk, m, F)
  BY <1>5 DEF Step, N, From, FollowSteps
<1> QED  BY <1>4, <1>6 DEF N

(* The steps of the Horn rules.                                            *)
HornSteps(t, pk, m, F) ==
    /\ F[0] = m
    /\ \A k \in 1 .. Len(t.range) :
             F[k] = IF F[k - 1].queue = <<>>
                    THEN F[k - 1]
                    ELSE Follow(t, pk, F[k - 1])

(* ApplyHornRules is that loop.                                            *)
LEMMA HornRun ==
  ASSUME NEW t,
         NEW pk,
         NEW m,
         Len(t.range) \in Nat
  PROVE  \E F : /\ HornSteps(t, pk, m, F)
                /\ ApplyHornRules(t, pk, m) = F[Len(t.range)]
<1> DEFINE N == Len(t.range)
           From == m
           Step(x, k) == IF x.queue = <<>> THEN x ELSE Follow(t, pk, x)
           Upto(j, h) == h = [k \in 0 .. j |-> IF k = 0 THEN From ELSE Step(h[k - 1], k)]
           Some == {j \in 0 .. N : \E h : Upto(j, h)}
<1> N \in Nat
  OBVIOUS
<1> HIDE DEF N, From, Step, Upto
<1>1. 0 \in Some
  <2>1. Upto(0, [k \in 0 .. 0 |-> From])
    BY DEF Upto
  <2> QED  BY <2>1
<1>2. ASSUME NEW j \in 0 .. N - 1, j \in Some  PROVE  j + 1 \in Some
  <2>1. PICK h : Upto(j, h)
    BY <1>2
  <2> DEFINE h2 == [k \in 0 .. j + 1 |-> IF k = j + 1 THEN Step(h[j], k) ELSE h[k]]
  <2>2. Upto(j + 1, h2)
    BY <2>1 DEF Upto
  <2> HIDE DEF h2
  <2> QED  BY <2>2
<1> HIDE DEF Some
<1>3. \E h : Upto(N, h)
  <2>1. 0 .. N \subseteq Some
    BY <1>1, <1>2, Upward
  <2> QED  BY <2>1 DEF Some
<1>4. PICK F : Upto(N, F) /\ ApplyHornRules(t, pk, m) = F[N]
  BY <1>3, Zenon DEF Upto, Step, N, From, ApplyHornRules, Fold
<1>5. /\ F[0] = From
      /\ \A k \in 1 .. N : F[k] = Step(F[k - 1], k)
  BY <1>4 DEF Upto
<1>6. HornSteps(t, pk, m, F)
  BY <1>5 DEF Step, N, From, HornSteps
<1> QED  BY <1>4, <1>6 DEF N

(* The defaults pushed after a layer.                                      *)
DefaultsSteps(t, pk, buf, layer, F) ==
    /\ F[0] = <<>>
    /\ \A k \in 1 .. Len(t.range) :
             F[k] = IF t.layer[k] = layer /\ Holds(pk, buf, {<<k, t.init[k]>>})
                    THEN Append(F[k - 1], <<k, t.init[k]>>)
                    ELSE F[k - 1]

(* Defaults is that loop.                                                  *)
LEMMA DefaultsRun ==
  ASSUME NEW t,
         NEW pk,
         NEW buf,
         NEW layer,
         Len(t.range) \in Nat
  PROVE  \E F : /\ DefaultsSteps(t, pk, buf, layer, F)
                /\ Defaults(t, pk, buf, layer) = F[Len(t.range)]
<1> DEFINE N == Len(t.range)
           From == <<>>
           Step(x, k) == IF t.layer[k] = layer /\ Holds(pk, buf, {<<k, t.init[k]>>})
                         THEN Append(x, <<k, t.init[k]>>)
                         ELSE x
           Upto(j, h) == h = [k \in 0 .. j |-> IF k = 0 THEN From ELSE Step(h[k - 1], k)]
           Some == {j \in 0 .. N : \E h : Upto(j, h)}
<1> N \in Nat
  OBVIOUS
<1> HIDE DEF N, From, Step, Upto
<1>1. 0 \in Some
  <2>1. Upto(0, [k \in 0 .. 0 |-> From])
    BY DEF Upto
  <2> QED  BY <2>1
<1>2. ASSUME NEW j \in 0 .. N - 1, j \in Some  PROVE  j + 1 \in Some
  <2>1. PICK h : Upto(j, h)
    BY <1>2
  <2> DEFINE h2 == [k \in 0 .. j + 1 |-> IF k = j + 1 THEN Step(h[j], k) ELSE h[k]]
  <2>2. Upto(j + 1, h2)
    BY <2>1 DEF Upto
  <2> HIDE DEF h2
  <2> QED  BY <2>2
<1> HIDE DEF Some
<1>3. \E h : Upto(N, h)
  <2>1. 0 .. N \subseteq Some
    BY <1>1, <1>2, Upward
  <2> QED  BY <2>1 DEF Some
<1>4. PICK F : Upto(N, F) /\ Defaults(t, pk, buf, layer) = F[N]
  BY <1>3, Zenon DEF Upto, Step, N, From, Defaults, Fold
<1>5. /\ F[0] = From
      /\ \A k \in 1 .. N : F[k] = Step(F[k - 1], k)
  BY <1>4 DEF Upto
<1>6. DefaultsSteps(t, pk, buf, layer, F)
  BY <1>5 DEF Step, N, From, DefaultsSteps
<1> QED  BY <1>4, <1>6 DEF N

(* The variables that the evaluation starts from.                          *)
StartSteps(t, pk, buf, F) ==
    /\ F[0] = [buf |-> buf, queue |-> <<>>,
               count |-> [i \in DOMAIN t.rules |-> Cardinality(t.rules[i].cond)]]
    /\ \A k \in 1 .. Len(t.range) : F[k] = StartWith(t, pk, F[k - 1], k)

(* Start is that loop.                                                     *)
LEMMA StartRun ==
  ASSUME NEW t,
         NEW pk,
         NEW buf,
         Len(t.range) \in Nat
  PROVE  \E F : /\ StartSteps(t, pk, buf, F)
                /\ Start(t, pk, buf) = F[Len(t.range)]
<1> DEFINE N == Len(t.range)
           From == [buf |-> buf, queue |-> <<>>,
                    count |-> [i \in DOMAIN t.rules |-> Cardinality(t.rules[i].cond)]]
           Step(x, k) == StartWith(t, pk, x, k)
           Upto(j, h) == h = [k \in 0 .. j |-> IF k = 0 THEN From ELSE Step(h[k - 1], k)]
           Some == {j \in 0 .. N : \E h : Upto(j, h)}
<1> N \in Nat
  OBVIOUS
<1> HIDE DEF N, From, Step, Upto
<1>1. 0 \in Some
  <2>1. Upto(0, [k \in 0 .. 0 |-> From])
    BY DEF Upto
  <2> QED  BY <2>1
<1>2. ASSUME NEW j \in 0 .. N - 1, j \in Some  PROVE  j + 1 \in Some
  <2>1. PICK h : Upto(j, h)
    BY <1>2
  <2> DEFINE h2 == [k \in 0 .. j + 1 |-> IF k = j + 1 THEN Step(h[j], k) ELSE h[k]]
  <2>2. Upto(j + 1, h2)
    BY <2>1 DEF Upto
  <2> HIDE DEF h2
  <2> QED  BY <2>2
<1> HIDE DEF Some
<1>3. \E h : Upto(N, h)
  <2>1. 0 .. N \subseteq Some
    BY <1>1, <1>2, Upward
  <2> QED  BY <2>1 DEF Some
<1>4. PICK F : Upto(N, F) /\ Start(t, pk, buf) = F[N]
  BY <1>3, Zenon DEF Upto, Step, N, From, Start, Fold
<1>5. /\ F[0] = From
      /\ \A k \in 1 .. N : F[k] = Step(F[k - 1], k)
  BY <1>4 DEF Upto
<1>6. StartSteps(t, pk, buf, F)
  BY <1>5 DEF Step, N, From, StartSteps
<1> QED  BY <1>4, <1>6 DEF N

(* The rules without a condition.                                          *)
BeginSteps(t, pk, m, F) ==
    /\ F[0] = m
    /\ \A k \in 1 .. Len(t.rules) :
             F[k] = IF t.rules[k].cond = {}
                    THEN Change(t, pk, F[k - 1], k)
                    ELSE F[k - 1]

(* Begin is that loop.                                                     *)
LEMMA BeginRun ==
  ASSUME NEW t,
         NEW pk,
         NEW m,
         Len(t.rules) \in Nat
  PROVE  \E F : BeginSteps(t, pk, m, F) /\ Begin(t, pk, m) = F[Len(t.rules)]
<1> DEFINE N == Len(t.rules)
           From == m
           Step(x, k) == IF t.rules[k].cond = {}
                         THEN Change(t, pk, x, k)
                         ELSE x
           Upto(j, h) == h = [k \in 0 .. j |-> IF k = 0 THEN From ELSE Step(h[k - 1], k)]
           Some == {j \in 0 .. N : \E h : Upto(j, h)}
<1> N \in Nat
  OBVIOUS
<1> HIDE DEF N, From, Step, Upto
<1>1. 0 \in Some
  <2>1. Upto(0, [k \in 0 .. 0 |-> From])
    BY DEF Upto
  <2> QED  BY <2>1
<1>2. ASSUME NEW j \in 0 .. N - 1, j \in Some  PROVE  j + 1 \in Some
  <2>1. PICK h : Upto(j, h)
    BY <1>2
  <2> DEFINE h2 == [k \in 0 .. j + 1 |-> IF k = j + 1 THEN Step(h[j], k) ELSE h[k]]
  <2>2. Upto(j + 1, h2)
    BY <2>1 DEF Upto
  <2> HIDE DEF h2
  <2> QED  BY <2>2
<1> HIDE DEF Some
<1>3. \E h : Upto(N, h)
  <2>1. 0 .. N \subseteq Some
    BY <1>1, <1>2, Upward
  <2> QED  BY <2>1 DEF Some
<1>4. PICK F : Upto(N, F) /\ Begin(t, pk, m) = F[N]
  BY <1>3, Zenon DEF Upto, Step, N, From, Begin, Fold
<1>5. /\ F[0] = From
      /\ \A k \in 1 .. N : F[k] = Step(F[k - 1], k)
  BY <1>4 DEF Upto
<1>6. BeginSteps(t, pk, m, F)
  BY <1>5 DEF Step, N, From, BeginSteps
<1> QED  BY <1>4, <1>6 DEF N

(* The layers.                                                             *)
LayersSteps(t, pk, buf, F) ==
    /\ F[0] = Begin(t, pk, Start(t, pk, buf))
    /\ \A k \in 1 .. (LastLayer(t) + 1) :
             F[k] = ApplyLayer(t, pk, F[k - 1], k - 1)

(* EvaluateLogic is that loop.                                             *)
LEMMA LayersRun ==
  ASSUME NEW t,
         NEW pk,
         NEW buf,
         t.rules # <<>>,
         LastLayer(t) + 1 \in Nat
  PROVE  \E F : /\ LayersSteps(t, pk, buf, F)
                /\ EvaluateLogic(t, pk, buf) = F[(LastLayer(t) + 1)].buf
<1> DEFINE N == (LastLayer(t) + 1)
           From == Begin(t, pk, Start(t, pk, buf))
           Step(x, k) == ApplyLayer(t, pk, x, k - 1)
           Upto(j, h) == h = [k \in 0 .. j |-> IF k = 0 THEN From ELSE Step(h[k - 1], k)]
           Some == {j \in 0 .. N : \E h : Upto(j, h)}
<1> N \in Nat
  OBVIOUS
<1> HIDE DEF N, From, Step, Upto
<1>1. 0 \in Some
  <2>1. Upto(0, [k \in 0 .. 0 |-> From])
    BY DEF Upto
  <2> QED  BY <2>1
<1>2. ASSUME NEW j \in 0 .. N - 1, j \in Some  PROVE  j + 1 \in Some
  <2>1. PICK h : Upto(j, h)
    BY <1>2
  <2> DEFINE h2 == [k \in 0 .. j + 1 |-> IF k = j + 1 THEN Step(h[j], k) ELSE h[k]]
  <2>2. Upto(j + 1, h2)
    BY <2>1 DEF Upto
  <2> HIDE DEF h2
  <2> QED  BY <2>2
<1> HIDE DEF Some
<1>3. \E h : Upto(N, h)
  <2>1. 0 .. N \subseteq Some
    BY <1>1, <1>2, Upward
  <2> QED  BY <2>1 DEF Some
<1>4. PICK F : Upto(N, F) /\ EvaluateLogic(t, pk, buf) = F[N].buf
  BY <1>3, Zenon DEF Upto, Step, N, From, EvaluateLogic, Fold
<1>5. /\ F[0] = From
      /\ \A k \in 1 .. N : F[k] = Step(F[k - 1], k)
  BY <1>4 DEF Upto
<1>6. LayersSteps(t, pk, buf, F)
  BY <1>5 DEF Step, N, From, LayersSteps
<1> QED  BY <1>4, <1>6 DEF N

(* The numeric effects.                                                    *)
AssignSteps(t, op, nums, F) ==
    /\ F[0] = nums
    /\ \A k \in 1 .. Len(op.nums) :
             F[k] = AssignNum(t, op.nums[k], nums, F[k - 1])

(* AssignNums is that loop.                                                *)
LEMMA AssignRun ==
  ASSUME NEW t,
         NEW op,
         NEW nums,
         Len(op.nums) \in Nat
  PROVE  \E F : /\ AssignSteps(t, op, nums, F)
                /\ AssignNums(t, op, nums) = F[Len(op.nums)]
<1> DEFINE N == Len(op.nums)
           From == nums
           Step(x, k) == AssignNum(t, op.nums[k], nums, x)
           Upto(j, h) == h = [k \in 0 .. j |-> IF k = 0 THEN From ELSE Step(h[k - 1], k)]
           Some == {j \in 0 .. N : \E h : Upto(j, h)}
<1> N \in Nat
  OBVIOUS
<1> HIDE DEF N, From, Step, Upto
<1>1. 0 \in Some
  <2>1. Upto(0, [k \in 0 .. 0 |-> From])
    BY DEF Upto
  <2> QED  BY <2>1
<1>2. ASSUME NEW j \in 0 .. N - 1, j \in Some  PROVE  j + 1 \in Some
  <2>1. PICK h : Upto(j, h)
    BY <1>2
  <2> DEFINE h2 == [k \in 0 .. j + 1 |-> IF k = j + 1 THEN Step(h[j], k) ELSE h[k]]
  <2>2. Upto(j + 1, h2)
    BY <2>1 DEF Upto
  <2> HIDE DEF h2
  <2> QED  BY <2>2
<1> HIDE DEF Some
<1>3. \E h : Upto(N, h)
  <2>1. 0 .. N \subseteq Some
    BY <1>1, <1>2, Upward
  <2> QED  BY <2>1 DEF Some
<1>4. PICK F : Upto(N, F) /\ AssignNums(t, op, nums) = F[N]
  BY <1>3, Zenon DEF Upto, Step, N, From, AssignNums, Fold
<1>5. /\ F[0] = From
      /\ \A k \in 1 .. N : F[k] = Step(F[k - 1], k)
  BY <1>4 DEF Upto
<1>6. AssignSteps(t, op, nums, F)
  BY <1>5 DEF Step, N, From, AssignSteps
<1> QED  BY <1>4, <1>6 DEF N

(* The generator, from the last variable to the first.                     *)
GeneratorSteps(t, F) ==
    /\ F[0] = [queue \in SUBSET Waits(t) |-> Leaf(queue)]
    /\ \A k \in 1 .. Len(t.range) :
             F[k] = [queue \in SUBSET Waits(t) |->
                        Construct(t, Len(t.range) + 1 - k, queue, F[k - 1])]

(* SuccessorGenerator is that loop.                                        *)
LEMMA GeneratorRun ==
  ASSUME NEW t,
         Len(t.range) \in Nat
  PROVE  \E F : /\ GeneratorSteps(t, F)
                /\ SuccessorGenerator(t)
                     = F[Len(t.range)][{Waiting(t.ops[i], i) : i \in DOMAIN t.ops}]
<1> DEFINE N == Len(t.range)
           From == [queue \in SUBSET Waits(t) |-> Leaf(queue)]
           Step(x, k) == [queue \in SUBSET Waits(t) |->
                            Construct(t, Len(t.range) + 1 - k, queue, x)]
           Upto(j, h) == h = [k \in 0 .. j |-> IF k = 0 THEN From ELSE Step(h[k - 1], k)]
           Some == {j \in 0 .. N : \E h : Upto(j, h)}
<1> N \in Nat
  OBVIOUS
<1> HIDE DEF N, From, Step, Upto
<1>1. 0 \in Some
  <2>1. Upto(0, [k \in 0 .. 0 |-> From])
    BY DEF Upto
  <2> QED  BY <2>1
<1>2. ASSUME NEW j \in 0 .. N - 1, j \in Some  PROVE  j + 1 \in Some
  <2>1. PICK h : Upto(j, h)
    BY <1>2
  <2> DEFINE h2 == [k \in 0 .. j + 1 |-> IF k = j + 1 THEN Step(h[j], k) ELSE h[k]]
  <2>2. Upto(j + 1, h2)
    BY <2>1 DEF Upto
  <2> HIDE DEF h2
  <2> QED  BY <2>2
<1> HIDE DEF Some
<1>3. \E h : Upto(N, h)
  <2>1. 0 .. N \subseteq Some
    BY <1>1, <1>2, Upward
  <2> QED  BY <2>1 DEF Some
<1>4. PICK F :
         /\ Upto(N, F)
         /\ SuccessorGenerator(t) = F[N][{Waiting(t.ops[i], i) : i \in DOMAIN t.ops}]
  BY <1>3, Zenon DEF Upto, Step, N, From, SuccessorGenerator, Fold
<1>5. /\ F[0] = From
      /\ \A k \in 1 .. N : F[k] = Step(F[k - 1], k)
  BY <1>4 DEF Upto
<1>6. GeneratorSteps(t, F)
  BY <1>5 DEF Step, N, From, GeneratorSteps
<1> QED  BY <1>4, <1>6 DEF N

(* The nodes visited, level by level.                                      *)
VisitsSteps(t, g, pk, buf, F) ==
    /\ F[0] = {g}
    /\ \A k \in 1 .. Len(t.range) : F[k] = Visits(pk, buf, F[k - 1])

(* Generated is that loop.                                                 *)
LEMMA VisitsRun ==
  ASSUME NEW t,
         NEW g,
         NEW pk,
         NEW buf,
         Len(t.range) \in Nat
  PROVE  \E F : /\ VisitsSteps(t, g, pk, buf, F)
                /\ Generated(t, g, pk, buf) = UNION {node.ops : node \in F[Len(t.range)]}
<1> DEFINE N == Len(t.range)
           From == {g}
           Step(x, k) == Visits(pk, buf, x)
           Upto(j, h) == h = [k \in 0 .. j |-> IF k = 0 THEN From ELSE Step(h[k - 1], k)]
           Some == {j \in 0 .. N : \E h : Upto(j, h)}
<1> N \in Nat
  OBVIOUS
<1> HIDE DEF N, From, Step, Upto
<1>1. 0 \in Some
  <2>1. Upto(0, [k \in 0 .. 0 |-> From])
    BY DEF Upto
  <2> QED  BY <2>1
<1>2. ASSUME NEW j \in 0 .. N - 1, j \in Some  PROVE  j + 1 \in Some
  <2>1. PICK h : Upto(j, h)
    BY <1>2
  <2> DEFINE h2 == [k \in 0 .. j + 1 |-> IF k = j + 1 THEN Step(h[j], k) ELSE h[k]]
  <2>2. Upto(j + 1, h2)
    BY <2>1 DEF Upto
  <2> HIDE DEF h2
  <2> QED  BY <2>2
<1> HIDE DEF Some
<1>3. \E h : Upto(N, h)
  <2>1. 0 .. N \subseteq Some
    BY <1>1, <1>2, Upward
  <2> QED  BY <2>1 DEF Some
<1>4. PICK F : Upto(N, F) /\ Generated(t, g, pk, buf) = UNION {node.ops : node \in F[N]}
  BY <1>3, Zenon DEF Upto, Step, N, From, Generated, Fold
<1>5. /\ F[0] = From
      /\ \A k \in 1 .. N : F[k] = Step(F[k - 1], k)
  BY <1>4 DEF Upto
<1>6. VisitsSteps(t, g, pk, buf, F)
  BY <1>5 DEF Step, N, From, VisitsSteps
<1> QED  BY <1>4, <1>6 DEF N

(* The facts of a state, layer by layer.                                   *)
FactsSteps(t, s, F) ==
    /\ F[0] = Given0(t, s)
    /\ \A k \in 1 .. (LastLayer(t) + 1) : F[k] = WithLayer(t, F[k - 1], k - 1)

(* FactsIn is that loop.                                                   *)
LEMMA FactsRun ==
  ASSUME NEW t,
         NEW s,
         LastLayer(t) + 1 \in Nat
  PROVE  \E F : FactsSteps(t, s, F) /\ FactsIn(t, s) = F[(LastLayer(t) + 1)]
<1> DEFINE N == (LastLayer(t) + 1)
           From == Given0(t, s)
           Step(x, k) == WithLayer(t, x, k - 1)
           Upto(j, h) == h = [k \in 0 .. j |-> IF k = 0 THEN From ELSE Step(h[k - 1], k)]
           Some == {j \in 0 .. N : \E h : Upto(j, h)}
<1> N \in Nat
  OBVIOUS
<1> HIDE DEF N, From, Step, Upto
<1>1. 0 \in Some
  <2>1. Upto(0, [k \in 0 .. 0 |-> From])
    BY DEF Upto
  <2> QED  BY <2>1
<1>2. ASSUME NEW j \in 0 .. N - 1, j \in Some  PROVE  j + 1 \in Some
  <2>1. PICK h : Upto(j, h)
    BY <1>2
  <2> DEFINE h2 == [k \in 0 .. j + 1 |-> IF k = j + 1 THEN Step(h[j], k) ELSE h[k]]
  <2>2. Upto(j + 1, h2)
    BY <2>1 DEF Upto
  <2> HIDE DEF h2
  <2> QED  BY <2>2
<1> HIDE DEF Some
<1>3. \E h : Upto(N, h)
  <2>1. 0 .. N \subseteq Some
    BY <1>1, <1>2, Upward
  <2> QED  BY <2>1 DEF Some
<1>4. PICK F : Upto(N, F) /\ FactsIn(t, s) = F[N]
  BY <1>3, Zenon DEF Upto, Step, N, From, FactsIn, Fold, Given0
<1>5. /\ F[0] = From
      /\ \A k \in 1 .. N : F[k] = Step(F[k - 1], k)
  BY <1>4 DEF Upto
<1>6. FactsSteps(t, s, F)
  BY <1>5 DEF Step, N, From, FactsSteps
<1> QED  BY <1>4, <1>6 DEF N

(* The effects on a number, as they are meant.                             *)
LEMMA NumberRun ==
  ASSUME NEW op,
         NEW v,
         NEW value,
         NEW nums,
         Len(op.nums) \in Nat
  PROVE  \E F : /\ F[0] = value
                /\ \A k \in 1 .. Len(op.nums) :
                         F[k] = IF op.nums[k].var = v
                                THEN AssignEffect(op.nums[k].fop, F[k - 1], nums[op.nums[k].by])
                                ELSE F[k - 1]
                /\ MeantNumber(op, v, value, nums) = F[Len(op.nums)]
<1> DEFINE N == Len(op.nums)
           From == value
           Step(x, k) == IF op.nums[k].var = v
                         THEN AssignEffect(op.nums[k].fop, x, nums[op.nums[k].by])
                         ELSE x
           Upto(j, h) == h = [k \in 0 .. j |-> IF k = 0 THEN From ELSE Step(h[k - 1], k)]
           Some == {j \in 0 .. N : \E h : Upto(j, h)}
<1> N \in Nat
  OBVIOUS
<1> HIDE DEF N, From, Step, Upto
<1>1. 0 \in Some
  <2>1. Upto(0, [k \in 0 .. 0 |-> From])
    BY DEF Upto
  <2> QED  BY <2>1
<1>2. ASSUME NEW j \in 0 .. N - 1, j \in Some  PROVE  j + 1 \in Some
  <2>1. PICK h : Upto(j, h)
    BY <1>2
  <2> DEFINE h2 == [k \in 0 .. j + 1 |-> IF k = j + 1 THEN Step(h[j], k) ELSE h[k]]
  <2>2. Upto(j + 1, h2)
    BY <2>1 DEF Upto
  <2> HIDE DEF h2
  <2> QED  BY <2>2
<1> HIDE DEF Some
<1>3. \E h : Upto(N, h)
  <2>1. 0 .. N \subseteq Some
    BY <1>1, <1>2, Upward
  <2> QED  BY <2>1 DEF Some
<1>4. PICK F : Upto(N, F) /\ MeantNumber(op, v, value, nums) = F[N]
  BY <1>3, Zenon DEF Upto, Step, N, From, MeantNumber, Fold
<1>5. /\ F[0] = From
      /\ \A k \in 1 .. N : F[k] = Step(F[k - 1], k)
  BY <1>4 DEF Upto
<1> QED  BY <1>4, <1>5, Zenon DEF Step, N, From

(* The packed variables are finitely many.                                 *)
LEMMA PackedFinite ==
  ASSUME NEW t, VariablesOK(t)
  PROVE  IsFiniteSet(Packed(t)) /\ Cardinality(Packed(t)) \in Nat
<1>1. IsFiniteSet(Logic(t)) /\ IsFiniteSet(OfType(t, "regular"))
  <2>1. Logic(t) = 1 .. Len(t.range) /\ Len(t.range) \in Nat
    BY DEF VariablesOK, Logic
  <2>2. Numeric(t) = 1 .. Len(t.ntype) /\ Len(t.ntype) \in Nat
    BY DEF VariablesOK, Numeric
  <2>3. OfType(t, "regular") \subseteq Numeric(t)
    BY DEF OfType
  <2>4. IsFiniteSet(1 .. Len(t.range)) /\ IsFiniteSet(1 .. Len(t.ntype))
    BY <2>1, <2>2, FS_Interval
  <2> QED  BY <2>1, <2>2, <2>3, <2>4, FS_Subset
<1>2. IsFiniteSet({"var"} \X Logic(t)) /\ IsFiniteSet({"num"} \X OfType(t, "regular"))
  BY <1>1, FS_Singleton, FS_Product
<1>3. IsFiniteSet(Packed(t))
  BY <1>2, FS_Union DEF Packed
<1> QED  BY <1>3, FS_CardinalityType

(* A variable has at least a bit, and a bin has room for it.               *)
LEMMA BitsSuffice ==
  ASSUME NEW r \in Nat, 2 <= r, r <= Pow2[BinBits]
  PROVE  Bits(r) \in 1 .. BinBits /\ r <= Pow2[Bits(r)]
<1> BinBits \in Nat
  BY PackerAssumption
<1> DEFINE S == {n \in Nat : r <= Pow2[n]}
<1>1. BinBits \in S /\ r \in S
  BY Pow2Positive
<1>2. PICK n \in S : \A k \in S : n <= k
  <2> S \subseteq Nat
    OBVIOUS
  <2> HIDE DEF S
  <2> QED  BY <1>1, LeastNat
<1>3. n \in 0 .. r /\ r <= Pow2[n] /\ \A k \in 0 .. n - 1 : Pow2[k] < r
  <2>1. ASSUME NEW k \in 0 .. n - 1  PROVE  Pow2[k] < r
    <3>1. k \in Nat /\ k \notin S
      BY <1>2
    <3>2. Pow2[k] \in Nat
      BY <3>1, Pow2Positive
    <3> QED  BY <3>1, <3>2
  <2> QED  BY <1>1, <1>2, <2>1
<1> HIDE DEF S
<1>4. /\ Bits(r) \in 0 .. r /\ r <= Pow2[Bits(r)]
      /\ \A k \in 0 .. Bits(r) - 1 : Pow2[k] < r
  BY <1>3 DEF Bits
<1>5. Bits(r) # 0
  BY <1>4, Pow2Def
<1>6. ASSUME BinBits < Bits(r)  PROVE  FALSE
  <2>1. Pow2[BinBits] < r
    BY <1>4, <1>6
  <2> QED  BY <2>1, Pow2Positive
<1> QED  BY <1>4, <1>5, <1>6

(* The bits of a packed variable hold its values and fit in a bin; a       *)
(* double fills the bin.                                                   *)
LEMMA SizeOK ==
  ASSUME NEW t, VariablesOK(t), NEW x \in Packed(t)
  PROVE  /\ Size(t, x) \in 1 .. BinBits
         /\ x[1] \in {"var", "num"} /\ x[2] \in Nat
         /\ x[1] = "var" => /\ x[2] \in Logic(t) /\ x = <<"var", x[2]>>
                            /\ t.range[x[2]] \in Nat
                            /\ t.range[x[2]] <= Pow2[Size(t, x)]
         /\ x[1] = "num" => /\ x[2] \in OfType(t, "regular") /\ x = <<"num", x[2]>>
                            /\ Size(t, x) = BinBits
<1> BinBits \in Nat \ {0}
  BY PackerAssumption
<1>1. CASE x \in {"var"} \X Logic(t)
  <2>1. x[1] = "var" /\ x[2] \in Logic(t) /\ x = <<"var", x[2]>> /\ x[1] # "num"
    BY <1>1
  <2>2. /\ t.range[x[2]] \in Nat /\ 2 <= t.range[x[2]]
        /\ t.range[x[2]] <= Pow2[BinBits] /\ x[2] \in Nat
    BY <2>1 DEF VariablesOK, Logic
  <2>3. Size(t, x) = Bits(t.range[x[2]])
    BY <2>1 DEF Size
  <2> QED  BY <2>1, <2>2, <2>3, BitsSuffice
<1>2. CASE x \in {"num"} \X OfType(t, "regular")
  <2>1. x[1] = "num" /\ x[2] \in OfType(t, "regular") /\ x = <<"num", x[2]>>
    BY <1>2
  <2>2. x[2] \in Nat
    BY <2>1 DEF OfType, VariablesOK, Numeric
  <2> QED  BY <2>1, <2>2 DEF Size
<1> QED  BY <1>1, <1>2 DEF Packed

(* The packer's choice is one of the variables it chooses from.            *)
LEMMA BestFitIn ==
  ASSUME NEW t, VariablesOK(t), NEW fits, fits # {}, fits \subseteq Packed(t)
  PROVE  BestFit(t, fits) \in fits
<1> DEFINE rest == {BinBits - Size(t, x) : x \in fits}
           largest == {x \in fits : \A y \in fits : Size(t, y) <= Size(t, x)}
           logic   == {x \in largest : x[1] = "var"}
           among   == IF logic # {} THEN logic ELSE largest
           second  == {x[2] : x \in among}
<1> BinBits \in Nat
  BY PackerAssumption
<1>0. \A x \in fits : Size(t, x) \in 1 .. BinBits /\ x[2] \in Nat
  BY SizeOK
<1>1. largest # {}
  <2>1. rest \subseteq Nat /\ rest # {}
    BY <1>0
  <2>2. PICK r \in rest : \A k \in rest : r <= k
    <3> HIDE DEF rest
    <3> QED  BY <2>1, LeastNat
  <2>3. PICK x \in fits : r = BinBits - Size(t, x)
    BY <2>2
  <2>4. ASSUME NEW y \in fits  PROVE  Size(t, y) <= Size(t, x)
    <3>1. BinBits - Size(t, y) \in rest
      OBVIOUS
    <3>2. BinBits - Size(t, x) <= BinBits - Size(t, y)
      BY <2>2, <2>3, <3>1
    <3> QED  BY <1>0, <2>3, <3>2
  <2> QED  BY <2>3, <2>4
<1>2. among # {} /\ among \subseteq fits
  BY <1>1
<1> HIDE DEF among
<1>3. \E x \in among : \A y \in among : x[2] <= y[2]
  <2>1. second \subseteq Nat /\ second # {}
    BY <1>0, <1>2
  <2>2. PICK k \in second : \A j \in second : k <= j
    <3> HIDE DEF second
    <3> QED  BY <2>1, LeastNat
  <2> QED  BY <2>2
<1>4. BestFit(t, fits) = CHOOSE x \in among : \A y \in among : x[2] <= y[2]
  BY DEF BestFit, among
<1> QED  BY <1>2, <1>3, <1>4

(* Where the packer has put the variables X: apart from each other, without *)
(* a gap from bit 0 on, and a double alone in its bin.                      *)
End(pk, x) == pk[x].shift + pk[x].bits
Beside(pk, X, x) == {y \in X : pk[y].bin = pk[x].bin}
PlacedIn(t, pk, X) ==
    /\ pk \in [Packed(t) -> [bin : Nat, shift : Nat, bits : Nat]]
    /\ \A x \in X :
         /\ pk[x].bits = Size(t, x)
         /\ \A y \in Beside(pk, X, x) :
               y # x => /\ x[1] = "var"
                        /\ End(pk, x) <= pk[y].shift \/ End(pk, y) <= pk[x].shift
         /\ pk[x].shift = 0 \/ \E y \in Beside(pk, X, x) : End(pk, y) = pk[x].shift
         /\ \E y \in Beside(pk, X, x) :
               \A z \in Beside(pk, X, x) : End(pk, z) <= End(pk, y)

(* The packer's loop: the bin it fills is full up to the used bits.        *)
Filling(t, p) ==
    LET X == Packed(t) \ p.left
        here == {x \in X : p.place[x].bin = p.bin}
    IN  /\ p.left \subseteq Packed(t) /\ p.bin \in Nat /\ p.used \in 0 .. BinBits
        /\ PlacedIn(t, p.place, X)
        /\ \A x \in X : p.place[x].bin <= p.bin /\ p.place[x].bin >= 1
        /\ \A x \in here : /\ End(p.place, x) <= p.used
                           /\ x[1] = "num" => p.used = BinBits
        /\ IF here = {} THEN p.used = BinBits
           ELSE \E x \in here : End(p.place, x) = p.used

(* One variable more is placed, next to those of its bin or at bit 0 of    *)
(* the next bin.                                                           *)
LEMMA FillingStep ==
  ASSUME NEW t, VariablesOK(t), NEW p, Filling(t, p), p.left # {}
  PROVE  /\ Filling(t, PackNext(t, p))
         /\ \E x \in p.left : PackNext(t, p).left = p.left \ {x}
<1> DEFINE fits == {x \in p.left : Size(t, x) <= BinBits - p.used}
           x    == BestFit(t, IF fits = {} THEN p.left ELSE fits)
           bin  == IF fits = {} THEN p.bin + 1 ELSE p.bin
           from == IF fits = {} THEN 0 ELSE p.used
           place == [p.place EXCEPT ![x] = [bin |-> bin, shift |-> from,
                                            bits |-> Size(t, x)]]
           X == Packed(t) \ p.left
           Y == Packed(t) \ (p.left \ {x})
           here == {z \in X : p.place[z].bin = p.bin}
           q == PackNext(t, p)
<1> BinBits \in Nat \ {0}
  BY PackerAssumption
<1>1. x \in p.left /\ x \in Packed(t) /\ (fits # {} => x \in fits)
  <2>1. p.left \subseteq Packed(t) /\ fits \subseteq p.left
    BY DEF Filling
  <2>2. BestFit(t, IF fits = {} THEN p.left ELSE fits)
          \in (IF fits = {} THEN p.left ELSE fits)
    BY <2>1, BestFitIn
  <2> QED  BY <2>1, <2>2
<1>2. /\ q = [left |-> p.left \ {x}, bin |-> bin, used |-> from + Size(t, x),
              place |-> place]
  BY DEF PackNext
<1>3. fits # {} => Size(t, x) <= BinBits - p.used
  BY <1>1
<1>4. Size(t, x) \in 1 .. BinBits /\ (x[1] = "num" => Size(t, x) = BinBits)
      /\ x[1] \in {"var", "num"}
  BY <1>1, SizeOK
<1> HIDE DEF fits, x, q
<1>5. /\ p.bin \in Nat /\ p.used \in 0 .. BinBits
      /\ p.place \in [Packed(t) -> [bin : Nat, shift : Nat, bits : Nat]]
      /\ p.left \subseteq Packed(t)
      /\ \A z \in X : p.place[z].bin <= p.bin /\ p.place[z].bin >= 1
      /\ \A z \in here : /\ End(p.place, z) <= p.used
                         /\ z[1] = "num" => p.used = BinBits
      /\ IF here = {} THEN p.used = BinBits
         ELSE \E z \in here : End(p.place, z) = p.used
  BY DEF Filling, PlacedIn
<1>6. /\ bin \in Nat /\ from \in 0 .. BinBits /\ from + Size(t, x) \in 0 .. BinBits
      /\ bin >= p.bin /\ bin >= 1
  <2>1. fits # {} => p.used < BinBits
    BY <1>3, <1>4, <1>5
  <2>2. fits # {} => p.bin >= 1
    BY <1>5, <2>1
  <2> QED  BY <1>3, <1>4, <1>5, <2>2
<1>7. /\ Y = X \cup {x} /\ x \notin X
      /\ place \in [Packed(t) -> [bin : Nat, shift : Nat, bits : Nat]]
      /\ place[x] = [bin |-> bin, shift |-> from, bits |-> Size(t, x)]
      /\ End(place, x) = from + Size(t, x)
      /\ \A z \in X : place[z] = p.place[z] /\ End(place, z) = End(p.place, z)
  BY <1>1, <1>4, <1>5, <1>6 DEF End
<1> HIDE DEF place
<1>8. /\ Beside(place, Y, x) = {x} \cup (IF fits = {} THEN {} ELSE here)
      /\ \A z \in X : Beside(place, Y, z) = Beside(p.place, X, z)
                        \cup (IF z \in here /\ fits # {} THEN {x} ELSE {})
  BY <1>5, <1>7 DEF Beside
<1>9. \A z \in here : /\ End(p.place, z) \in Nat /\ p.place[z].shift \in Nat
                      /\ fits # {} => z[1] = "var" /\ End(p.place, z) <= from
  <2>1. ASSUME NEW z \in here, fits # {}  PROVE  z[1] = "var"
    <3>1. z[1] = "num" => p.used = BinBits
      BY <1>5, <2>1
    <3>2. z[1] \in {"var", "num"}
      BY SizeOK
    <3> QED  BY <1>3, <1>4, <1>5, <2>1, <3>1, <3>2
  <2> QED  BY <1>5, <2>1 DEF End
<1>10. x[1] = "num" => fits = {}
  <2>1. ASSUME x[1] = "num", fits # {}  PROVE  FALSE
    <3>1. p.used = 0 /\ here # {}
      BY <1>3, <1>4, <1>5, <2>1
    <3>2. PICK z \in here : End(p.place, z) = 0
      BY <1>5, <3>1
    <3>3. p.place[z].bits = Size(t, z) /\ Size(t, z) \in 1 .. BinBits
      BY SizeOK DEF Filling, PlacedIn
    <3> QED  BY <1>5, <3>2, <3>3 DEF End
  <2> QED  BY <2>1
<1>11. \A z \in X : /\ p.place[z].bits = Size(t, z)
                    /\ \A y \in Beside(p.place, X, z) :
                          y # z => /\ z[1] = "var"
                                   /\ \/ End(p.place, z) <= p.place[y].shift
                                      \/ End(p.place, y) <= p.place[z].shift
                    /\ \/ p.place[z].shift = 0
                       \/ \E y \in Beside(p.place, X, z) : End(p.place, y) = p.place[z].shift
                    /\ \E y \in Beside(p.place, X, z) :
                          \A w \in Beside(p.place, X, z) : End(p.place, w) <= End(p.place, y)
  BY DEF Filling, PlacedIn
<1>12. ASSUME NEW z \in Y
       PROVE  /\ place[z].bits = Size(t, z)
              /\ \A y \in Beside(place, Y, z) :
                    y # z => /\ z[1] = "var"
                             /\ \/ End(place, z) <= place[y].shift
                                \/ End(place, y) <= place[z].shift
              /\ \/ place[z].shift = 0
                 \/ \E y \in Beside(place, Y, z) : End(place, y) = place[z].shift
              /\ \E y \in Beside(place, Y, z) :
                    \A w \in Beside(place, Y, z) : End(place, w) <= End(place, y)
  <2>1. CASE z = x
    <3>1. place[x].bits = Size(t, x) /\ place[x].shift = from
      BY <1>7
    <3>2. ASSUME NEW y \in Beside(place, Y, x), y # x
          PROVE  x[1] = "var" /\ End(place, y) <= place[x].shift
      <4>1. fits # {} /\ y \in here
        BY <1>8, <3>2
      <4> QED  BY <1>4, <1>7, <1>9, <1>10, <3>1, <4>1
    <3>3. \/ place[x].shift = 0
          \/ \E y \in Beside(place, Y, x) : End(place, y) = place[x].shift
      <4>1. CASE fits = {}
        BY <3>1, <4>1
      <4>2. CASE fits # {}
        <5>1. here # {}
          BY <1>3, <1>4, <1>5, <4>2
        <5>2. PICK y \in here : End(p.place, y) = p.used
          BY <1>5, <5>1
        <5> QED  BY <1>7, <1>8, <3>1, <4>2, <5>2
      <4> QED  BY <4>1, <4>2
    <3>4. \A w \in Beside(place, Y, x) : End(place, w) <= End(place, x)
      <4>1. ASSUME NEW w \in Beside(place, Y, x)
            PROVE  End(place, w) <= End(place, x)
        <5>1. CASE w = x
          BY <5>1, <1>4, <1>6, <1>7
        <5>2. CASE w # x
          <6>1. fits # {} /\ w \in here
            BY <1>8, <5>2
          <6> QED  BY <1>4, <1>6, <1>7, <1>9, <6>1
        <5> QED  BY <5>1, <5>2
      <4> QED  BY <4>1
    <3>5. x \in Beside(place, Y, x)
      BY <1>8
    <3> QED  BY <2>1, <3>1, <3>2, <3>3, <3>4, <3>5
  <2>2. CASE z \in X
    <3>1. place[z].bits = Size(t, z)
      BY <1>7, <1>11, <2>2
    <3>2. ASSUME NEW y \in Beside(place, Y, z), y # z
          PROVE  z[1] = "var" /\ (\/ End(place, z) <= place[y].shift
                                 \/ End(place, y) <= place[z].shift)
      <4>1. CASE y = x
        <5>1. z \in here /\ fits # {}
          BY <1>7, <1>8, <2>2, <3>2, <4>1 DEF Beside
        <5> QED  BY <1>7, <1>9, <4>1, <5>1
      <4>2. CASE y # x
        <5>1. y \in Beside(p.place, X, z)
          BY <1>8, <2>2, <3>2, <4>2
        <5>2. y \in X
          BY <5>1 DEF Beside
        <5> QED  BY <1>7, <1>11, <2>2, <3>2, <5>1, <5>2
      <4> QED  BY <4>1, <4>2
    <3>3. \/ place[z].shift = 0
          \/ \E y \in Beside(place, Y, z) : End(place, y) = place[z].shift
      <4>1. CASE p.place[z].shift = 0
        BY <1>7, <2>2, <4>1
      <4>2. ASSUME NEW y \in Beside(p.place, X, z), End(p.place, y) = p.place[z].shift
            PROVE  y \in Beside(place, Y, z) /\ End(place, y) = place[z].shift
        <5>1. y \in X
          BY DEF Beside
        <5> QED  BY <1>7, <1>8, <2>2, <4>2, <5>1
      <4>3. \/ p.place[z].shift = 0
            \/ \E y \in Beside(p.place, X, z) : End(p.place, y) = p.place[z].shift
        <5>1. \A u \in X :
                 \/ p.place[u].shift = 0
                 \/ \E y \in Beside(p.place, X, u) : End(p.place, y) = p.place[u].shift
          BY DEF Filling, PlacedIn
        <5> QED  BY <2>2, <5>1
      <4> QED  BY <4>1, <4>2, <4>3
    <3>4. \E y \in Beside(place, Y, z) :
             \A w \in Beside(place, Y, z) : End(place, w) <= End(place, y)
      <4>1. PICK y \in Beside(p.place, X, z) :
               \A w \in Beside(p.place, X, z) : End(p.place, w) <= End(p.place, y)
        <5>1. \A u \in X : \E y \in Beside(p.place, X, u) :
                 \A w \in Beside(p.place, X, u) : End(p.place, w) <= End(p.place, y)
          BY DEF Filling, PlacedIn
        <5> QED  BY <2>2, <5>1
      <4>2. Beside(p.place, X, z) \subseteq X
        BY DEF Beside
      <4>3. CASE z \in here /\ fits # {}
        <5>1. x \in Beside(place, Y, z)
          BY <1>8, <2>2, <4>3
        <5>2. ASSUME NEW w \in Beside(place, Y, z)
              PROVE  End(place, w) <= End(place, x)
          <6>1. CASE w = x
            BY <6>1, <1>4, <1>6, <1>7
          <6>2. CASE w # x
            <7>1. w \in Beside(p.place, X, z)
              BY <1>8, <2>2, <6>2
            <7>2. w \in here
              BY <4>3, <7>1 DEF Beside
            <7> QED  BY <1>4, <1>6, <1>7, <1>9, <4>3, <7>2
          <6> QED  BY <6>1, <6>2
        <5> QED  BY <5>1, <5>2
      <4>4. CASE ~(z \in here /\ fits # {})
        <5>1. Beside(place, Y, z) = Beside(p.place, X, z)
          BY <1>8, <2>2, <4>4
        <5> QED  BY <1>7, <4>1, <4>2, <5>1
      <4> QED  BY <4>3, <4>4
    <3> QED  BY <3>1, <3>2, <3>3, <3>4
  <2> QED  BY <1>7, <2>1, <2>2
<1>13. PlacedIn(t, place, Y)
  BY <1>7, <1>12 DEF PlacedIn
<1>14. \A z \in Y : place[z].bin <= bin /\ place[z].bin >= 1
  BY <1>5, <1>6, <1>7
<1> DEFINE here2 == {z \in Y : place[z].bin = bin}
<1>15. ASSUME NEW z \in here2
       PROVE  End(place, z) <= from + Size(t, x)
              /\ (z[1] = "num" => from + Size(t, x) = BinBits)
  <2>1. CASE z = x
    BY <1>4, <1>6, <1>7, <2>1
  <2>2. CASE z # x
    <3>1. z \in here /\ fits # {}
      BY <1>5, <1>7, <2>2
    <3> QED  BY <1>4, <1>6, <1>9, <1>7, <3>1
  <2> QED  BY <2>1, <2>2
<1>16. x \in here2 /\ End(place, x) = from + Size(t, x)
  BY <1>7
<1>17. /\ q.left = p.left \ {x} /\ q.bin = bin /\ q.used = from + Size(t, x)
       /\ q.place = place
  BY <1>2
<1>18. Packed(t) \ q.left = Y
  BY <1>17
<1> HIDE DEF bin, from, Y
<1>19. Filling(t, q)
  BY <1>1, <1>5, <1>6, <1>13, <1>14, <1>15, <1>16, <1>17, <1>18 DEF Filling
<1> QED  BY <1>1, <1>17, <1>19 DEF q

(* The packer places every variable.                                       *)
LEMMA PackerPlaces ==
  ASSUME NEW t, VariablesOK(t)
  PROVE  PlacedIn(t, Packer(t), Packed(t))
<1> DEFINE n == Cardinality(Packed(t))
           p0 == [left |-> Packed(t), bin |-> 0, used |-> BinBits,
                  place |-> [z \in Packed(t) |-> Unplaced]]
<1> BinBits \in Nat
  BY PackerAssumption
<1>1. n \in Nat /\ IsFiniteSet(Packed(t))
  BY PackedFinite
<1>a. n = Cardinality(Packed(t))
  OBVIOUS
<1>2. PICK F : /\ F[0] = p0
               /\ \A k \in 1 .. n : F[k] = PackNext(t, F[k - 1])
               /\ Packer(t) = F[n].place
  BY <1>1, PackerRun
<1> HIDE DEF n
<1> DEFINE Good == {k \in 0 .. n : Filling(t, F[k]) /\ IsFiniteSet(F[k].left)
                                  /\ Cardinality(F[k].left) = n - k}
<1>3. 0 \in Good
  <2>1. p0.place \in [Packed(t) -> [bin : Nat, shift : Nat, bits : Nat]]
    BY DEF Unplaced
  <2>2. Filling(t, p0)
    BY <2>1 DEF Filling, PlacedIn
  <2> QED  BY <1>1, <1>a, <1>2, <2>2
<1>4. ASSUME NEW k \in 0 .. n - 1, k \in Good  PROVE  k + 1 \in Good
  <2>1. Cardinality(F[k].left) # 0 /\ IsFiniteSet(F[k].left)
    BY <1>1, <1>4
  <2>2. F[k].left # {}
    BY <2>1, FS_EmptySet
  <2>3. F[k + 1] = PackNext(t, F[k])
    BY <1>1, <1>2
  <2>4. PICK x \in F[k].left : Filling(t, F[k + 1]) /\ F[k + 1].left = F[k].left \ {x}
    BY <1>4, <2>2, <2>3, FillingStep
  <2>5. IsFiniteSet(F[k + 1].left) /\ Cardinality(F[k + 1].left) = n - k - 1
    <3> DEFINE L == F[k].left
    <3>1. IsFiniteSet(L) /\ x \in L /\ Cardinality(L) = n - k
      BY <1>4, <2>1, <2>4
    <3> HIDE DEF L
    <3>2. IsFiniteSet(L \ {x}) /\ Cardinality(L \ {x}) = Cardinality(L) - 1
      BY <3>1, FS_RemoveElement
    <3>3. F[k + 1].left = L \ {x}
      BY <2>4 DEF L
    <3> QED  BY <3>1, <3>2, <3>3
  <2>6. k + 1 \in 0 .. n /\ n - k - 1 = n - (k + 1)
    BY <1>1
  <2> QED  BY <2>4, <2>5, <2>6
<1> HIDE DEF Good
<1>5. n \in Good
  <2>1. 0 .. n \subseteq Good
    BY <1>1, <1>3, <1>4, Upward
  <2> QED  BY <1>1, <2>1
<1>6. F[n].left = {}
  <2>1. IsFiniteSet(F[n].left) /\ Cardinality(F[n].left) = 0
    BY <1>1, <1>5 DEF Good
  <2> QED  BY <2>1, FS_EmptySet
<1> QED  BY <1>2, <1>5, <1>6 DEF Good, Filling

(* Division with remainder.                                                *)
LEMMA DivIs ==
  ASSUME NEW d \in Nat \ {0}, NEW q \in Int, NEW r \in 0 .. d - 1
  PROVE  (d * q + r) \div d = q /\ (d * q + r) % d = r
OBVIOUS

(* Every integer is quotient times divisor plus remainder.                 *)
LEMMA DivEx ==
  ASSUME NEW a \in Int, NEW d \in Nat \ {0}
  PROVE  a \div d \in Int /\ a % d \in 0 .. d - 1 /\ a = d * (a \div d) + (a % d)
<1>1. a \div d \in Int
  OBVIOUS
<1>2. a % d \in 0 .. d - 1
  OBVIOUS
<1>3. a = d * (a \div d) + (a % d)
  OBVIOUS
<1> QED  BY <1>1, <1>2, <1>3

(* The arithmetic that the solver is slow to find.                         *)
LEMMA Distributes ==
  \A x, y, z \in Int : /\ x * (y + z) = x * y + x * z
                       /\ (x * y) * z = x * (y * z) /\ x * y = y * x
                       /\ x * (y - z) = x * y - x * z
OBVIOUS

(* The bits of an integer from position s on.                              *)
Field(n, s, b) == (n \div Pow2[s]) % Pow2[b]

(* An integer put together from a low part, a field and a high part has    *)
(* that field.                                                             *)
LEMMA FieldIs ==
  ASSUME NEW s \in Nat, NEW b \in Nat, NEW low \in 0 .. Pow2[s] - 1,
         NEW f \in 0 .. Pow2[b] - 1, NEW high \in Int
  PROVE  Field(low + Pow2[s] * (f + Pow2[b] * high), s, b) = f
<1>1. Pow2[s] \in Nat \ {0} /\ Pow2[b] \in Nat \ {0}
  BY Pow2Positive
<1> DEFINE q == Pow2[b] * high + f
<1>2. q \in Int /\ f + Pow2[b] * high = q
  BY <1>1
<1> HIDE DEF q
<1>3. (Pow2[s] * q + low) \div Pow2[s] = q
  BY <1>1, <1>2, DivIs
<1>4. low + Pow2[s] * q = Pow2[s] * q + low
  BY <1>1, <1>2
<1>5. q % Pow2[b] = f
  BY <1>1, DivIs DEF q
<1> QED  BY <1>2, <1>3, <1>4, <1>5 DEF Field

(* Every integer is put together like that.                                *)
LEMMA FieldSplits ==
  ASSUME NEW n \in Int, NEW s \in Nat, NEW b \in Nat
  PROVE  /\ Field(n, s, b) \in 0 .. Pow2[b] - 1
         /\ \E low \in 0 .. Pow2[s] - 1, high \in Int :
               n = low + Pow2[s] * (Field(n, s, b) + Pow2[b] * high)
<1>1. Pow2[s] \in Nat \ {0} /\ Pow2[b] \in Nat \ {0}
  BY Pow2Positive
<1> DEFINE low == n % Pow2[s]
           q == n \div Pow2[s]
           high == q \div Pow2[b]
<1>2. q \in Int /\ low \in 0 .. Pow2[s] - 1 /\ n = Pow2[s] * q + low
  BY <1>1, DivEx
<1> HIDE DEF low
<1>a. Field(n, s, b) = q % Pow2[b]
  BY DEF Field
<1> HIDE DEF q
<1>3. /\ high \in Int /\ Field(n, s, b) \in 0 .. Pow2[b] - 1
      /\ q = Pow2[b] * high + Field(n, s, b)
  <2> DEFINE w == Pow2[b]
  <2>1. w \in Nat \ {0} /\ q \in Int
    BY <1>1, <1>2
  <2> HIDE DEF w
  <2>2. q \div w \in Int /\ q % w \in 0 .. w - 1 /\ q = w * (q \div w) + (q % w)
    BY <2>1, DivEx
  <2> QED  BY <1>a, <2>2 DEF w
<1> HIDE DEF high
<1>4. n = low + Pow2[s] * (Field(n, s, b) + Pow2[b] * high)
  <2>1. Pow2[b] * high + Field(n, s, b) = Field(n, s, b) + Pow2[b] * high
    BY <1>1, <1>3
  <2> QED  BY <1>1, <1>2, <1>3, <2>1
<1> QED  BY <1>2, <1>3, <1>4

(* Dividing by a product is dividing twice.                                *)
LEMMA HighPart ==
  ASSUME NEW w \in Nat \ {0}, NEW r \in Nat \ {0}, NEW l \in 0 .. w - 1,
         NEW h \in Int
  PROVE  (l + w * h) \div (w * r) = h \div r
<1> DEFINE q == h \div r
           x == h % r
<1>1. q \in Int /\ x \in 0 .. r - 1 /\ h = r * q + x
  BY DivEx
<1> HIDE DEF q, x
<1>2. w * h = (w * r) * q + w * x
  <2>1. /\ r * q \in Int /\ w * (r * q + x) = w * (r * q) + w * x
        /\ (w * r) * q = w * (r * q)
    BY <1>1, Distributes
  <2> QED  BY <1>1, <2>1
<1>3. w * x >= 0 /\ w * x <= w * r - w
  <2>1. w * (r - 1 - x) >= 0 /\ w * x >= 0
    BY <1>1
  <2>2. w * (r - 1 - x) = w * (r - 1) - w * x /\ w * (r - 1) = w * r - w * 1
    BY <1>1, Distributes
  <2>3. w * x \in Int /\ w * r \in Int /\ w * (r - 1) \in Int
    BY <1>1
  <2> QED  BY <2>1, <2>2, <2>3
<1>4. w * r \in Nat \ {0} /\ w * x + l \in 0 .. w * r - 1
  <2>1. w * r \in Nat /\ w * r # 0 /\ w * x \in Int
    BY <1>1
  <2> QED  BY <1>3, <2>1
<1>5. l + w * h = (w * r) * q + (w * x + l)
  <2>1. (w * r) * q \in Int /\ w * x \in Int
    BY <1>1
  <2> QED  BY <1>2, <2>1
<1>6. ((w * r) * q + (w * x + l)) \div (w * r) = q
  BY <1>1, <1>4, DivIs
<1> QED  BY <1>5, <1>6 DEF q

(* A new value for a field changes no other, below or above, and an        *)
(* integer of e bits remains one.                                          *)
LEMMA FieldPut ==
  ASSUME NEW n \in Int, NEW s \in Nat, NEW b \in Nat,
         NEW v \in 0 .. Pow2[b] - 1
  PROVE  LET m == n + (v - Field(n, s, b)) * Pow2[s]
         IN  /\ m \in Int /\ Field(m, s, b) = v
             /\ \A s2, b2 \in Nat : s2 + b2 <= s \/ s + b <= s2 =>
                                      Field(m, s2, b2) = Field(n, s2, b2)
             /\ \A e \in Nat : /\ s + b <= e /\ 0 <= n /\ n < Pow2[e]
                               => 0 <= m /\ m < Pow2[e]
<1> DEFINE P == Pow2[s]
           Q == Pow2[b]
           f == Field(n, s, b)
           m == n + (v - f) * P
<1>1. P \in Nat \ {0} /\ Q \in Nat \ {0}
  BY Pow2Positive
<1>2. f \in 0 .. Q - 1
  BY FieldSplits
<1>3. PICK low \in 0 .. P - 1, high \in Int : n = low + P * (f + Q * high)
  BY FieldSplits
<1> HIDE DEF P, Q, f
<1>4. m \in Int
  BY <1>1, <1>2
<1>5. m = low + P * (v + Q * high)
  <2> DEFINE h == Q * high
  <2>1. h \in Int
    BY <1>1
  <2> HIDE DEF h
  <2>2. n = low + P * (f + h)
    BY <1>3 DEF h
  <2>3. P * (f + h) = P * f + P * h /\ P * (v + h) = P * v + P * h
    BY <1>1, <1>2, <2>1, Distributes
  <2>4. (v - f) * P = P * v - P * f
    BY <1>1, <1>2
  <2>5. m = low + P * (v + h)
    BY <1>1, <1>2, <2>1, <2>2, <2>3, <2>4
  <2> QED  BY <2>5 DEF h
<1>6. Field(m, s, b) = v
  BY <1>5, FieldIs DEF P, Q
<1> HIDE DEF m
<1>7. ASSUME NEW s2 \in Nat, NEW b2 \in Nat, s2 + b2 <= s
      PROVE  Field(m, s2, b2) = Field(n, s2, b2)
  <2> DEFINE g == Field(n, s2, b2)
             R == s - (s2 + b2)
  <2>1. PICK l2 \in 0 .. Pow2[s2] - 1, h2 \in Int : n = l2 + Pow2[s2] * (g + Pow2[b2] * h2)
    BY FieldSplits
  <2>2. g \in 0 .. Pow2[b2] - 1
    BY FieldSplits
  <2>3. R \in Nat /\ s = (s2 + b2) + R
    BY <1>7
  <2>4. P = Pow2[s2] * (Pow2[b2] * Pow2[R])
    <3>1. P = Pow2[s2 + b2] * Pow2[R] /\ Pow2[s2 + b2] = Pow2[s2] * Pow2[b2]
      <4>1. s2 + b2 \in Nat
        OBVIOUS
      <4> HIDE DEF R
      <4>2. Pow2[(s2 + b2) + R] = Pow2[s2 + b2] * Pow2[R]
        BY <2>3, <4>1, Pow2Adds
      <4>3. P = Pow2[(s2 + b2) + R]
        BY <2>3 DEF P
      <4> QED  BY <4>2, <4>3, Pow2Adds
    <3>2. Pow2[s2] \in Int /\ Pow2[b2] \in Int /\ Pow2[R] \in Int
      BY <2>3, Pow2Positive
    <3> QED  BY <3>1, <3>2, Distributes
  <2>5. Pow2[s2] \in Nat \ {0} /\ Pow2[b2] \in Nat \ {0} /\ Pow2[R] \in Nat \ {0}
    BY <2>3, Pow2Positive
  <2> HIDE DEF g, R
  <2>6. m = l2 + Pow2[s2] * (g + Pow2[b2] * (h2 + Pow2[R] * (v - f)))
    <3> DEFINE c == v - f
               x == Pow2[s2]
               y == Pow2[b2]
               z == Pow2[R]
    <3>1. c \in Int /\ x \in Int /\ y \in Int /\ z \in Int
      BY <1>1, <1>2, <2>5
    <3>2. /\ n = l2 + x * (g + y * h2) /\ m = n + c * (x * (y * z))
          /\ l2 \in Int /\ g \in Int
      BY <1>5, <2>1, <2>2, <2>4 DEF m
    <3> HIDE DEF c, x, y, z
    <3>3. c * (x * (y * z)) = x * (y * (z * c))
      <4>1. c * (x * (y * z)) = (x * (y * z)) * c /\ (x * (y * z)) * c = x * ((y * z) * c)
            /\ (y * z) * c = y * (z * c)
        BY <3>1, Distributes
      <4> QED  BY <4>1
    <3>4. x * (g + y * (h2 + z * c)) = x * (g + y * h2) + x * (y * (z * c))
      <4>1. z * c \in Int /\ y * h2 \in Int /\ y * (z * c) \in Int
        BY <3>1
      <4>2. y * (h2 + z * c) = y * h2 + y * (z * c)
        BY <3>1, <4>1, Distributes
      <4>3. g + (y * h2 + y * (z * c)) = (g + y * h2) + y * (z * c)
        BY <3>2, <4>1
      <4>4. x * ((g + y * h2) + y * (z * c)) = x * (g + y * h2) + x * (y * (z * c))
        BY <3>1, <3>2, <4>1, Distributes
      <4> QED  BY <4>2, <4>3, <4>4
    <3>5. m = l2 + x * (g + y * (h2 + z * c))
      <4>1. x * (g + y * h2) \in Int /\ x * (y * (z * c)) \in Int
        BY <3>1, <3>2
      <4> QED  BY <3>2, <3>3, <3>4, <4>1
    <3> QED  BY <3>5 DEF c, x, y, z
  <2>7. h2 + Pow2[R] * (v - f) \in Int
    BY <1>1, <1>2, <2>5
  <2>8. Field(m, s2, b2) = g
    BY <2>2, <2>6, <2>7, FieldIs
  <2> QED  BY <2>8 DEF g
<1> DEFINE W == Pow2[s + b]
<1>8. /\ W \in Nat \ {0} /\ W = P * Q
      /\ n = (low + P * f) + W * high /\ m = (low + P * v) + W * high
      /\ low + P * f \in 0 .. W - 1 /\ low + P * v \in 0 .. W - 1
  <2>1. W \in Nat \ {0} /\ W = P * Q
    <3>1. W = P * Q
      BY Pow2Adds DEF P, Q
    <3>2. s + b \in Nat
      OBVIOUS
    <3> QED  BY <3>1, <3>2, Pow2Positive
  <2> HIDE DEF W
  <2>2. ASSUME NEW u \in 0 .. Q - 1
        PROVE  /\ low + P * (u + Q * high) = (low + P * u) + W * high
               /\ low + P * u \in 0 .. W - 1
    <3>1. P * (u + Q * high) = P * u + P * (Q * high) /\ (P * Q) * high = P * (Q * high)
      <4>1. Q * high \in Int
        BY <1>1
      <4> QED  BY <1>1, <4>1, Distributes
    <3>2. P * u \in Int /\ W * high \in Int
      BY <1>1, <2>1
    <3>3. P * u >= 0 /\ P * u <= P * Q - P
      <4>1. P * u >= 0 /\ P * (Q - 1 - u) >= 0
        BY <1>1
      <4>2. P * (Q - 1 - u) = P * (Q - 1) - P * u /\ P * (Q - 1) = P * Q - P * 1
        BY <1>1, Distributes
      <4>3. P * u \in Int /\ P * Q \in Int /\ P * (Q - 1) \in Int
        BY <1>1
      <4> QED  BY <1>1, <4>1, <4>2, <4>3
    <3> QED  BY <1>1, <2>1, <3>1, <3>2, <3>3
  <2>3. v \in 0 .. Q - 1
    BY DEF Q
  <2> QED  BY <1>2, <1>3, <1>5, <2>1, <2>2, <2>3
<1> HIDE DEF W
<1>9. ASSUME NEW s2 \in Nat, NEW b2 \in Nat, s + b <= s2
      PROVE  Field(m, s2, b2) = Field(n, s2, b2)
  <2> DEFINE R == Pow2[s2 - (s + b)]
  <2>1. R \in Nat \ {0} /\ Pow2[s2] = W * R
    <3> DEFINE k == s2 - (s + b)
    <3>1. k \in Nat /\ s + b \in Nat /\ s2 = (s + b) + k
      BY <1>9
    <3> HIDE DEF k
    <3>2. Pow2[(s + b) + k] = Pow2[s + b] * Pow2[k] /\ Pow2[k] \in Nat /\ Pow2[k] >= 1
      BY <3>1, Pow2Adds, Pow2Positive
    <3>3. R \in Nat \ {0} /\ R = Pow2[k]
      BY <3>2 DEF k
    <3> QED  BY <3>1, <3>2, <3>3 DEF W
  <2> HIDE DEF R
  <2>2. n \div (W * R) = high \div R /\ m \div (W * R) = high \div R
    BY <1>8, <2>1, HighPart
  <2> QED  BY <2>1, <2>2 DEF Field
<1>10. ASSUME NEW e \in Nat, s + b <= e, 0 <= n, n < Pow2[e]
       PROVE  0 <= m /\ m < Pow2[e]
  <2> DEFINE R == Pow2[e - (s + b)]
  <2>1. R \in Nat \ {0} /\ Pow2[e] = W * R
    <3> DEFINE k == e - (s + b)
    <3>1. k \in Nat /\ s + b \in Nat /\ e = (s + b) + k
      BY <1>10
    <3> HIDE DEF k
    <3>2. Pow2[(s + b) + k] = Pow2[s + b] * Pow2[k] /\ Pow2[k] \in Nat /\ Pow2[k] >= 1
      BY <3>1, Pow2Adds, Pow2Positive
    <3>3. R \in Nat \ {0} /\ R = Pow2[k]
      BY <3>2 DEF k
    <3> QED  BY <3>1, <3>2, <3>3 DEF W
  <2> HIDE DEF R
  <2>2. high >= 0
    <3>1. ASSUME high <= -1  PROVE  FALSE
      <4>1. W * (-1 - high) >= 0 /\ W * (-1 - high) = W * (-1) - W * high
        BY <1>8, <3>1, Distributes
      <4>2. W * high \in Int /\ W * (-1) = -W
        BY <1>8
      <4> QED  BY <1>8, <1>10, <4>1, <4>2
    <3> QED  BY <3>1
  <2>3. high <= R - 1
    <3>1. ASSUME high >= R  PROVE  FALSE
      <4>1. W * (high - R) >= 0 /\ W * (high - R) = W * high - W * R
        BY <1>8, <2>1, <3>1, Distributes
      <4>2. W * high \in Int /\ W * R \in Int
        BY <1>8, <2>1
      <4> QED  BY <1>8, <1>10, <2>1, <4>1, <4>2
    <3> QED  BY <2>1, <3>1
  <2>4. W * high >= 0 /\ W * high <= W * R - W
    <3>1. W * (R - 1 - high) >= 0 /\ W * high >= 0
      BY <1>8, <2>1, <2>2, <2>3
    <3>2. W * (R - 1 - high) = W * (R - 1) - W * high /\ W * (R - 1) = W * R - W * 1
      BY <1>8, <2>1, Distributes
    <3>3. W * high \in Int /\ W * R \in Int /\ W * (R - 1) \in Int
      BY <1>8, <2>1
    <3> QED  BY <1>8, <3>1, <3>2, <3>3
  <2>5. W * high \in Int /\ W * R \in Int
    BY <1>8, <2>1
  <2> QED  BY <1>8, <2>1, <2>4, <2>5
<1> QED  BY <1>4, <1>6, <1>7, <1>9, <1>10 DEF m, P, f

(* Packed states: every bin holds an integer, no bit is set outside the    *)
(* variables, and each variable's value is in its range.                   *)
Placing(t, pk) == VariablesOK(t) /\ PlacedIn(t, pk, Packed(t))
Buffers(pk) == [{pk[x].bin : x \in DOMAIN pk} -> Int]
Values(t, x) == IF x[1] = "num" THEN Int ELSE 0 .. t.range[x[2]] - 1
Canonical(t, pk, buf) ==
    \A x \in Packed(t) :
        /\ x[1] = "var"
        /\ \A y \in Beside(pk, Packed(t), x) : End(pk, y) <= End(pk, x)
        => 0 <= buf[pk[x].bin] /\ buf[pk[x].bin] < Pow2[End(pk, x)]
Stored(t, pk) ==
    {buf \in Buffers(pk) : /\ Canonical(t, pk, buf)
                           /\ \A x \in Packed(t) : Get(pk, buf, x) \in Values(t, x)}

(* Where a variable is packed: bits of a bin that no other variable of the *)
(* bin has.                                                                *)
LEMMA PlaceOK ==
  ASSUME NEW t, NEW pk, Placing(t, pk), NEW x \in Packed(t)
  PROVE  /\ pk[x].bin \in Nat /\ pk[x].shift \in Nat /\ pk[x].bits = Size(t, x)
         /\ pk[x].bits \in 1 .. BinBits /\ End(pk, x) \in Nat
         /\ DOMAIN pk = Packed(t)
         /\ x[1] \in {"var", "num"}
         /\ \A y \in Packed(t) : y # x /\ pk[y].bin = pk[x].bin =>
               /\ x[1] = "var" /\ y[1] = "var"
               /\ End(pk, x) <= pk[y].shift \/ End(pk, y) <= pk[x].shift
<1>1. VariablesOK(t) /\ PlacedIn(t, pk, Packed(t))
  BY DEF Placing
<1>2. /\ pk \in [Packed(t) -> [bin : Nat, shift : Nat, bits : Nat]]
      /\ pk[x].bits = Size(t, x)
  BY <1>1 DEF PlacedIn
<1>3. Size(t, x) \in 1 .. BinBits /\ x[1] \in {"var", "num"}
  BY <1>1, SizeOK
<1>4. pk[x].bin \in Nat /\ pk[x].shift \in Nat /\ DOMAIN pk = Packed(t)
  BY <1>2
<1>5. ASSUME NEW y \in Packed(t), y # x, pk[y].bin = pk[x].bin
      PROVE  /\ x[1] = "var" /\ y[1] = "var"
             /\ End(pk, x) <= pk[y].shift \/ End(pk, y) <= pk[x].shift
  <2>1. y \in Beside(pk, Packed(t), x) /\ x \in Beside(pk, Packed(t), y)
    BY <1>5 DEF Beside
  <2> QED  BY <1>1, <1>5, <2>1 DEF PlacedIn
<1>6. End(pk, x) \in Nat
  BY <1>2, <1>3, <1>4, PackerAssumption DEF End
<1> QED  BY <1>2, <1>3, <1>4, <1>5, <1>6

(* A write is read back, and no other variable changes.                    *)
LEMMA PutStored ==
  ASSUME NEW t, NEW pk, Placing(t, pk), NEW buf \in Stored(t, pk),
         NEW x \in Packed(t), NEW val \in Values(t, x)
  PROVE  /\ Put(pk, buf, x, val) \in Stored(t, pk)
         /\ Get(pk, Put(pk, buf, x, val), x) = val
         /\ \A y \in Packed(t) : y # x =>
               Get(pk, Put(pk, buf, x, val), y) = Get(pk, buf, y)
<1> DEFINE new == Put(pk, buf, x, val)
           c == pk[x].bin
           n == buf[c]
           s == pk[x].shift
           b == pk[x].bits
           m == n + (val - Field(n, s, b)) * Pow2[s]
<1>1. /\ c \in Nat /\ s \in Nat /\ b \in 1 .. BinBits /\ b = Size(t, x)
      /\ DOMAIN pk = Packed(t) /\ x[1] \in {"var", "num"}
  BY PlaceOK
<1>2. buf \in Buffers(pk) /\ Canonical(t, pk, buf)
      /\ \A y \in Packed(t) : Get(pk, buf, y) \in Values(t, y)
  BY DEF Stored
<1>3. n \in Int /\ DOMAIN buf = {pk[z].bin : z \in DOMAIN pk} /\ c \in DOMAIN buf
  BY <1>1, <1>2 DEF Buffers
<1>4. ASSUME NEW y \in Packed(t), pk[y].bin # c, new \in Buffers(pk),
             \A d \in DOMAIN buf \ {c} : new[d] = buf[d]
      PROVE  Get(pk, new, y) = Get(pk, buf, y) /\ new[pk[y].bin] = buf[pk[y].bin]
  <2>1. pk[y].bin \in DOMAIN buf \ {c}
    BY <1>1, <1>3, <1>4
  <2>2. new[pk[y].bin] = buf[pk[y].bin]
    BY <1>4, <2>1
  <2> HIDE DEF new
  <2> QED  BY <2>2 DEF Get
<1>5. CASE x[1] = "num"
  <2>1. new = [buf EXCEPT ![c] = val] /\ val \in Int
    BY <1>5 DEF Put, Values
  <2>2. new \in Buffers(pk) /\ new[c] = val /\ \A d \in DOMAIN buf \ {c} : new[d] = buf[d]
    BY <1>1, <1>2, <1>3, <2>1 DEF Buffers
  <2>3. \A y \in Packed(t) : y # x => pk[y].bin # c
    BY <1>5, PlaceOK
  <2>4. \A y \in Packed(t) : y # x =>
           Get(pk, new, y) = Get(pk, buf, y) /\ new[pk[y].bin] = buf[pk[y].bin]
    BY <1>4, <2>2, <2>3
  <2> HIDE DEF new
  <2>5. Get(pk, new, x) = val
    BY <1>5, <2>2 DEF Get
  <2>6. Canonical(t, pk, new)
    <3>1. SUFFICES ASSUME NEW y \in Packed(t), y[1] = "var",
                          \A z \in Beside(pk, Packed(t), y) : End(pk, z) <= End(pk, y)
                   PROVE  0 <= new[pk[y].bin] /\ new[pk[y].bin] < Pow2[End(pk, y)]
      BY DEF Canonical
    <3> QED  BY <1>2, <1>5, <2>4, <3>1 DEF Canonical
  <2>7. new \in Stored(t, pk)
    <3>1. \A y \in Packed(t) : Get(pk, new, y) \in Values(t, y)
      BY <1>2, <2>4, <2>5
    <3> QED  BY <2>2, <2>6, <3>1 DEF Stored
  <2> QED  BY <2>4, <2>5, <2>7 DEF new
<1>6. CASE x[1] = "var"
  <2>1. Get(pk, buf, x) = Field(n, s, b)
    BY <1>6 DEF Get, Field
  <2>2. new = [buf EXCEPT ![c] = m]
    BY <1>3, <1>6, <2>1 DEF Put
  <2>3. val \in 0 .. Pow2[b] - 1
    <3>1. t.range[x[2]] \in Nat /\ t.range[x[2]] <= Pow2[b]
      BY <1>1, <1>6, SizeOK DEF Placing
    <3>2. val \in 0 .. t.range[x[2]] - 1
      BY <1>6 DEF Values
    <3>3. Pow2[b] \in Nat
      BY <1>1, Pow2Positive
    <3> QED  BY <3>1, <3>2, <3>3
  <2>4. b \in Nat
    BY <1>1, PackerAssumption
  <2>5. /\ m \in Int /\ Field(m, s, b) = val
        /\ \A s2, b2 \in Nat : s2 + b2 <= s \/ s + b <= s2 =>
                                 Field(m, s2, b2) = Field(n, s2, b2)
        /\ \A e \in Nat : /\ s + b <= e /\ 0 <= n /\ n < Pow2[e]
                          => 0 <= m /\ m < Pow2[e]
    BY <1>1, <1>3, <2>3, <2>4, FieldPut
  <2> HIDE DEF m
  <2>6. new \in Buffers(pk) /\ new[c] = m /\ \A d \in DOMAIN buf \ {c} : new[d] = buf[d]
    BY <1>1, <1>2, <1>3, <2>2, <2>5 DEF Buffers
  <2>7. \A y \in Packed(t) : pk[y].bin # c =>
           Get(pk, new, y) = Get(pk, buf, y) /\ new[pk[y].bin] = buf[pk[y].bin]
    BY <1>4, <2>6
  <2> HIDE DEF new
  <2>8. Get(pk, new, x) = val
    BY <1>6, <2>5, <2>6 DEF Get, Field
  <2>9. ASSUME NEW y \in Packed(t), y # x
        PROVE  Get(pk, new, y) = Get(pk, buf, y)
    <3>1. CASE pk[y].bin # c
      BY <2>7, <3>1
    <3>2. CASE pk[y].bin = c
      <4>1. y[1] = "var" /\ (End(pk, x) <= pk[y].shift \/ End(pk, y) <= pk[x].shift)
        BY <2>9, <3>2, PlaceOK
      <4>2. pk[y].shift \in Nat /\ pk[y].bits \in Nat
        BY PlaceOK, PackerAssumption
      <4>3. Field(m, pk[y].shift, pk[y].bits) = Field(n, pk[y].shift, pk[y].bits)
        BY <2>5, <4>1, <4>2 DEF End
      <4> QED  BY <2>6, <3>2, <4>1, <4>3 DEF Get, Field
    <3> QED  BY <3>1, <3>2
  <2>10. Canonical(t, pk, new)
    <3>1. SUFFICES ASSUME NEW y \in Packed(t), y[1] = "var",
                          \A z \in Beside(pk, Packed(t), y) : End(pk, z) <= End(pk, y)
                   PROVE  0 <= new[pk[y].bin] /\ new[pk[y].bin] < Pow2[End(pk, y)]
      BY DEF Canonical
    <3>2. 0 <= buf[pk[y].bin] /\ buf[pk[y].bin] < Pow2[End(pk, y)]
      BY <1>2, <3>1 DEF Canonical
    <3>3. CASE pk[y].bin # c
      BY <2>7, <3>2, <3>3
    <3>4. CASE pk[y].bin = c
      <4>1. End(pk, x) <= End(pk, y) /\ End(pk, y) \in Nat
        BY <3>1, <3>4, PlaceOK DEF Beside
      <4> QED  BY <2>5, <2>6, <3>2, <3>4, <4>1 DEF End
    <3> QED  BY <3>3, <3>4
  <2>11. new \in Stored(t, pk)
    <3>1. \A y \in Packed(t) : Get(pk, new, y) \in Values(t, y)
      BY <1>2, <2>8, <2>9
    <3> QED  BY <2>6, <2>10, <3>1 DEF Stored
  <2> QED  BY <2>8, <2>9, <2>11 DEF new
<1> QED  BY <1>1, <1>5, <1>6

(* The buffer of a new state is a packed state.                            *)
LEMMA NoBitsStored ==
  ASSUME NEW t, NEW pk, Placing(t, pk)
  PROVE  NoBits(pk) \in Stored(t, pk)
<1>1. NoBits(pk) \in Buffers(pk)
  BY DEF NoBits, Buffers
<1>2. ASSUME NEW x \in Packed(t)
      PROVE  NoBits(pk)[pk[x].bin] = 0 /\ Get(pk, NoBits(pk), x) \in Values(t, x)
  <2>1. DOMAIN pk = Packed(t) /\ pk[x].shift \in Nat /\ pk[x].bits \in Nat
        /\ x[1] \in {"var", "num"}
    BY PlaceOK, PackerAssumption
  <2>2. NoBits(pk)[pk[x].bin] = 0
    BY <2>1 DEF NoBits
  <2>3. CASE x[1] = "num"
    BY <2>2, <2>3 DEF Get, Values
  <2>4. CASE x[1] = "var"
    <3>1. Pow2[pk[x].shift] \in Nat \ {0} /\ Pow2[pk[x].bits] \in Nat \ {0}
      BY <2>1, Pow2Positive
    <3>2. \A p, q \in Nat \ {0} : (0 \div p) % q = 0
      <4>1. ASSUME NEW p \in Nat \ {0}, NEW q \in Nat \ {0}
            PROVE  0 \div p = 0 /\ 0 % q = 0
        OBVIOUS
      <4> QED  BY <4>1
    <3>3. 2 <= t.range[x[2]] /\ t.range[x[2]] \in Nat
      BY <2>4, SizeOK DEF Placing, VariablesOK, Logic
    <3>4. Get(pk, NoBits(pk), x) = 0
      BY <2>2, <2>4, <3>1, <3>2 DEF Get
    <3> QED  BY <2>2, <2>4, <3>3, <3>4 DEF Values
  <2> QED  BY <2>1, <2>3, <2>4, <2>2
<1>3. Canonical(t, pk, NoBits(pk))
  BY <1>2, PlaceOK, Pow2Positive DEF Canonical
<1> QED  BY <1>1, <1>2, <1>3 DEF Stored

(* The lowest bits of an integer are a lower part and a field.             *)
LEMMA ModSplits ==
  ASSUME NEW n \in Int, NEW s \in Nat, NEW b \in Nat
  PROVE  n % Pow2[s + b] = (n % Pow2[s]) + Pow2[s] * Field(n, s, b)
<1> DEFINE P == Pow2[s]
           Q == Pow2[b]
           f == Field(n, s, b)
<1>1. P \in Nat \ {0} /\ Q \in Nat \ {0} /\ Pow2[s + b] = P * Q
  <2>1. P \in Nat \ {0} /\ Q \in Nat \ {0}
    BY Pow2Positive
  <2> QED  BY <2>1, Pow2Adds
<1>2. f \in 0 .. Q - 1
  BY FieldSplits
<1>3. PICK low \in 0 .. P - 1, high \in Int : n = low + P * (f + Q * high)
  BY FieldSplits
<1> HIDE DEF P, Q, f
<1>4. n % P = low
  <2> DEFINE q == f + Q * high
  <2>1. q \in Int /\ n = P * q + low
    BY <1>1, <1>2, <1>3
  <2> HIDE DEF q
  <2> QED  BY <1>1, <2>1, DivIs
<1>5. n = (P * Q) * high + (low + P * f)
  <2>1. P * (f + Q * high) = P * f + P * (Q * high) /\ (P * Q) * high = P * (Q * high)
    <3>1. Q * high \in Int
      BY <1>1
    <3> QED  BY <1>1, <1>2, <3>1, Distributes
  <2>2. P * f \in Int /\ (P * Q) * high \in Int
    BY <1>1, <1>2
  <2> QED  BY <1>3, <2>1, <2>2
<1>6. P * Q \in Nat \ {0} /\ low + P * f \in 0 .. P * Q - 1
  <2>1. P * f >= 0 /\ P * (Q - 1 - f) >= 0
    BY <1>1, <1>2
  <2>2. P * (Q - 1 - f) = P * (Q - 1) - P * f /\ P * (Q - 1) = P * Q - P * 1
    BY <1>1, <1>2, Distributes
  <2>3. P * f \in Int /\ P * Q \in Int /\ P * (Q - 1) \in Int /\ P * Q # 0
    BY <1>1, <1>2
  <2> QED  BY <1>1, <2>1, <2>2, <2>3
<1>7. n % (P * Q) = low + P * f
  <2> DEFINE d == P * Q
             r == low + P * f
  <2>1. d \in Nat \ {0} /\ r \in 0 .. d - 1 /\ n = d * high + r
    BY <1>5, <1>6
  <2> HIDE DEF d, r
  <2>2. n % d = r
    BY <2>1, DivIs
  <2> QED  BY <2>2 DEF d, r
<1> QED  BY <1>1, <1>4, <1>7 DEF P, f

(* A packed state is determined by the values of its variables.            *)
LEMMA StoredDetermined ==
  ASSUME NEW t, NEW pk, Placing(t, pk),
         NEW buf1 \in Stored(t, pk), NEW buf2 \in Stored(t, pk),
         \A x \in Packed(t) : Get(pk, buf1, x) = Get(pk, buf2, x)
  PROVE  buf1 = buf2
<1>1. /\ buf1 \in Buffers(pk) /\ Canonical(t, pk, buf1)
      /\ buf2 \in Buffers(pk) /\ Canonical(t, pk, buf2)
  BY DEF Stored
<1>2. ASSUME NEW x \in Packed(t)  PROVE  buf1[pk[x].bin] = buf2[pk[x].bin]
  <2> DEFINE c == pk[x].bin
             n == buf1[c]
             m == buf2[c]
             X == Beside(pk, Packed(t), x)
  <2>1. x[1] \in {"var", "num"} /\ DOMAIN pk = Packed(t) /\ c \in Nat
    BY PlaceOK
  <2>2. n \in Int /\ m \in Int
    BY <1>1, <2>1 DEF Buffers
  <2>3. CASE x[1] = "num"
    BY <2>3 DEF Get
  <2>4. CASE x[1] = "var"
    <3>1. ASSUME NEW z \in X
          PROVE  /\ z \in Packed(t) /\ z[1] = "var" /\ pk[z].bin = c
                 /\ pk[z].shift \in Nat /\ pk[z].bits \in Nat \ {0} /\ End(pk, z) \in Nat
                 /\ Field(n, pk[z].shift, pk[z].bits) = Field(m, pk[z].shift, pk[z].bits)
                 /\ pk[z].shift = 0 \/ \E y \in X : End(pk, y) = pk[z].shift
      <4>1. z \in Packed(t) /\ pk[z].bin = c
        BY DEF Beside
      <4>2. /\ z[1] = "var" /\ pk[z].shift \in Nat /\ pk[z].bits \in Nat \ {0}
            /\ End(pk, z) \in Nat
        BY <2>4, <4>1, PlaceOK, PackerAssumption
      <4>3. Get(pk, buf1, z) = Get(pk, buf2, z)
        BY <4>1
      <4>4. Field(n, pk[z].shift, pk[z].bits) = Field(m, pk[z].shift, pk[z].bits)
        BY <4>1, <4>2, <4>3 DEF Get, Field
      <4>5. Beside(pk, Packed(t), z) = X
        BY <4>1 DEF Beside
      <4>6. pk[z].shift = 0 \/ \E y \in Beside(pk, Packed(t), z) : End(pk, y) = pk[z].shift
        BY <4>1 DEF Placing, PlacedIn
      <4> QED  BY <4>1, <4>2, <4>4, <4>5, <4>6
    <3>2. PICK y \in X : \A z \in X : End(pk, z) <= End(pk, y)
      <4>1. \A u \in Packed(t) : \E y \in Beside(pk, Packed(t), u) :
               \A z \in Beside(pk, Packed(t), u) : End(pk, z) <= End(pk, y)
        BY DEF Placing, PlacedIn
      <4> QED  BY <4>1
    <3> DEFINE Low(z) == n % Pow2[End(pk, z)] = m % Pow2[End(pk, z)]
               bad == {z \in X : ~Low(z)}
               ends == {End(pk, z) : z \in bad}
    <3>3. ASSUME bad # {}  PROVE  FALSE
      <4>1. ends \subseteq Nat /\ ends # {}
        BY <3>1, <3>3
      <4>2. PICK e \in ends : \A k \in ends : e <= k
        <5> HIDE DEF ends
        <5> QED  BY <4>1, LeastNat
      <4>3. PICK z \in bad : e = End(pk, z)
        BY <4>2
      <4> DEFINE s == pk[z].shift
                 b == pk[z].bits
      <4>4. s \in Nat /\ b \in Nat \ {0} /\ e = s + b
        BY <3>1, <4>3 DEF End
      <4>5. n % Pow2[s] = m % Pow2[s]
        <5>1. CASE s = 0
          <6>1. \A k \in Int : k % 1 = 0
            OBVIOUS
          <6>2. Pow2[0] = 1
            BY Pow2Def
          <6> HIDE DEF n, m, s
          <6> QED  BY <2>2, <5>1, <6>1, <6>2
        <5>2. CASE s # 0
          <6>1. PICK w \in X : End(pk, w) = s
            BY <3>1, <4>3, <5>2
          <6>2. w \notin bad
            <7>1. ASSUME w \in bad  PROVE  FALSE
              <8>1. s \in ends
                BY <6>1, <7>1
              <8> QED  BY <4>2, <4>4, <8>1
            <7> QED  BY <7>1
          <6>3. Low(w)
            BY <6>1, <6>2
          <6> QED  BY <6>1, <6>3
        <5> QED  BY <5>1, <5>2
      <4>6. Field(n, s, b) = Field(m, s, b)
        BY <3>1, <4>3
      <4>7. n % Pow2[s + b] = m % Pow2[s + b]
        <5> HIDE DEF n, m, s, b
        <5> QED  BY <2>2, <4>4, <4>5, <4>6, ModSplits
      <4>8. Low(z)
        BY <4>3, <4>4, <4>7
      <4> QED  BY <4>3, <4>8
    <3>4. Low(y)
      BY <3>3
    <3>5. y \in Packed(t) /\ y[1] = "var" /\ pk[y].bin = c /\ End(pk, y) \in Nat
          /\ \A z \in Beside(pk, Packed(t), y) : End(pk, z) <= End(pk, y)
      <4>1. Beside(pk, Packed(t), y) = X
        BY DEF Beside
      <4> QED  BY <3>1, <3>2, <4>1
    <3>6. 0 <= n /\ n < Pow2[End(pk, y)] /\ 0 <= m /\ m < Pow2[End(pk, y)]
      BY <1>1, <3>5 DEF Canonical
    <3>7. \A k \in Int, d \in Nat : 0 <= k /\ k < d => k % d = k
      OBVIOUS
    <3>8. Pow2[End(pk, y)] \in Nat
      BY <3>5, Pow2Positive
    <3>9. n % Pow2[End(pk, y)] = n /\ m % Pow2[End(pk, y)] = m
      BY <2>2, <3>6, <3>7, <3>8
    <3> QED  BY <3>4, <3>9
  <2> QED  BY <2>1, <2>3, <2>4
<1>3. Buffers(pk) = [{pk[x].bin : x \in Packed(t)} -> Int]
  <2>1. PlacedIn(t, pk, Packed(t))
    BY DEF Placing
  <2> QED  BY <2>1 DEF Buffers, PlacedIn
<1> QED  BY <1>1, <1>2, <1>3

(* A list of writes: each variable has the value written last.             *)
Legal(t, w) ==
    /\ w.when \in BOOLEAN
    /\ w.when => w.place \in Packed(t) /\ w.val \in Values(t, w.place)
Written(t, pk, buf, writes, new) ==
    /\ new \in Stored(t, pk)
    /\ \A x \in Packed(t) :
         /\ (\A k \in 1 .. Len(writes) : writes[k].when => writes[k].place # x) =>
               Get(pk, new, x) = Get(pk, buf, x)
         /\ \A k \in 1 .. Len(writes) :
               /\ writes[k].when /\ writes[k].place = x
               /\ \A j \in k + 1 .. Len(writes) : writes[j].when => writes[j].place # x
               => Get(pk, new, x) = writes[k].val

(* Several writes leave a packed state in which every variable has the     *)
(* value written last, or the one it had.                                  *)
LEMMA PutAllStored ==
  ASSUME NEW t, NEW pk, Placing(t, pk), NEW buf \in Stored(t, pk),
         NEW writes, Len(writes) \in Nat, \A k \in 1 .. Len(writes) : Legal(t, writes[k])
  PROVE  Written(t, pk, buf, writes, PutAll(pk, buf, writes))
<1> DEFINE n == Len(writes)
<1>1. PICK F : /\ F[0] = buf
               /\ \A k \in 1 .. n :
                     F[k] = IF writes[k].when
                            THEN Put(pk, F[k - 1], writes[k].place, writes[k].val) ELSE F[k - 1]
               /\ PutAll(pk, buf, writes) = F[n]
  BY PutsRun
<1> n \in Nat
  OBVIOUS
<1> HIDE DEF n
<1> DEFINE Upto(m, x) ==
             /\ (\A k \in 1 .. m : writes[k].when => writes[k].place # x) =>
                    Get(pk, F[m], x) = Get(pk, buf, x)
             /\ \A k \in 1 .. m :
                    /\ writes[k].when /\ writes[k].place = x
                    /\ \A j \in k + 1 .. m : writes[j].when => writes[j].place # x
                    => Get(pk, F[m], x) = writes[k].val
           Good == {m \in 0 .. n : F[m] \in Stored(t, pk) /\ \A x \in Packed(t) : Upto(m, x)}
<1>2. 0 \in Good
  BY <1>1
<1>3. ASSUME NEW m \in 0 .. n - 1, m \in Good  PROVE  m + 1 \in Good
  <2> DEFINE w == writes[m + 1]
  <2>1. Legal(t, w) /\ m + 1 \in 1 .. n
    BY DEF n
  <2>2. F[m + 1] = IF w.when THEN Put(pk, F[m], w.place, w.val) ELSE F[m]
    <3>1. F[m + 1] = IF writes[m + 1].when
                     THEN Put(pk, F[(m + 1) - 1], writes[m + 1].place, writes[m + 1].val)
                     ELSE F[(m + 1) - 1]
      BY <1>1, <2>1
    <3>2. (m + 1) - 1 = m
      OBVIOUS
    <3> QED  BY <3>1, <3>2
  <2>3. F[m] \in Stored(t, pk) /\ \A x \in Packed(t) : Upto(m, x)
    BY <1>3
  <2>4. CASE ~w.when
    <3>1. F[m + 1] = F[m]
      BY <2>2, <2>4
    <3>2. ASSUME NEW x \in Packed(t)  PROVE  Upto(m + 1, x)
      <4>1. Upto(m, x)
        BY <2>3
      <4> QED  BY <2>4, <3>1, <4>1
    <3> QED  BY <2>3, <3>1, <3>2
  <2>5. CASE w.when
    <3>1. /\ F[m + 1] \in Stored(t, pk) /\ Get(pk, F[m + 1], w.place) = w.val
          /\ w.place \in Packed(t)
          /\ \A y \in Packed(t) : y # w.place => Get(pk, F[m + 1], y) = Get(pk, F[m], y)
      <4>1. w.place \in Packed(t) /\ w.val \in Values(t, w.place)
        BY <2>1, <2>5 DEF Legal
      <4>2. F[m + 1] = Put(pk, F[m], w.place, w.val)
        BY <2>2, <2>5
      <4> HIDE DEF w
      <4> QED  BY <2>3, <4>1, <4>2, PutStored
    <3>2. ASSUME NEW x \in Packed(t)  PROVE  Upto(m + 1, x)
      <4>1. Upto(m, x)
        BY <2>3
      <4>2. CASE x = w.place
        BY <2>5, <3>1, <4>2
      <4>3. CASE x # w.place
        BY <2>5, <3>1, <4>1, <4>3
      <4> QED  BY <4>2, <4>3
    <3> QED  BY <3>1, <3>2
  <2> QED  BY <2>1, <2>4, <2>5 DEF Legal
<1> HIDE DEF Good
<1>4. n \in Good
  <2>1. 0 .. n \subseteq Good
    BY <1>2, <1>3, Upward
  <2> QED  BY <2>1
<1> QED  BY <1>1, <1>4 DEF Good, n, Written

(* Values of all numeric variables, and the axioms and effects on them.    *)
Nums(t) == [Numeric(t) -> Int]

(* The arithmetic axioms change derived numbers only.                      *)
LEMMA SumsTyped ==
  ASSUME NEW t, VariablesOK(t), SumsOK(t), IsSeq(t.sums), NEW nums \in Nums(t)
  PROVE  /\ EvaluateArithmetic(t, nums) \in Nums(t)
         /\ \A v \in Numeric(t) : t.ntype[v] # "derived" =>
               EvaluateArithmetic(t, nums)[v] = nums[v]
<1> DEFINE n == Len(t.sums)
<1>1. n \in Nat
  BY DEF IsSeq
<1>2. PICK F : /\ F[0] = nums
               /\ \A k \in 1 .. n : F[k] = Sum(t.sums[k], F[k - 1])
               /\ EvaluateArithmetic(t, nums) = F[n]
  BY <1>1, SumsRun
<1> DEFINE Good == {k \in 0 .. n : /\ F[k] \in Nums(t)
                                   /\ \A v \in Numeric(t) : t.ntype[v] # "derived" =>
                                         F[k][v] = nums[v]}
<1>3. 0 \in Good
  BY <1>1, <1>2
<1>4. ASSUME NEW k \in 0 .. n - 1, k \in Good  PROVE  k + 1 \in Good
  <2> DEFINE ax == t.sums[k + 1]
  <2>1. k + 1 \in 1 .. n /\ (k + 1) - 1 = k
    BY <1>1
  <2>2. F[k + 1] = Sum(ax, F[k])
    BY <1>2, <2>1
  <2>3. /\ ax.op \in {"sum", "diff", "mult"} /\ ax.var \in OfType(t, "derived")
        /\ ax.lhs \in Numeric(t) /\ ax.rhs \in Numeric(t)
    BY <2>1 DEF SumsOK
  <2> HIDE DEF ax
  <2>4. F[k] \in Nums(t)
    BY <1>4
  <2>5. Calculate(ax.op, F[k][ax.lhs], F[k][ax.rhs]) \in Int
    BY <2>3, <2>4 DEF Calculate, Nums
  <2>6. ax.var \in Numeric(t) /\ t.ntype[ax.var] = "derived"
    BY <2>3 DEF OfType
  <2>7. F[k + 1] \in Nums(t)
    BY <2>2, <2>4, <2>5, <2>6 DEF Sum, Nums
  <2>8. ASSUME NEW v \in Numeric(t), t.ntype[v] # "derived"
        PROVE  F[k + 1][v] = nums[v]
    <3>1. F[k][v] = nums[v]
      BY <1>4, <2>8
    <3> QED  BY <2>2, <2>4, <2>6, <2>8, <3>1 DEF Sum, Nums
  <2> QED  BY <2>1, <2>7, <2>8
<1> HIDE DEF Good
<1>5. n \in Good
  <2>1. 0 .. n \subseteq Good
    BY <1>1, <1>3, <1>4, Upward
  <2> QED  BY <1>1, <2>1
<1> QED  BY <1>2, <1>5 DEF Good

(* What suffices to know: two evaluations that start with the same numbers *)
(* there end with the same numbers there.                                  *)
LEMMA SumsAgree ==
  ASSUME NEW t, VariablesOK(t), SumsOK(t), IsSeq(t.sums),
         NEW N, Suffices(t, N), NEW nums1 \in Nums(t), NEW nums2 \in Nums(t),
         \A v \in N : t.ntype[v] # "derived" => nums1[v] = nums2[v]
  PROVE  \A v \in N : EvaluateArithmetic(t, nums1)[v] = EvaluateArithmetic(t, nums2)[v]
<1> DEFINE n == Len(t.sums)
           Known(v, k) == t.ntype[v] = "derived" => \E j \in 1 .. k : t.sums[j].var = v
<1>1. n \in Nat
  BY DEF IsSeq
<1>2. PICK F : /\ F[0] = nums1
               /\ \A k \in 1 .. n : F[k] = Sum(t.sums[k], F[k - 1])
               /\ EvaluateArithmetic(t, nums1) = F[n]
  BY <1>1, SumsRun
<1>3. PICK G : /\ G[0] = nums2
               /\ \A k \in 1 .. n : G[k] = Sum(t.sums[k], G[k - 1])
               /\ EvaluateArithmetic(t, nums2) = G[n]
  BY <1>1, SumsRun
<1> DEFINE Good == {k \in 0 .. n : /\ F[k] \in Nums(t) /\ G[k] \in Nums(t)
                                   /\ \A v \in N : Known(v, k) => F[k][v] = G[k][v]}
<1>a. N \subseteq Numeric(t)
  BY DEF Suffices
<1>4. 0 \in Good
  BY <1>1, <1>2, <1>3
<1>5. ASSUME NEW k \in 0 .. n - 1, k \in Good  PROVE  k + 1 \in Good
  <2> DEFINE ax == t.sums[k + 1]
  <2>1. k + 1 \in 1 .. n /\ (k + 1) - 1 = k /\ k \in Nat
    BY <1>1
  <2>2. F[k + 1] = Sum(ax, F[k]) /\ G[k + 1] = Sum(ax, G[k])
    BY <1>2, <1>3, <2>1
  <2>3. /\ ax.op \in {"sum", "diff", "mult"} /\ ax.var \in OfType(t, "derived")
        /\ ax.lhs \in Numeric(t) /\ ax.rhs \in Numeric(t)
        /\ \A u \in {ax.lhs, ax.rhs} : Known(u, k)
    BY <2>1 DEF SumsOK
  <2>4. ax.var \in N => ax.lhs \in N /\ ax.rhs \in N
    BY <2>1 DEF Suffices
  <2>5. \A v \in N : Known(v, k + 1) <=> Known(v, k) \/ v = ax.var
    <3>1. \A j \in 1 .. k + 1 : j \in 1 .. k \/ j = k + 1
      BY <2>1
    <3>2. 1 .. k \subseteq 1 .. k + 1 /\ k + 1 \in 1 .. k + 1
      BY <2>1
    <3>3. t.ntype[ax.var] = "derived"
      BY <2>3 DEF OfType
    <3> QED  BY <3>1, <3>2, <3>3
  <2>6. F[k] \in Nums(t) /\ G[k] \in Nums(t) /\ \A v \in N : Known(v, k) => F[k][v] = G[k][v]
    BY <1>5
  <2> HIDE DEF ax, Known
  <2>7. /\ Calculate(ax.op, F[k][ax.lhs], F[k][ax.rhs]) \in Int
        /\ Calculate(ax.op, G[k][ax.lhs], G[k][ax.rhs]) \in Int
    <3>1. \A x, y \in Int : Calculate(ax.op, x, y) \in Int
      BY <2>3 DEF Calculate
    <3> QED  BY <2>3, <2>6, <3>1 DEF Nums
  <2>8. ax.var \in Numeric(t)
    BY <2>3 DEF OfType
  <2>9. F[k + 1] \in Nums(t) /\ G[k + 1] \in Nums(t)
    BY <2>2, <2>6, <2>7, <2>8 DEF Sum, Nums
  <2>10. ASSUME NEW v \in N, Known(v, k + 1)  PROVE  F[k + 1][v] = G[k + 1][v]
    <3>1. CASE v = ax.var
      <4>1. F[k][ax.lhs] = G[k][ax.lhs] /\ F[k][ax.rhs] = G[k][ax.rhs]
        BY <2>3, <2>4, <2>6, <3>1
      <4> QED  BY <2>2, <2>6, <2>8, <3>1, <4>1 DEF Sum, Nums
    <3>2. CASE v # ax.var
      <4>1. F[k][v] = G[k][v]
        BY <2>5, <2>6, <2>10, <3>2
      <4> QED  BY <1>a, <2>2, <2>6, <3>2, <4>1 DEF Sum, Nums
    <3> QED  BY <3>1, <3>2
  <2> QED  BY <2>1, <2>9, <2>10
<1>6. n \in Good
  <2> HIDE DEF Good
  <2>1. 0 .. n \subseteq Good
    BY <1>1, <1>4, <1>5, Upward
  <2> QED  BY <1>1, <2>1
<1>7. \A v \in N : Known(v, n)
  BY DEF Suffices
<1> QED  BY <1>2, <1>3, <1>6, <1>7

(* An effect on a number makes an integer.                                 *)
LEMMA AssignTyped ==
  ASSUME NEW fop \in {"assign", "increase", "decrease", "scale_up"},
         NEW x \in Int, NEW y \in Int
  PROVE  AssignEffect(fop, x, y) \in Int
BY DEF AssignEffect

(* The numeric effects that the code applies one after the other, reading  *)
(* what does not change from the new numbers, are the effects as meant.    *)
LEMMA AssignMeans ==
  ASSUME NEW t, VariablesOK(t), NEW op, OperatorOK(t, op), NEW nums \in Nums(t)
  PROVE  /\ AssignNums(t, op, nums) \in Nums(t)
         /\ \A u \in Numeric(t) : t.ntype[u] \in {"constant", "derived"} =>
               AssignNums(t, op, nums)[u] = nums[u]
         /\ \A N, known :
               /\ Suffices(t, N) /\ known \in Nums(t)
               /\ \A u \in N : known[u] = nums[u]
               /\ \A k \in 1 .. Len(op.nums) : op.nums[k].var \in N => op.nums[k].by \in N
               => \A v \in OfType(t, "regular") :
                     AssignNums(t, op, nums)[v] = MeantNumber(op, v, nums[v], known)
<1> DEFINE n == Len(op.nums)
<1>1. n \in Nat
  BY DEF OperatorOK, IsSeq
<1>0. PICK F : AssignSteps(t, op, nums, F) /\ AssignNums(t, op, nums) = F[n]
  BY <1>1, AssignRun
<1>2. /\ F[0] = nums
      /\ \A k \in 1 .. n : F[k] = AssignNum(t, op.nums[k], nums, F[k - 1])
      /\ AssignNums(t, op, nums) = F[n]
  BY <1>0 DEF AssignSteps
<1> DEFINE Kept(k) == /\ F[k] \in Nums(t)
                      /\ \A u \in Numeric(t) : t.ntype[u] \in {"constant", "derived"} =>
                            F[k][u] = nums[u]
           Good == {k \in 0 .. n : Kept(k)}
<1>3. 0 \in Good
  BY <1>1, <1>2
<1>4. ASSUME NEW k \in 0 .. n - 1
      PROVE  /\ k + 1 \in 1 .. n
             /\ op.nums[k + 1].fop \in {"assign", "increase", "decrease", "scale_up"}
             /\ op.nums[k + 1].var \in Numeric(t) /\ op.nums[k + 1].by \in Numeric(t)
             /\ t.ntype[op.nums[k + 1].var] \in {"regular", "instrumentation"}
             /\ F[k + 1] = [F[k] EXCEPT ![op.nums[k + 1].var] =
                              AssignEffect(op.nums[k + 1].fop, @,
                                IF t.ntype[op.nums[k + 1].by] = "regular"
                                THEN nums[op.nums[k + 1].by]
                                ELSE F[k][op.nums[k + 1].by])]
  <2>1. k + 1 \in 1 .. n /\ (k + 1) - 1 = k
    BY <1>1
  <2>2. F[k + 1] = AssignNum(t, op.nums[k + 1], nums, F[k])
    BY <1>2, <2>1
  <2>3. /\ op.nums[k + 1].fop \in {"assign", "increase", "decrease", "scale_up"}
        /\ op.nums[k + 1].var \in OfType(t, "regular") \cup OfType(t, "instrumentation")
        /\ op.nums[k + 1].by \in Numeric(t)
    BY <2>1 DEF OperatorOK
  <2> QED  BY <2>1, <2>2, <2>3 DEF AssignNum, OfType
<1>5. ASSUME NEW k \in 0 .. n - 1, k \in Good  PROVE  k + 1 \in Good
  <2> DEFINE e == op.nums[k + 1]
             by == IF t.ntype[e.by] = "regular" THEN nums[e.by] ELSE F[k][e.by]
  <2>1. Kept(k)
    BY <1>5
  <2>2. /\ e.fop \in {"assign", "increase", "decrease", "scale_up"}
        /\ e.var \in Numeric(t) /\ e.by \in Numeric(t)
        /\ t.ntype[e.var] \in {"regular", "instrumentation"} /\ k + 1 \in 1 .. n
        /\ F[k + 1] = [F[k] EXCEPT ![e.var] = AssignEffect(e.fop, @, by)]
    BY <1>4
  <2> HIDE DEF e
  <2>3. by \in Int /\ F[k][e.var] \in Int
    BY <2>1, <2>2 DEF Nums
  <2> HIDE DEF by
  <2>4. AssignEffect(e.fop, F[k][e.var], by) \in Int
    BY <2>2, <2>3, AssignTyped
  <2>5. Kept(k + 1)
    BY <2>1, <2>2, <2>4 DEF Nums
  <2>6. k + 1 \in 0 .. n
    BY <1>1
  <2> QED  BY <2>5, <2>6
<1>6. 0 .. n \subseteq Good
  <2> HIDE DEF Good
  <2> QED  BY <1>1, <1>3, <1>5, Upward
<1>7. \A k \in 0 .. n : Kept(k)
  BY <1>6
<1>8. Kept(n)
  BY <1>1, <1>7
<1>9. ASSUME NEW N, NEW known, Suffices(t, N), known \in Nums(t),
             \A u \in N : known[u] = nums[u],
             \A k \in 1 .. n : op.nums[k].var \in N => op.nums[k].by \in N,
             NEW v \in OfType(t, "regular")
      PROVE  AssignNums(t, op, nums)[v] = MeantNumber(op, v, nums[v], known)
  <2>1. PICK H : /\ H[0] = nums[v]
                 /\ \A k \in 1 .. n : H[k] = IF op.nums[k].var = v
                       THEN AssignEffect(op.nums[k].fop, H[k - 1], known[op.nums[k].by])
                       ELSE H[k - 1]
                 /\ MeantNumber(op, v, nums[v], known) = H[n]
    BY <1>1, NumberRun
  <2> DEFINE Same == {k \in 0 .. n : F[k][v] = H[k]}
  <2>2. 0 \in Same
    BY <1>1, <1>2, <2>1
  <2>3. v \in N /\ v \in Numeric(t)
    BY <1>9 DEF Suffices, OfType
  <2>4. ASSUME NEW k \in 0 .. n - 1, k \in Same  PROVE  k + 1 \in Same
    <3> DEFINE e == op.nums[k + 1]
               by == IF t.ntype[e.by] = "regular" THEN nums[e.by] ELSE F[k][e.by]
    <3>1. /\ e.var \in Numeric(t) /\ e.by \in Numeric(t) /\ k + 1 \in 1 .. n
          /\ F[k + 1] = [F[k] EXCEPT ![e.var] = AssignEffect(e.fop, @, by)]
      BY <1>4
    <3>2. (k + 1) - 1 = k /\ F[k][v] = H[k] /\ Kept(k)
      BY <1>1, <1>7, <2>4
    <3>3. H[k + 1] = IF e.var = v THEN AssignEffect(e.fop, H[k], known[e.by]) ELSE H[k]
      BY <2>1, <3>1, <3>2
    <3>4. e.var = v => e.by \in N
      BY <1>9, <2>3, <3>1
    <3>5. ASSUME e.var = v  PROVE  by = known[e.by]
      <4>1. e.by \in N /\ t.ntype[e.by] # "instrumentation"
        BY <1>9, <3>4, <3>5 DEF Suffices, OfType
      <4>2. t.ntype[e.by] \in {"regular", "constant", "derived"}
        BY <3>1, <4>1 DEF VariablesOK, Numeric
      <4> QED  BY <1>9, <3>1, <3>2, <4>1, <4>2
    <3> HIDE DEF e, by, Kept
    <3>6. F[k] \in Nums(t)
      BY <3>2 DEF Kept
    <3>7. F[k + 1][v] = IF e.var = v THEN AssignEffect(e.fop, F[k][v], by) ELSE F[k][v]
      BY <2>3, <3>1, <3>6 DEF Nums
    <3>8. F[k + 1][v] = H[k + 1]
      BY <3>2, <3>3, <3>5, <3>7
    <3> QED  BY <1>1, <3>8
  <2>5. n \in Same
    <3> HIDE DEF Same
    <3>1. 0 .. n \subseteq Same
      BY <1>1, <2>2, <2>4, Upward
    <3> QED  BY <1>1, <3>1
  <2> QED  BY <1>2, <2>1, <2>5
<1> HIDE DEF n
<1>10. \A N, known :
         /\ Suffices(t, N) /\ known \in Nums(t)
         /\ \A u \in N : known[u] = nums[u]
         /\ \A k \in 1 .. n : op.nums[k].var \in N => op.nums[k].by \in N
         => \A v \in OfType(t, "regular") :
               AssignNums(t, op, nums)[v] = MeantNumber(op, v, nums[v], known)
  BY <1>9
<1> QED  BY <1>2, <1>8, <1>10 DEF n

(* The numbers of a packed state are those of what it stands for.          *)
SameNumbers(t, pk, buf, s) ==
    /\ s.nums \in [OfType(t, "regular") -> Int]
    /\ \A v \in OfType(t, "regular") : Get(pk, buf, <<"num", v>>) = s.nums[v]

(* The numbers of a state are integers, and any evaluation that starts     *)
(* with its regular numbers has the same ones where it matters.            *)
LEMMA NumbersTyped ==
  ASSUME NEW t, WellFormed(t), NEW s, s.nums \in [OfType(t, "regular") -> Int]
  PROVE  /\ NumbersIn(t, s) \in Nums(t)
         /\ \A N \in SUBSET Numeric(t) : \A nums \in Nums(t) :
              /\ Suffices(t, N)
              /\ \A v \in Numeric(t) :
                    /\ t.ntype[v] = "regular" => nums[v] = s.nums[v]
                    /\ t.ntype[v] = "constant" => nums[v] = t.ninit[v]
              => \A v \in N : EvaluateArithmetic(t, nums)[v] = NumbersIn(t, s)[v]
<1> DEFINE from == [v \in Numeric(t) |-> IF t.ntype[v] = "regular" THEN s.nums[v]
                                         ELSE IF t.ntype[v] = "derived" THEN 0
                                         ELSE t.ninit[v]]
<1>1. VariablesOK(t) /\ SumsOK(t) /\ IsSeq(t.sums)
  BY DEF WellFormed
<1>2. from \in Nums(t)
  BY <1>1 DEF Nums, VariablesOK, OfType
<1>3. NumbersIn(t, s) = EvaluateArithmetic(t, from)
  BY DEF NumbersIn
<1>4. NumbersIn(t, s) \in Nums(t)
  BY <1>1, <1>2, <1>3, SumsTyped
<1>5. ASSUME NEW N \in SUBSET Numeric(t), NEW nums \in Nums(t), Suffices(t, N),
             \A v \in Numeric(t) : /\ t.ntype[v] = "regular" => nums[v] = s.nums[v]
                                   /\ t.ntype[v] = "constant" => nums[v] = t.ninit[v]
      PROVE  \A v \in N : EvaluateArithmetic(t, nums)[v] = NumbersIn(t, s)[v]
  <2>1. ASSUME NEW v \in N, t.ntype[v] # "derived"  PROVE  nums[v] = from[v]
    <3>1. v \in Numeric(t) /\ t.ntype[v] # "instrumentation"
      BY <1>5 DEF Suffices, OfType
    <3>2. t.ntype[v] \in {"regular", "constant"}
      BY <1>1, <2>1, <3>1 DEF VariablesOK, Numeric
    <3> QED  BY <1>5, <3>1, <3>2
  <2> HIDE DEF from
  <2> QED  BY <1>1, <1>2, <1>3, <1>5, <2>1, SumsAgree
<1> QED  BY <1>4, <1>5

(* get_numeric_vars reads from a packed state the numbers of what it       *)
(* stands for.                                                             *)
LEMMA StateNumbers ==
  ASSUME NEW t, WellFormed(t), NEW pk, Placing(t, pk),
         NEW buf \in Stored(t, pk),
         NEW inst \in [OfType(t, "instrumentation") -> Int],
         NEW s, SameNumbers(t, pk, buf, s)
  PROVE  LET G == GetNumericVars(t, pk, buf, inst)
         IN  /\ G \in Nums(t)
             /\ \A v \in Numeric(t) : /\ t.ntype[v] = "regular" => G[v] = s.nums[v]
                                      /\ t.ntype[v] = "constant" => G[v] = t.ninit[v]
             /\ \A N \in SUBSET Numeric(t) : Suffices(t, N) =>
                   \A v \in N : G[v] = NumbersIn(t, s)[v]
<1> DEFINE from == [v \in Numeric(t) |->
                      CASE t.ntype[v] = "regular"         -> buf[pk[<<"num", v>>].bin]
                        [] t.ntype[v] = "constant"        -> t.ninit[v]
                        [] t.ntype[v] = "instrumentation" -> inst[v]
                        [] t.ntype[v] = "derived"         -> 0]
           G == GetNumericVars(t, pk, buf, inst)
<1>1. VariablesOK(t) /\ SumsOK(t) /\ IsSeq(t.sums)
  BY DEF WellFormed
<1>2. G = EvaluateArithmetic(t, from)
  BY DEF GetNumericVars
<1>3. ASSUME NEW v \in Numeric(t)
      PROVE  /\ from[v] \in Int
             /\ t.ntype[v] = "regular" => from[v] = s.nums[v]
             /\ t.ntype[v] = "constant" => from[v] = t.ninit[v]
  <2>1. t.ntype[v] \in {"regular", "constant", "derived", "instrumentation"}
        /\ t.ninit[v] \in Int
    BY <1>1 DEF VariablesOK, Numeric
  <2>2. CASE t.ntype[v] = "regular"
    <3>1. v \in OfType(t, "regular")
      BY <2>2 DEF OfType
    <3>2. Get(pk, buf, <<"num", v>>) = s.nums[v] /\ s.nums[v] \in Int
      BY <3>1 DEF SameNumbers
    <3>3. from[v] = buf[pk[<<"num", v>>].bin]
      BY <2>2
    <3>4. Get(pk, buf, <<"num", v>>) = buf[pk[<<"num", v>>].bin]
      BY DEF Get
    <3> QED  BY <2>2, <3>2, <3>3, <3>4
  <2>3. CASE t.ntype[v] = "constant"
    BY <2>1, <2>3
  <2>4. CASE t.ntype[v] = "instrumentation"
    <3>1. inst[v] \in Int
      BY <2>4 DEF OfType
    <3> QED  BY <2>4, <3>1
  <2>5. CASE t.ntype[v] = "derived"
    BY <2>5
  <2> QED  BY <2>1, <2>2, <2>3, <2>4, <2>5
<1>4. from \in Nums(t)
  BY <1>3 DEF Nums
<1> HIDE DEF from
<1>5. /\ G \in Nums(t)
      /\ \A v \in Numeric(t) : t.ntype[v] # "derived" => G[v] = from[v]
  BY <1>1, <1>2, <1>4, SumsTyped
<1>6. s.nums \in [OfType(t, "regular") -> Int]
  BY DEF SameNumbers
<1>7. ASSUME NEW N \in SUBSET Numeric(t), Suffices(t, N)
      PROVE  \A v \in N : G[v] = NumbersIn(t, s)[v]
  BY <1>2, <1>3, <1>4, <1>6, <1>7, NumbersTyped
<1>8. ASSUME NEW v \in Numeric(t)
      PROVE  /\ t.ntype[v] = "regular" => G[v] = s.nums[v]
             /\ t.ntype[v] = "constant" => G[v] = t.ninit[v]
  BY <1>3, <1>5
<1> QED  BY <1>5, <1>7, <1>8

(* The numeric effects of an operator, applied to them, give the regular   *)
(* numbers that are meant.                                                 *)
LEMMA EffectNumbers ==
  ASSUME NEW t, WellFormed(t), NEW pk, Placing(t, pk),
         NEW buf \in Stored(t, pk),
         NEW inst \in [OfType(t, "instrumentation") -> Int],
         NEW s, SameNumbers(t, pk, buf, s), NEW i \in 1 .. Len(t.ops)
  PROVE  LET A == AssignNums(t, t.ops[i], GetNumericVars(t, pk, buf, inst))
         IN  /\ A \in Nums(t)
             /\ \A v \in Numeric(t) :
                   /\ t.ntype[v] = "regular" => A[v] = Meant(t, s, t.ops[i]).nums[v]
                   /\ t.ntype[v] = "constant" => A[v] = t.ninit[v]
             /\ Meant(t, s, t.ops[i]).nums \in [OfType(t, "regular") -> Int]
<1> DEFINE op == t.ops[i]
           G == GetNumericVars(t, pk, buf, inst)
           A == AssignNums(t, op, G)
           known == NumbersIn(t, s)
           after == Meant(t, s, op).nums
<1>1. VariablesOK(t) /\ OperatorOK(t, op)
  BY DEF WellFormed
<1>2. PICK N \in SUBSET Numeric(t) : Suffices(t, N)
  BY DEF WellFormed
<1>3. /\ G \in Nums(t)
      /\ \A v \in Numeric(t) : /\ t.ntype[v] = "regular" => G[v] = s.nums[v]
                               /\ t.ntype[v] = "constant" => G[v] = t.ninit[v]
      /\ \A v \in N : G[v] = known[v]
  BY <1>2, StateNumbers
<1>4. known \in Nums(t)
  BY NumbersTyped DEF SameNumbers
<1>5. \A k \in 1 .. Len(op.nums) : op.nums[k].var \in N => op.nums[k].by \in N
  BY <1>2 DEF Suffices
<1>6. after = [v \in OfType(t, "regular") |-> MeantNumber(op, v, s.nums[v], known)]
  BY DEF Meant
<1> HIDE DEF op, G, known, after
<1>7. /\ A \in Nums(t)
      /\ \A u \in Numeric(t) : t.ntype[u] \in {"constant", "derived"} => A[u] = G[u]
      /\ \A v \in OfType(t, "regular") : A[v] = MeantNumber(op, v, G[v], known)
  BY <1>1, <1>2, <1>3, <1>4, <1>5, AssignMeans
<1> HIDE DEF A
<1>8. ASSUME NEW v \in Numeric(t)
      PROVE  /\ t.ntype[v] = "regular" => A[v] = after[v] /\ after[v] \in Int
             /\ t.ntype[v] = "constant" => A[v] = t.ninit[v]
  <2>1. CASE t.ntype[v] = "regular"
    <3>1. v \in OfType(t, "regular") /\ G[v] = s.nums[v]
      BY <1>3, <2>1 DEF OfType
    <3> QED  BY <1>6, <1>7, <2>1, <3>1 DEF Nums
  <2>2. CASE t.ntype[v] # "regular"
    BY <1>3, <1>7, <2>2
  <2> QED  BY <2>1, <2>2
<1>9. after \in [OfType(t, "regular") -> Int]
  BY <1>6, <1>8 DEF OfType
<1> QED  BY <1>7, <1>8, <1>9 DEF A, G, op, after

(* The facts a buffer holds, derived variables included.                   *)
FactsOf(t, pk, buf) == {<<v, Get(pk, buf, <<"var", v>>)>> : v \in Logic(t)}

(* A logic variable of a packed state has a value of its range.            *)
LEMMA StoredValue ==
  ASSUME NEW t, NEW pk, Placing(t, pk), NEW buf \in Stored(t, pk),
         NEW v \in Logic(t)
  PROVE  /\ <<"var", v>> \in Packed(t) /\ Values(t, <<"var", v>>) = 0 .. t.range[v] - 1
         /\ Get(pk, buf, <<"var", v>>) \in 0 .. t.range[v] - 1
         /\ v \in Nat /\ t.range[v] \in Nat /\ t.range[v] >= 2
         /\ <<v, Get(pk, buf, <<"var", v>>)>> \in Facts(t)
<1>1. <<"var", v>> \in Packed(t) /\ <<"var", v>>[1] # "num"
  BY DEF Packed
<1>2. Values(t, <<"var", v>>) = 0 .. t.range[v] - 1
  BY <1>1 DEF Values
<1>3. Get(pk, buf, <<"var", v>>) \in 0 .. t.range[v] - 1
  BY <1>1, <1>2 DEF Stored
<1>4. v \in Nat /\ t.range[v] \in Nat /\ t.range[v] >= 2
  BY DEF Placing, VariablesOK, Logic
<1> QED  BY <1>1, <1>2, <1>3, <1>4 DEF Facts

(* Testing a set of facts in a buffer is asking whether the buffer has     *)
(* them.                                                                   *)
LEMMA HoldsIff ==
  ASSUME NEW t, NEW pk, NEW buf, NEW facts, facts \subseteq Facts(t)
  PROVE  Holds(pk, buf, facts) <=> facts \subseteq FactsOf(t, pk, buf)
<1>1. ASSUME NEW f \in facts
      PROVE  Get(pk, buf, <<"var", f[1]>>) = f[2] <=> f \in FactsOf(t, pk, buf)
  <2>1. PICK v \in Logic(t) : \E x \in 0 .. t.range[v] - 1 : f = <<v, x>>
    BY DEF Facts
  <2>0. PICK x : f = <<v, x>>
    BY <2>1
  <2>2. f \in FactsOf(t, pk, buf) <=> \E u \in Logic(t) : f = <<u, Get(pk, buf, <<"var", u>>)>>
    BY DEF FactsOf
  <2>3. \A u : f = <<u, Get(pk, buf, <<"var", u>>)>> <=> u = v /\ x = Get(pk, buf, <<"var", u>>)
    BY <2>0
  <2> QED  BY <2>0, <2>1, <2>2, <2>3
<1> QED  BY <1>1 DEF Holds

(* The writes that make the next state, one kind after the other.          *)
LEMMA WithNumsStored ==
  ASSUME NEW t, NEW pk, Placing(t, pk), NEW buf \in Stored(t, pk),
         NEW nums \in Nums(t)
  PROVE  LET new == WithNums(t, pk, buf, nums)
         IN  /\ new \in Stored(t, pk)
             /\ \A v \in Logic(t) : Get(pk, new, <<"var", v>>) = Get(pk, buf, <<"var", v>>)
             /\ \A v \in OfType(t, "regular") : Get(pk, new, <<"num", v>>) = nums[v]
<1> DEFINE n == Len(t.ntype)
           writes == [v \in 1 .. n |-> WriteIf(t.ntype[v] = "regular", <<"num", v>>, nums[v])]
           new == PutAll(pk, buf, writes)
<1>1. n \in Nat /\ Numeric(t) = 1 .. n
  BY DEF Placing, VariablesOK, Numeric
<1>2. Len(writes) = n
  BY <1>1
<1>3. ASSUME NEW v \in 1 .. n
      PROVE  /\ writes[v].when = (t.ntype[v] = "regular")
             /\ writes[v].place = <<"num", v>> /\ writes[v].val = nums[v]
             /\ writes[v].when => /\ writes[v].place \in Packed(t)
                                  /\ writes[v].val \in Values(t, writes[v].place)
  <2>1. /\ writes[v].when = (t.ntype[v] = "regular")
        /\ writes[v].place = <<"num", v>> /\ writes[v].val = nums[v]
    BY DEF WriteIf
  <2>2. ASSUME t.ntype[v] = "regular"
        PROVE  <<"num", v>> \in Packed(t) /\ nums[v] \in Values(t, <<"num", v>>)
    <3>1. v \in OfType(t, "regular") /\ nums[v] \in Int
      BY <1>1, <2>2 DEF OfType, Nums
    <3>2. <<"num", v>>[1] = "num"
      OBVIOUS
    <3> QED  BY <3>1, <3>2 DEF Packed, Values
  <2> HIDE DEF writes
  <2> QED  BY <2>1, <2>2
<1>4. WithNums(t, pk, buf, nums) = new
  BY DEF WithNums
<1> HIDE DEF writes, n
<1>5. \A k \in 1 .. Len(writes) : Legal(t, writes[k])
  BY <1>2, <1>3 DEF Legal
<1>w. Written(t, pk, buf, writes, new)
  BY <1>1, <1>2, <1>5, PutAllStored
<1>6. /\ new \in Stored(t, pk)
      /\ \A x \in Packed(t) :
           /\ (\A k \in 1 .. n : writes[k].when => writes[k].place # x) =>
                 Get(pk, new, x) = Get(pk, buf, x)
           /\ \A k \in 1 .. n :
                 /\ writes[k].when /\ writes[k].place = x
                 /\ \A j \in k + 1 .. n : writes[j].when => writes[j].place # x
                 => Get(pk, new, x) = writes[k].val
  BY <1>2, <1>w DEF Written
<1> HIDE DEF new
<1>7. ASSUME NEW v \in Logic(t)
      PROVE  Get(pk, new, <<"var", v>>) = Get(pk, buf, <<"var", v>>)
  <2>1. <<"var", v>> \in Packed(t)
    BY DEF Packed
  <2>2. \A k \in 1 .. n : writes[k].place # <<"var", v>>
    BY <1>3
  <2> QED  BY <1>6, <2>1, <2>2
<1>8. ASSUME NEW v \in OfType(t, "regular")
      PROVE  Get(pk, new, <<"num", v>>) = nums[v]
  <2>1. v \in 1 .. n /\ t.ntype[v] = "regular" /\ <<"num", v>> \in Packed(t)
    BY <1>1 DEF OfType, Packed
  <2>2. \A j \in v + 1 .. n : writes[j].place # <<"num", v>>
    BY <1>1, <1>3, <2>1
  <2> QED  BY <1>3, <1>6, <2>1, <2>2
<1> QED  BY <1>4, <1>6, <1>7, <1>8

(* The comparison axioms write each comparison variable and nothing else.  *)
LEMMA ComparisonsStored ==
  ASSUME NEW t, WellFormed(t), NEW pk, Placing(t, pk),
         NEW buf \in Stored(t, pk), NEW nums
  PROVE  LET new == EvaluateComparisons(t, pk, buf, nums)
         IN  /\ new \in Stored(t, pk)
             /\ \A v \in Logic(t) \ ComparisonVars(t) :
                   Get(pk, new, <<"var", v>>) = Get(pk, buf, <<"var", v>>)
             /\ \A ax \in Range(t.comps) : Get(pk, new, <<"var", ax.var>>) = Compared(ax, nums)
             /\ \A v \in OfType(t, "regular") :
                   Get(pk, new, <<"num", v>>) = Get(pk, buf, <<"num", v>>)
<1> DEFINE n == Len(t.comps)
           writes == [k \in 1 .. n |-> Write(<<"var", t.comps[k].var>>,
                                             Compared(t.comps[k], nums))]
           new == PutAll(pk, buf, writes)
<1>1. n \in Nat /\ ComparisonsOK(t) /\ IsSeq(t.comps)
  BY DEF WellFormed, IsSeq
<1>2. Len(writes) = n
  BY <1>1
<1>3. ASSUME NEW k \in 1 .. n
      PROVE  /\ writes[k].when = TRUE
             /\ writes[k].place = <<"var", t.comps[k].var>>
             /\ writes[k].val = Compared(t.comps[k], nums)
             /\ t.comps[k].var \in Logic(t)
             /\ \A j \in 1 .. n : t.comps[j].var = t.comps[k].var => j = k
             /\ writes[k].place \in Packed(t) /\ writes[k].val \in Values(t, writes[k].place)
  <2>1. /\ writes[k].when = TRUE
        /\ writes[k].place = <<"var", t.comps[k].var>>
        /\ writes[k].val = Compared(t.comps[k], nums)
    BY DEF Write, WriteIf
  <2> HIDE DEF writes
  <2>2. t.comps[k].var \in Logic(t) /\ \A j \in 1 .. n : t.comps[j].var = t.comps[k].var => j = k
    BY <1>1 DEF ComparisonsOK
  <2>3. Compared(t.comps[k], nums) \in {0, 1}
    BY DEF Compared
  <2> DEFINE c == t.comps[k].var
  <2>4. /\ <<"var", c>> \in Packed(t) /\ Values(t, <<"var", c>>) = 0 .. t.range[c] - 1
        /\ t.range[c] \in Nat /\ t.range[c] >= 2
    BY <2>2, StoredValue
  <2>5. {0, 1} \subseteq 0 .. t.range[c] - 1
    BY <2>4
  <2> QED  BY <2>1, <2>2, <2>3, <2>4, <2>5
<1>a. \A k \in 1 .. n : /\ writes[k].place = <<"var", t.comps[k].var>>
                       /\ writes[k].when = TRUE
  BY <1>3
<1>4. EvaluateComparisons(t, pk, buf, nums) = new
  BY DEF EvaluateComparisons
<1> HIDE DEF writes, n
<1>5. \A k \in 1 .. Len(writes) : Legal(t, writes[k])
  BY <1>2, <1>3 DEF Legal
<1>w. Written(t, pk, buf, writes, new)
  BY <1>1, <1>2, <1>5, PutAllStored
<1>6. /\ new \in Stored(t, pk)
      /\ \A x \in Packed(t) :
           /\ (\A k \in 1 .. n : writes[k].when => writes[k].place # x) =>
                 Get(pk, new, x) = Get(pk, buf, x)
           /\ \A k \in 1 .. n :
                 /\ writes[k].when /\ writes[k].place = x
                 /\ \A j \in k + 1 .. n : writes[j].when => writes[j].place # x
                 => Get(pk, new, x) = writes[k].val
  BY <1>2, <1>w DEF Written
<1> HIDE DEF new
<1>7. \A ax : ax \in Range(t.comps) <=> \E k \in 1 .. n : ax = t.comps[k]
  BY <1>1 DEF Range, IsSeq, n
<1>8. ASSUME NEW v \in Logic(t) \ ComparisonVars(t)
      PROVE  Get(pk, new, <<"var", v>>) = Get(pk, buf, <<"var", v>>)
  <2>1. <<"var", v>> \in Packed(t)
    BY DEF Packed
  <2>2. ASSUME NEW k \in 1 .. n  PROVE  writes[k].place # <<"var", v>>
    <3>1. t.comps[k].var # v
      BY <1>7 DEF ComparisonVars
    <3>2. <<"var", t.comps[k].var>> # <<"var", v>>
      BY <3>1
    <3> QED  BY <1>a, <3>2
  <2> QED  BY <1>6, <2>1, <2>2
<1>9. ASSUME NEW ax \in Range(t.comps)
      PROVE  Get(pk, new, <<"var", ax.var>>) = Compared(ax, nums)
  <2>1. PICK k \in 1 .. n : ax = t.comps[k]
    BY <1>7
  <2>2. ASSUME NEW j \in k + 1 .. n  PROVE  writes[j].place # <<"var", ax.var>>
    <3>1. j \in 1 .. n /\ j # k
      BY <1>1, <2>1
    <3>2. t.comps[j].var # t.comps[k].var
      BY <1>3, <2>1, <3>1
    <3>3. <<"var", t.comps[j].var>> # <<"var", ax.var>>
      BY <2>1, <3>2
    <3> QED  BY <1>a, <3>1, <3>3
  <2>3. writes[k].place = <<"var", ax.var>> /\ writes[k].val = Compared(ax, nums)
        /\ writes[k].when /\ <<"var", ax.var>> \in Packed(t)
    BY <1>3, <2>1
  <2> QED  BY <1>6, <2>2, <2>3
<1>10. ASSUME NEW v \in OfType(t, "regular")
       PROVE  Get(pk, new, <<"num", v>>) = Get(pk, buf, <<"num", v>>)
  <2>1. <<"num", v>> \in Packed(t)
    BY DEF Packed
  <2>2. \A k \in 1 .. n : writes[k].place # <<"num", v>>
    BY <1>a
  <2> QED  BY <1>6, <2>1, <2>2
<1> QED  BY <1>4, <1>6, <1>8, <1>9, <1>10

(* The effects of an operator give each variable the value that is meant,  *)
(* and leave derived variables alone.                                      *)
LEMMA EffectsStored ==
  ASSUME NEW t, NEW pk, Placing(t, pk), NEW buf \in Stored(t, pk),
         NEW op, OperatorOK(t, op)
  PROVE  LET new == SetEffects(pk, op, buf)
         IN  /\ new \in Stored(t, pk)
             /\ \A v \in Logic(t) :
                   Get(pk, new, <<"var", v>>)
                     = MeantValue(op, v, Get(pk, buf, <<"var", v>>), FactsOf(t, pk, buf))
             /\ \A v \in Logic(t) : t.layer[v] # -1 =>
                   Get(pk, new, <<"var", v>>) = Get(pk, buf, <<"var", v>>)
             /\ \A v \in OfType(t, "regular") :
                   Get(pk, new, <<"num", v>>) = Get(pk, buf, <<"num", v>>)
<1> DEFINE n == Len(op.effs)
           facts == FactsOf(t, pk, buf)
           writes == [k \in 1 .. n |-> WriteIf(Holds(pk, buf, op.effs[k].cond),
                                               <<"var", op.effs[k].var>>, op.effs[k].val)]
           new == PutAll(pk, buf, writes)
<1>1. n \in Nat /\ DOMAIN op.effs = 1 .. n
  BY DEF OperatorOK, IsSeq
<1>2. Len(writes) = n
  BY <1>1
<1>3. ASSUME NEW k \in 1 .. n
      PROVE  /\ writes[k].when = Holds(pk, buf, op.effs[k].cond)
             /\ writes[k].when \in BOOLEAN
             /\ writes[k].when <=> op.effs[k].cond \subseteq facts
             /\ writes[k].place = <<"var", op.effs[k].var>>
             /\ writes[k].val = op.effs[k].val
             /\ op.effs[k].var \in Logic(t) /\ t.layer[op.effs[k].var] = -1
             /\ writes[k].place \in Packed(t) /\ writes[k].val \in Values(t, writes[k].place)
  <2>1. /\ writes[k].when = Holds(pk, buf, op.effs[k].cond)
        /\ writes[k].place = <<"var", op.effs[k].var>>
        /\ writes[k].val = op.effs[k].val
    BY DEF WriteIf
  <2> HIDE DEF writes
  <2>2. /\ op.effs[k].cond \subseteq Facts(t)
        /\ <<op.effs[k].var, op.effs[k].val>> \in Facts(t)
        /\ t.layer[op.effs[k].var] = -1
    BY DEF OperatorOK
  <2>3. op.effs[k].var \in Logic(t)
        /\ op.effs[k].val \in 0 .. t.range[op.effs[k].var] - 1
    BY <2>2 DEF Facts
  <2>4. Holds(pk, buf, op.effs[k].cond) \in BOOLEAN
    BY DEF Holds
  <2>5. Holds(pk, buf, op.effs[k].cond) <=> op.effs[k].cond \subseteq facts
    BY <2>2, HoldsIff
  <2>6. /\ <<"var", op.effs[k].var>> \in Packed(t)
        /\ Values(t, <<"var", op.effs[k].var>>) = 0 .. t.range[op.effs[k].var] - 1
    BY <2>3, StoredValue
  <2> QED  BY <2>1, <2>2, <2>3, <2>4, <2>5, <2>6
<1>a. \A k \in 1 .. n : /\ writes[k].place = <<"var", op.effs[k].var>>
                       /\ writes[k].val = op.effs[k].val
  BY <1>3
<1>b. \A k \in 1 .. n : writes[k].when <=> op.effs[k].cond \subseteq facts
  BY <1>3
<1>4. SetEffects(pk, op, buf) = new
  BY DEF SetEffects
<1> HIDE DEF writes, n
<1>5. \A k \in 1 .. Len(writes) : Legal(t, writes[k])
  BY <1>2, <1>3 DEF Legal
<1>w. Written(t, pk, buf, writes, new)
  BY <1>1, <1>2, <1>5, PutAllStored
<1>6. /\ new \in Stored(t, pk)
      /\ \A x \in Packed(t) :
           /\ (\A k \in 1 .. n : writes[k].when => writes[k].place # x) =>
                 Get(pk, new, x) = Get(pk, buf, x)
           /\ \A k \in 1 .. n :
                 /\ writes[k].when /\ writes[k].place = x
                 /\ \A j \in k + 1 .. n : writes[j].when => writes[j].place # x
                 => Get(pk, new, x) = writes[k].val
  BY <1>2, <1>w DEF Written
<1> HIDE DEF new, n, facts
<1>7. ASSUME NEW v \in Logic(t)
      PROVE  Get(pk, new, <<"var", v>>) = MeantValue(op, v, Get(pk, buf, <<"var", v>>), facts)
  <2> DEFINE sets == {k \in DOMAIN op.effs : op.effs[k].var = v /\ op.effs[k].cond \subseteq facts}
             last == CHOOSE k \in sets : \A j \in sets : j <= k
             x == <<"var", v>>
  <2>1. MeantValue(op, v, Get(pk, buf, x), facts)
          = IF sets = {} THEN Get(pk, buf, x) ELSE op.effs[last].val
    BY DEF MeantValue
  <2>2. x \in Packed(t)
    BY DEF Packed
  <2>3. \A k \in 1 .. n : writes[k].when /\ writes[k].place = x <=> k \in sets
    <3>1. ASSUME NEW k \in 1 .. n
          PROVE  writes[k].when /\ writes[k].place = x <=> k \in sets
      <4>1. <<"var", op.effs[k].var>> = x <=> op.effs[k].var = v
        OBVIOUS
      <4>2. k \in DOMAIN op.effs
        BY <1>1
      <4>3. writes[k].place = x <=> op.effs[k].var = v
        BY <1>a, <4>1
      <4> QED  BY <1>b, <4>2, <4>3
    <3> QED  BY <3>1
  <2> HIDE DEF x
  <2>4. sets \subseteq 1 .. n
    BY <1>1
  <2>5. CASE sets = {}
    <3>1. \A k \in 1 .. n : writes[k].when => writes[k].place # x
      BY <2>3, <2>5
    <3>2. Get(pk, new, x) = Get(pk, buf, x)
      BY <1>6, <2>2, <3>1
    <3> QED  BY <2>1, <2>5, <3>2 DEF x
  <2>6. CASE sets # {}
    <3> HIDE DEF sets
    <3>1. \E k \in sets : \A j \in sets : j <= k
      <4> DEFINE rest == {n - k : k \in sets}
      <4>1. rest \subseteq Nat /\ rest # {}
        <5>1. \A k \in sets : n - k \in Nat
          BY <1>1, <2>4
        <5> QED  BY <2>6, <5>1
      <4>2. PICK r \in rest : \A q \in rest : r <= q
        <5> HIDE DEF rest
        <5> QED  BY <4>1, LeastNat
      <4>3. PICK k \in sets : r = n - k
        BY <4>2
      <4>4. ASSUME NEW j \in sets  PROVE  j <= k
        <5>1. n - k <= n - j
          BY <4>2, <4>3
        <5> QED  BY <1>1, <2>4, <5>1
      <4> QED  BY <4>4
    <3>2. last \in sets /\ \A j \in sets : j <= last
      BY <3>1
    <3> HIDE DEF last
    <3>3. last \in 1 .. n /\ writes[last].when /\ writes[last].place = x
      BY <2>3, <2>4, <3>2
    <3>4. ASSUME NEW j \in last + 1 .. n, writes[j].when
          PROVE  writes[j].place # x
      <4>1. j \in 1 .. n /\ ~(j <= last)
        BY <1>1, <3>3
      <4> QED  BY <2>3, <3>2, <3>4, <4>1
    <3>5. Get(pk, new, x) = writes[last].val
      BY <1>6, <2>2, <3>3, <3>4
    <3>6. writes[last].val = op.effs[last].val
      BY <1>a, <3>3
    <3> QED  BY <2>1, <2>6, <3>5, <3>6 DEF x
  <2> QED  BY <2>5, <2>6
<1>8. ASSUME NEW v \in Logic(t), t.layer[v] # -1
      PROVE  Get(pk, new, <<"var", v>>) = Get(pk, buf, <<"var", v>>)
  <2>1. <<"var", v>> \in Packed(t)
    BY DEF Packed
  <2>2. ASSUME NEW k \in 1 .. n  PROVE  writes[k].place # <<"var", v>>
    <3>1. op.effs[k].var # v
      BY <1>3, <1>8
    <3>2. <<"var", op.effs[k].var>> # <<"var", v>>
      BY <3>1
    <3> QED  BY <1>a, <3>2
  <2> QED  BY <1>6, <2>1, <2>2
<1>9. ASSUME NEW v \in OfType(t, "regular")
      PROVE  Get(pk, new, <<"num", v>>) = Get(pk, buf, <<"num", v>>)
  <2>1. <<"num", v>> \in Packed(t)
    BY DEF Packed
  <2>2. \A k \in 1 .. n : writes[k].place # <<"num", v>>
    BY <1>a
  <2> QED  BY <1>6, <2>1, <2>2
<1> QED  BY <1>4, <1>6, <1>7, <1>8, <1>9 DEF facts

(* The initial state is packed from the initial values and the defaults.   *)
LEMMA DefaultsStored ==
  ASSUME NEW t, NEW pk, Placing(t, pk)
  PROVE  LET new == PutAll(pk, NoBits(pk), [v \in 1 .. Len(t.range) |->
                                              Write(<<"var", v>>, t.init[v])])
         IN  /\ new \in Stored(t, pk)
             /\ \A v \in Logic(t) : Get(pk, new, <<"var", v>>) = t.init[v]
<1> DEFINE n == Len(t.range)
           buf == NoBits(pk)
           writes == [v \in 1 .. n |-> Write(<<"var", v>>, t.init[v])]
           new == PutAll(pk, buf, writes)
<1>1. n \in Nat /\ Logic(t) = 1 .. n /\ buf \in Stored(t, pk)
  BY NoBitsStored DEF Placing, VariablesOK, Logic
<1>2. Len(writes) = n
  BY <1>1
<1>3. ASSUME NEW k \in 1 .. n
      PROVE  /\ writes[k].when = TRUE /\ writes[k].place = <<"var", k>>
             /\ writes[k].val = t.init[k]
             /\ <<"var", k>> \in Packed(t) /\ t.init[k] \in Values(t, <<"var", k>>)
  <2>1. /\ writes[k].when = TRUE /\ writes[k].place = <<"var", k>>
        /\ writes[k].val = t.init[k]
    BY DEF Write, WriteIf
  <2> HIDE DEF writes
  <2>2. t.init[k] \in 0 .. t.range[k] - 1
    BY <1>1 DEF Placing, VariablesOK
  <2>3. <<"var", k>> \in Packed(t) /\ Values(t, <<"var", k>>) = 0 .. t.range[k] - 1
    BY <1>1, StoredValue
  <2> QED  BY <2>1, <2>2, <2>3
<1> HIDE DEF writes, n
<1>5. \A k \in 1 .. Len(writes) : Legal(t, writes[k])
  BY <1>2, <1>3 DEF Legal
<1> HIDE DEF buf
<1>w. Written(t, pk, buf, writes, new)
  BY <1>1, <1>2, <1>5, PutAllStored
<1>6. /\ new \in Stored(t, pk)
      /\ \A x \in Packed(t) : \A k \in 1 .. n :
                 /\ writes[k].when /\ writes[k].place = x
                 /\ \A j \in k + 1 .. n : writes[j].when => writes[j].place # x
                 => Get(pk, new, x) = writes[k].val
  BY <1>2, <1>w DEF Written
<1> HIDE DEF new
<1>7. ASSUME NEW v \in Logic(t)
      PROVE  Get(pk, new, <<"var", v>>) = t.init[v]
  <2>1. v \in 1 .. n
    BY <1>1
  <2>2. ASSUME NEW j \in v + 1 .. n  PROVE  writes[j].place # <<"var", v>>
    <3>1. j \in 1 .. n /\ <<"var", j>> # <<"var", v>>
      BY <1>1, <2>1
    <3> QED  BY <1>3, <3>1
  <2> QED  BY <1>3, <1>6, <2>1, <2>2
<1> QED  BY <1>6, <1>7 DEF new, writes, buf, n

(* The last layer is the highest of the variables'.                        *)
LEMMA LastLayerOK ==
  ASSUME NEW t, VariablesOK(t)
  PROVE  /\ LastLayer(t) \in Nat \cup {-1}
         /\ \A v \in Logic(t) : /\ t.layer[v] \in Int
                                 /\ t.layer[v] >= -1 /\ t.layer[v] <= LastLayer(t)
<1> DEFINE n == Len(t.range)
           layers == {-1} \cup Range(t.layer)
           Top(l, k) == l \in layers /\ \A v \in 1 .. k : t.layer[v] <= l
           Good == {k \in 0 .. n : \E l : Top(l, k)}
<1>1. n \in Nat /\ Logic(t) = 1 .. n /\ t.layer \in [1 .. n -> Nat \cup {-1}]
  BY DEF VariablesOK, Logic
<1> HIDE DEF n
<1>2. /\ layers \subseteq Nat \cup {-1} /\ \A l \in layers : l \in Int /\ l >= -1
      /\ \A v \in 1 .. n : t.layer[v] \in layers
  BY <1>1 DEF Range
<1> HIDE DEF layers
<1>3. 0 \in Good
  <2>1. Top(-1, 0)
    BY DEF layers
  <2> QED  BY <1>1, <2>1
<1>4. ASSUME NEW k \in 0 .. n - 1, k \in Good  PROVE  k + 1 \in Good
  <2>1. PICK l : Top(l, k)
    BY <1>4
  <2> DEFINE l2 == IF t.layer[k + 1] <= l THEN l ELSE t.layer[k + 1]
  <2>2. t.layer[k + 1] \in layers /\ k + 1 \in 1 .. n
    BY <1>1, <1>2
  <2>3. Top(l2, k + 1)
    <3>1. ASSUME NEW v \in 1 .. k + 1  PROVE  t.layer[v] <= l2
      <4>1. v \in 1 .. k \/ v = k + 1
        BY <1>1
      <4>2. v \in 1 .. k => t.layer[v] <= l /\ t.layer[v] \in Int
        BY <1>1, <2>1
      <4>3. l \in Int /\ t.layer[k + 1] \in Int
        BY <1>2, <2>1, <2>2
      <4> QED  BY <4>1, <4>2, <4>3
    <3> QED  BY <2>1, <2>2, <3>1
  <2> HIDE DEF l2, Top
  <2> QED  BY <1>1, <2>3
<1>5. n \in Good
  <2> HIDE DEF Good
  <2>1. 0 .. n \subseteq Good
    BY <1>1, <1>3, <1>4, Upward
  <2> QED  BY <1>1, <2>1
<1>6. \E l \in layers : \A v \in Logic(t) : t.layer[v] <= l
  BY <1>1, <1>5
<1>7. LastLayer(t) \in layers /\ \A v \in Logic(t) : t.layer[v] <= LastLayer(t)
  BY <1>6 DEF LastLayer, layers
<1> QED  BY <1>1, <1>2, <1>7

(* The rules start from the variables that no rule derives.                *)
LEMMA GivenIs ==
  ASSUME NEW t, WellFormed(t)
  PROVE  /\ Given(t) = Base(t) \cup ComparisonVars(t) /\ Given(t) \subseteq Logic(t)
         /\ Derived(t) = Logic(t) \ Given(t)
         /\ Base(t) \cap ComparisonVars(t) = {}
         /\ \A v \in Logic(t) : t.layer[v] = -1 <=> v \in Base(t)
<1>1. VariablesOK(t) /\ ComparisonsOK(t) /\ IsSeq(t.comps)
  BY DEF WellFormed
<1>2. \A c \in ComparisonVars(t) : c \in Logic(t) /\ t.layer[c] # -1
  <2>1. \A ax \in Range(t.comps) : \E k \in 1 .. Len(t.comps) : ax = t.comps[k]
    BY <1>1 DEF IsSeq, Range
  <2> QED  BY <1>1, <2>1 DEF ComparisonsOK, ComparisonVars
<1>3. t.comps # <<>> <=> ComparisonVars(t) # {}
  <2>1. t.comps # <<>> <=> Range(t.comps) # {}
    <3>1. t.comps \in Seq(Range(t.comps)) /\ Len(t.comps) \in Nat
          /\ DOMAIN t.comps = 1 .. Len(t.comps)
      BY <1>1 DEF IsSeq
    <3>2. CASE t.comps = <<>>
      BY <3>2 DEF Range
    <3>3. CASE t.comps # <<>>
      <4>1. Len(t.comps) # 0
        BY <3>1, <3>3
      <4>2. 1 \in DOMAIN t.comps
        BY <3>1, <4>1
      <4> QED  BY <3>3, <4>2 DEF Range
    <3> QED  BY <3>2, <3>3
  <2> QED  BY <2>1 DEF ComparisonVars
<1>4. \A v \in Logic(t) : t.layer[v] \in Int
  BY LastLayerOK, <1>1
<1>5. ASSUME NEW v \in Logic(t)
      PROVE  v \in Given(t) <=> v \in Base(t) \cup ComparisonVars(t)
  <2>1. CASE t.layer[v] = -1
    BY <2>1 DEF Given, Base
  <2>2. CASE t.layer[v] # -1 /\ v \in ComparisonVars(t)
    <3>1. ASSUME NEW u \in Logic(t), t.layer[u] # -1
          PROVE  t.layer[v] <= t.layer[u]
      <4>1. CASE u \in ComparisonVars(t)
        BY <1>1, <1>4, <2>2, <4>1 DEF ComparisonsOK
      <4>2. CASE u \notin ComparisonVars(t)
        <5>1. u \in Derived(t)
          BY <3>1, <4>2 DEF Derived
        <5> QED  BY <1>1, <1>4, <2>2, <5>1 DEF ComparisonsOK
      <4> QED  BY <4>1, <4>2
    <3> QED  BY <1>3, <2>2, <3>1 DEF Given
  <2>3. CASE t.layer[v] # -1 /\ v \notin ComparisonVars(t)
    <3>1. v \in Derived(t) /\ v \notin Base(t)
      BY <2>3 DEF Derived, Base
    <3>2. ASSUME v \in Given(t)  PROVE  FALSE
      <4>1. /\ t.comps # <<>>
            /\ \A u \in Logic(t) : t.layer[u] # -1 => t.layer[v] <= t.layer[u]
        BY <2>3, <3>2 DEF Given
      <4>2. PICK c \in ComparisonVars(t) : TRUE
        BY <1>3, <4>1
      <4>3. t.layer[v] <= t.layer[c] /\ t.layer[c] < t.layer[v] /\ c \in Logic(t)
        BY <1>1, <1>2, <3>1, <4>1 DEF ComparisonsOK
      <4> QED  BY <1>4, <4>3
    <3> QED  BY <2>3, <3>1, <3>2
  <2> QED  BY <2>1, <2>2, <2>3
<1>6. Given(t) \subseteq Logic(t) /\ Base(t) \subseteq Logic(t)
  BY DEF Given, Base
<1>7. Given(t) = Base(t) \cup ComparisonVars(t)
  BY <1>2, <1>5, <1>6
<1>8. \A v \in Logic(t) : t.layer[v] = -1 <=> v \in Base(t)
  BY DEF Base
<1> QED  BY <1>2, <1>6, <1>7, <1>8 DEF Derived

(* What a rule concludes.                                                  *)
HeadFact(t, i) == <<t.rules[i].var, t.rules[i].val>>

(* What is asked of a rule of a well-formed task.                          *)
LEMMA RuleOK ==
  ASSUME NEW t, WellFormed(t), NEW i \in 1 .. Len(t.rules)
  PROVE  /\ HeadFact(t, i) \in Facts(t) /\ t.rules[i].var \in Derived(t)
         /\ t.rules[i].var \in Logic(t) /\ t.rules[i].var \notin Given(t)
         /\ t.rules[i].val # t.init[t.rules[i].var]
         /\ t.rules[i].val \in 0 .. t.range[t.rules[i].var] - 1
         /\ t.rules[i].cond \subseteq Facts(t)
         /\ \A f \in t.rules[i].cond :
               \/ t.layer[f[1]] < t.layer[t.rules[i].var]
               \/ /\ t.layer[f[1]] = t.layer[t.rules[i].var]
                  /\ f[2] # t.init[f[1]]
         /\ \A j \in 1 .. Len(t.rules) :
               t.rules[j].var = t.rules[i].var => t.rules[j].val = t.rules[i].val
         /\ t.layer[t.rules[i].var] \in 0 .. LastLayer(t)
<1>1. RulesOK(t) /\ VariablesOK(t)
  BY DEF WellFormed
<1>2. /\ HeadFact(t, i) \in Facts(t) /\ t.rules[i].var \in Derived(t)
      /\ t.rules[i].val # t.init[t.rules[i].var]
      /\ t.rules[i].cond \subseteq Facts(t)
      /\ \A f \in t.rules[i].cond :
               \/ t.layer[f[1]] < t.layer[t.rules[i].var]
               \/ /\ t.layer[f[1]] = t.layer[t.rules[i].var]
                  /\ f[2] # t.init[f[1]]
      /\ \A j \in 1 .. Len(t.rules) :
               t.rules[j].var = t.rules[i].var => t.rules[j].val = t.rules[i].val
  BY <1>1 DEF RulesOK, HeadFact
<1>3. t.rules[i].var \in Logic(t) /\ t.rules[i].var \notin Given(t)
      /\ t.layer[t.rules[i].var] # -1
  BY <1>2, GivenIs DEF Derived
<1>4. t.rules[i].val \in 0 .. t.range[t.rules[i].var] - 1
  BY <1>2 DEF Facts, HeadFact
<1>5. t.layer[t.rules[i].var] \in 0 .. LastLayer(t)
  BY <1>1, <1>3, LastLayerOK
<1> QED  BY <1>2, <1>3, <1>4, <1>5

(* What the facts of a layer are: the least set that the layer's rules     *)
(* close, given the facts below.                                           *)
LEMMA LeastModelIs ==
  ASSUME NEW t, WellFormed(t), NEW known, NEW layer
  PROVE  /\ \A f \in LeastModel(t, known, layer) :
               \E i \in 1 .. Len(t.rules) : /\ t.layer[t.rules[i].var] = layer
                                            /\ f = HeadFact(t, i)
         /\ \A i \in 1 .. Len(t.rules) :
               /\ t.layer[t.rules[i].var] = layer
               /\ t.rules[i].cond \subseteq known \cup LeastModel(t, known, layer)
               => HeadFact(t, i) \in LeastModel(t, known, layer)
         /\ \A X : (\A i \in 1 .. Len(t.rules) :
                      /\ t.layer[t.rules[i].var] = layer
                      /\ t.rules[i].cond \subseteq known \cup X
                      => HeadFact(t, i) \in X)
                   => LeastModel(t, known, layer) \subseteq X
<1> DEFINE rules == {r \in Range(t.rules) : t.layer[r.var] = layer}
           heads == {<<r.var, r.val>> : r \in rules}
           Closed(S) == \A r \in rules : r.cond \subseteq known \cup S => <<r.var, r.val>> \in S
           closed == {S \in SUBSET heads : Closed(S)}
           least == {h \in heads : \A S \in closed : h \in S}
<1>1. LeastModel(t, known, layer) = least
  BY DEF LeastModel
<1>2. \A r : r \in Range(t.rules) <=> \E i \in 1 .. Len(t.rules) : r = t.rules[i]
  <2>1. DOMAIN t.rules = 1 .. Len(t.rules)
    BY DEF WellFormed, IsSeq
  <2> QED  BY <2>1 DEF Range
<1>3. \A i \in 1 .. Len(t.rules) : t.layer[t.rules[i].var] = layer =>
         t.rules[i] \in rules /\ HeadFact(t, i) = <<t.rules[i].var, t.rules[i].val>>
         /\ HeadFact(t, i) \in heads
  BY <1>2 DEF HeadFact
<1>4. \A r \in rules : \E i \in 1 .. Len(t.rules) : r = t.rules[i] /\ t.layer[t.rules[i].var] = layer
  BY <1>2
<1>5. ASSUME NEW f \in least
      PROVE  \E i \in 1 .. Len(t.rules) : t.layer[t.rules[i].var] = layer /\ f = HeadFact(t, i)
  <2>1. PICK r \in rules : f = <<r.var, r.val>>
    OBVIOUS
  <2> QED  BY <1>4, <2>1 DEF HeadFact
<1>6. ASSUME NEW i \in 1 .. Len(t.rules), t.layer[t.rules[i].var] = layer,
             t.rules[i].cond \subseteq known \cup least
      PROVE  HeadFact(t, i) \in least
  <2>1. t.rules[i] \in rules /\ HeadFact(t, i) = <<t.rules[i].var, t.rules[i].val>>
        /\ HeadFact(t, i) \in heads
    BY <1>3, <1>6
  <2>2. ASSUME NEW S \in closed  PROVE  HeadFact(t, i) \in S
    <3>1. least \subseteq S
      OBVIOUS
    <3>2. t.rules[i].cond \subseteq known \cup S
      BY <1>6, <3>1
    <3>3. Closed(S)
      OBVIOUS
    <3> HIDE DEF rules
    <3> QED  BY <2>1, <3>2, <3>3
  <2> QED  BY <2>1, <2>2
<1>7. ASSUME NEW X, \A i \in 1 .. Len(t.rules) :
                      /\ t.layer[t.rules[i].var] = layer
                      /\ t.rules[i].cond \subseteq known \cup X
                      => HeadFact(t, i) \in X
      PROVE  least \subseteq X
  <2> DEFINE S == X \cap heads
  <2>1. Closed(S)
    <3>1. ASSUME NEW r \in rules, r.cond \subseteq known \cup S
          PROVE  <<r.var, r.val>> \in S
      <4>1. PICK i \in 1 .. Len(t.rules) : r = t.rules[i] /\ t.layer[t.rules[i].var] = layer
        BY <1>4
      <4>2. t.rules[i].cond \subseteq known \cup X
        BY <3>1, <4>1
      <4>3. /\ HeadFact(t, i) \in X /\ HeadFact(t, i) \in heads
            /\ HeadFact(t, i) = <<r.var, r.val>>
        BY <1>3, <1>7, <4>1, <4>2
      <4> QED  BY <4>3
    <3> QED  BY <3>1
  <2>2. S \in closed
    BY <2>1
  <2> QED  BY <2>2
<1> QED  BY <1>1, <1>5, <1>6, <1>7

(* The variables whose facts are known before a layer, and the facts of a  *)
(* state that are known then: just one of each of those variables.         *)
Below(t, layer) == {v \in Logic(t) : v \in Given(t) \/ t.layer[v] < layer}
GraphOn(t, V, S) ==
    /\ S \subseteq Facts(t)
    /\ \A f, g \in S : f[1] = g[1] => f = g
    /\ \A v \in Logic(t) : v \in V <=> \E f \in S : f[1] = v

(* A layer gives one fact to each of its derived variables: one of the     *)
(* layer's model, or else the default.                                     *)
LEMMA WithLayerGraph ==
  ASSUME NEW t, WellFormed(t), NEW layer \in 0 .. LastLayer(t), NEW known,
         GraphOn(t, Below(t, layer), known)
  PROVE  /\ GraphOn(t, Below(t, layer + 1), WithLayer(t, known, layer))
         /\ known \subseteq WithLayer(t, known, layer)
         /\ LeastModel(t, known, layer) \subseteq WithLayer(t, known, layer)
         /\ \A f \in WithLayer(t, known, layer) \ known :
               /\ f[1] \in Derived(t) /\ t.layer[f[1]] = layer
               /\ f[2] # t.init[f[1]] => f \in LeastModel(t, known, layer)
               /\ f \in LeastModel(t, known, layer) => f[2] # t.init[f[1]]
<1> DEFINE model == LeastModel(t, known, layer)
           derived == {v \in Logic(t) \ ComparisonVars(t) : t.layer[v] = layer}
           unset == {u \in derived : \A f \in model : f[1] # u}
           left == {<<v, t.init[v]>> : v \in unset}
           new == known \cup model \cup left
<1>0. layer \in Nat /\ \A v \in Logic(t) : t.layer[v] \in Int
  BY LastLayerOK DEF WellFormed
<1>1. WithLayer(t, known, layer) = new
  BY DEF WithLayer
<1>2. \A v \in Logic(t) : v \in derived <=> v \in Derived(t) /\ t.layer[v] = layer
  BY <1>0 DEF Derived
<1>3. \A v \in Logic(t) : v \in Derived(t) <=> v \notin Given(t)
  BY GivenIs
<1>4. \A v \in Logic(t) : v \in Below(t, layer + 1) <=> v \in Below(t, layer) \/ v \in derived
  BY <1>0, <1>2, <1>3 DEF Below
<1>5. derived \cap Below(t, layer) = {}
  BY <1>0, <1>2, <1>3 DEF Below
<1> HIDE DEF model
<1>6. ASSUME NEW f \in model
      PROVE  /\ f \in Facts(t) /\ f[1] \in derived /\ f[2] # t.init[f[1]]
             /\ \A g \in model : f[1] = g[1] => f = g
  <2>1. PICK i \in 1 .. Len(t.rules) : t.layer[t.rules[i].var] = layer /\ f = HeadFact(t, i)
    BY LeastModelIs DEF model
  <2>2. ASSUME NEW g \in model, f[1] = g[1]  PROVE  f = g
    <3>1. PICK j \in 1 .. Len(t.rules) : t.layer[t.rules[j].var] = layer /\ g = HeadFact(t, j)
      BY LeastModelIs DEF model
    <3>2. t.rules[j].var = t.rules[i].var
      BY <2>1, <2>2, <3>1 DEF HeadFact
    <3>3. t.rules[j].val = t.rules[i].val
      BY <3>2, RuleOK
    <3> QED  BY <2>1, <3>1, <3>2, <3>3 DEF HeadFact
  <2>3. f[1] = t.rules[i].var /\ f[2] = t.rules[i].val
    BY <2>1 DEF HeadFact
  <2> QED  BY <1>2, <2>1, <2>2, <2>3, RuleOK
<1>7. ASSUME NEW f \in left
      PROVE  f[1] \in unset /\ f = <<f[1], t.init[f[1]]>> /\ f[2] = t.init[f[1]] /\ f \in Facts(t)
  <2>1. PICK v \in unset : f = <<v, t.init[v]>>
    OBVIOUS
  <2>2. v \in Logic(t) /\ t.init[v] \in 0 .. t.range[v] - 1
    BY DEF WellFormed, VariablesOK
  <2> QED  BY <2>1, <2>2 DEF Facts
<1>8. \A f \in known : f \in Facts(t) /\ f[1] \in Below(t, layer)
  <2>1. \A f \in Facts(t) : f[1] \in Logic(t)
    BY DEF Facts
  <2> QED  BY <2>1 DEF GraphOn
<1>9. \A v \in unset : <<v, t.init[v]>> \in left /\ <<v, t.init[v]>>[1] = v
  OBVIOUS
<1> HIDE DEF left
<1>10. \A v \in unset : v \in derived /\ \A f \in model : f[1] # v
  OBVIOUS
<1>11. \A v \in derived : v \in unset \/ \E f \in model : f[1] = v
  OBVIOUS
<1> HIDE DEF unset, derived
<1>12. new \subseteq Facts(t)
  BY <1>6, <1>7, <1>8
<1>13. ASSUME NEW f \in new, NEW g \in new, f[1] = g[1]  PROVE  f = g
  <2>1. CASE f \in known
    <3>1. g \in known
      BY <1>5, <1>6, <1>7, <1>8, <1>10, <1>13, <2>1
    <3> QED  BY <1>13, <2>1, <3>1 DEF GraphOn
  <2>2. CASE f \in model
    <3>1. g \in model
      BY <1>5, <1>6, <1>7, <1>8, <1>10, <1>13, <2>2
    <3> QED  BY <1>6, <1>13, <2>2, <3>1
  <2>3. CASE f \in left
    <3>1. g \in left
      BY <1>5, <1>6, <1>7, <1>8, <1>10, <1>13, <2>3
    <3> QED  BY <1>7, <1>13, <2>3, <3>1
  <2> QED  BY <2>1, <2>2, <2>3
<1>14. ASSUME NEW v \in Logic(t)
       PROVE  v \in Below(t, layer + 1) <=> \E f \in new : f[1] = v
  <2>1. CASE v \in Below(t, layer)
    BY <1>4, <2>1 DEF GraphOn
  <2>2. CASE v \in derived
    BY <1>4, <1>9, <1>11, <2>2
  <2>3. CASE v \notin Below(t, layer) /\ v \notin derived
    BY <1>4, <1>6, <1>7, <1>8, <1>10, <2>3
  <2> QED  BY <2>1, <2>2, <2>3
<1>15. GraphOn(t, Below(t, layer + 1), new)
  BY <1>12, <1>13, <1>14 DEF GraphOn
<1>16. ASSUME NEW f \in new \ known
       PROVE  /\ f[1] \in Derived(t) /\ t.layer[f[1]] = layer
              /\ f[2] # t.init[f[1]] => f \in model
              /\ f \in model => f[2] # t.init[f[1]]
  <2>1. f[1] \in derived /\ f[1] \in Logic(t)
    BY <1>6, <1>7, <1>10, <1>12 DEF Facts
  <2> QED  BY <1>2, <1>6, <1>7, <2>1
<1> QED  BY <1>1, <1>15, <1>16 DEF model

(* What a state may stand for.                                             *)
Meanings(t) ==
    {s \in [base : [Base(t) -> Nat], nums : [OfType(t, "regular") -> Int]] :
        \A v \in Base(t) : s.base[v] \in 0 .. t.range[v] - 1}

(* A set of facts that gives each variable one value, contains what the    *)
(* rules start from, and is in each layer the least that its rules close.  *)
Stratified(t, s, M) ==
    /\ GraphOn(t, Logic(t), M)
    /\ Given0(t, s) \subseteq M
    /\ \A i \in 1 .. Len(t.rules) : t.rules[i].cond \subseteq M => HeadFact(t, i) \in M
    /\ \A l \in 0 .. LastLayer(t) : \A X :
          /\ \A f \in M : f[1] \in Below(t, l) => f \in X
          /\ \A i \in 1 .. Len(t.rules) :
                t.layer[t.rules[i].var] = l /\ t.rules[i].cond \subseteq X => HeadFact(t, i) \in X
          => \A f \in M : /\ f[1] \in Derived(t) /\ t.layer[f[1]] = l
                          /\ f[2] # t.init[f[1]]
                          => f \in X

(* The facts the rules start from give one value to each given variable.   *)
LEMMA GivenGraph ==
  ASSUME NEW t, WellFormed(t), NEW s \in Meanings(t)
  PROVE  GraphOn(t, Below(t, 0), Given0(t, s))
<1> DEFINE base == {<<v, s.base[v]>> : v \in Base(t)}
           compared == {<<ax.var, Compared(ax, NumbersIn(t, s))>> : ax \in Range(t.comps)}
<1>1. Given0(t, s) = base \cup compared
  BY DEF Given0
<1>2. \A v \in Logic(t) : v \in Below(t, 0) <=> v \in Base(t) \cup ComparisonVars(t)
  <2>1. \A v \in Logic(t) : t.layer[v] \in Int /\ t.layer[v] >= -1
    BY LastLayerOK DEF WellFormed
  <2>2. \A v \in Logic(t) : t.layer[v] < 0 <=> t.layer[v] = -1
    BY <2>1
  <2> QED  BY <2>2, GivenIs DEF Below
<1>3. \A v \in Logic(t) : t.range[v] \in Nat /\ t.range[v] >= 2
  BY DEF WellFormed, VariablesOK, Logic
<1>4. ASSUME NEW f \in base
      PROVE  f[1] \in Base(t) /\ f = <<f[1], s.base[f[1]]>> /\ f \in Facts(t)
  <2>1. PICK v \in Base(t) : f = <<v, s.base[v]>>
    OBVIOUS
  <2>2. v \in Logic(t) /\ s.base[v] \in 0 .. t.range[v] - 1
    BY DEF Base, Meanings
  <2> QED  BY <2>1, <2>2 DEF Facts
<1>5. ASSUME NEW f \in compared
      PROVE  /\ f[1] \in ComparisonVars(t) /\ f \in Facts(t)
             /\ \E k \in 1 .. Len(t.comps) :
                   f = <<t.comps[k].var, Compared(t.comps[k], NumbersIn(t, s))>>
  <2>1. PICK ax \in Range(t.comps) : f = <<ax.var, Compared(ax, NumbersIn(t, s))>>
    OBVIOUS
  <2>2. ax.var \in ComparisonVars(t) /\ ax.var \in Logic(t)
    BY GivenIs DEF ComparisonVars
  <2>3. Compared(ax, NumbersIn(t, s)) \in {0, 1}
    BY DEF Compared
  <2>4. Compared(ax, NumbersIn(t, s)) \in 0 .. t.range[ax.var] - 1
    BY <1>3, <2>2, <2>3
  <2>5. \E k \in 1 .. Len(t.comps) : ax = t.comps[k]
    <3>1. DOMAIN t.comps = 1 .. Len(t.comps)
      BY DEF WellFormed, IsSeq
    <3> QED  BY <3>1 DEF Range
  <2> QED  BY <2>1, <2>2, <2>4, <2>5 DEF Facts
<1>6. \A v \in Base(t) : <<v, s.base[v]>> \in base /\ <<v, s.base[v]>>[1] = v
  OBVIOUS
<1>7. \A v \in ComparisonVars(t) : \E f \in compared : f[1] = v
  <2>1. ASSUME NEW v \in ComparisonVars(t)  PROVE  \E f \in compared : f[1] = v
    <3>1. PICK ax \in Range(t.comps) : v = ax.var
      BY DEF ComparisonVars
    <3>2. <<ax.var, Compared(ax, NumbersIn(t, s))>> \in compared
      OBVIOUS
    <3> HIDE DEF compared
    <3> QED  BY <3>1, <3>2
  <2> QED  BY <2>1
<1>8. Base(t) \cap ComparisonVars(t) = {}
  BY GivenIs
<1> HIDE DEF base, compared
<1>9. ASSUME NEW f \in base \cup compared, NEW g \in base \cup compared, f[1] = g[1]
      PROVE  f = g
  <2>1. CASE f \in base
    <3>1. g \in base
      BY <1>4, <1>5, <1>8, <1>9, <2>1
    <3> QED  BY <1>4, <1>9, <2>1, <3>1
  <2>2. CASE f \in compared
    <3>1. g \in compared
      BY <1>4, <1>5, <1>8, <1>9, <2>2
    <3>2. PICK j \in 1 .. Len(t.comps) :
             f = <<t.comps[j].var, Compared(t.comps[j], NumbersIn(t, s))>>
      BY <1>5, <2>2
    <3>3. PICK k \in 1 .. Len(t.comps) :
             g = <<t.comps[k].var, Compared(t.comps[k], NumbersIn(t, s))>>
      BY <1>5, <3>1
    <3>4. t.comps[j].var = t.comps[k].var
      BY <1>9, <3>2, <3>3
    <3>5. j = k
      BY <3>4 DEF WellFormed, ComparisonsOK
    <3> QED  BY <3>2, <3>3, <3>5
  <2> QED  BY <2>1, <2>2
<1>10. ASSUME NEW v \in Logic(t)
       PROVE  v \in Below(t, 0) <=> \E f \in base \cup compared : f[1] = v
  BY <1>2, <1>4, <1>5, <1>6, <1>7
<1> QED  BY <1>1, <1>4, <1>5, <1>9, <1>10 DEF GraphOn

(* The facts of a state are its stratified model.                          *)
LEMMA FactsStratified ==
  ASSUME NEW t, WellFormed(t), NEW s \in Meanings(t)
  PROVE  Stratified(t, s, FactsIn(t, s))
<1> DEFINE n == LastLayer(t) + 1
<1>1. n \in Nat /\ n - 1 = LastLayer(t) /\ \A v \in Logic(t) : t.layer[v] \in Int /\ t.layer[v] <= n - 1
  BY LastLayerOK DEF WellFormed
<1>2. PICK F : FactsSteps(t, s, F) /\ FactsIn(t, s) = F[n]
  BY <1>1, FactsRun
<1>3. F[0] = Given0(t, s) /\ \A k \in 1 .. n : F[k] = WithLayer(t, F[k - 1], k - 1)
  BY <1>2 DEF FactsSteps
<1>4. \A k \in 0 .. n - 1 : F[k + 1] = WithLayer(t, F[k], k)
  <2>1. ASSUME NEW k \in 0 .. n - 1  PROVE  F[k + 1] = WithLayer(t, F[k], k)
    <3> HIDE DEF n
    <3>1. k + 1 \in 1 .. n /\ (k + 1) - 1 = k
      BY <1>1
    <3> QED  BY <1>3, <3>1
  <2> QED  BY <2>1
<1> DEFINE Good == {k \in 0 .. n : GraphOn(t, Below(t, k), F[k])}
<1>5. 0 \in Good
  BY <1>1, <1>3, GivenGraph
<1>6. ASSUME NEW k \in 0 .. n - 1, k \in Good  PROVE  k + 1 \in Good
  <2>1. GraphOn(t, Below(t, k), F[k]) /\ k \in 0 .. LastLayer(t)
    BY <1>1, <1>6
  <2>2. GraphOn(t, Below(t, k + 1), F[k + 1])
    BY <1>4, <2>1, WithLayerGraph
  <2>3. k + 1 \in 0 .. n
    BY <1>1
  <2> QED  BY <2>2, <2>3
<1>7. \A k \in 0 .. n : GraphOn(t, Below(t, k), F[k])
  <2> HIDE DEF Good
  <2>1. 0 .. n \subseteq Good
    BY <1>1, <1>5, <1>6, Upward
  <2> QED  BY <2>1 DEF Good
<1>8. \A k \in 0 .. n - 1 : F[k] \subseteq F[k + 1]
  <2>1. ASSUME NEW k \in 0 .. n - 1  PROVE  F[k] \subseteq F[k + 1]
    <3>1. k \in 0 .. n /\ k \in 0 .. LastLayer(t)
      BY <1>1
    <3> QED  BY <1>4, <1>7, <3>1, WithLayerGraph
  <2> QED  BY <2>1
<1> DEFINE M == F[n]
           Up(j) == {k \in 0 .. n : k >= j => F[j] \subseteq F[k]}
<1>9. \A k \in 0 .. n : F[k] \subseteq M
  <2>1. ASSUME NEW j \in 0 .. n  PROVE  F[j] \subseteq M
    <3> HIDE DEF n
    <3>1. 0 \in Up(j)
      BY <1>1
    <3>2. ASSUME NEW k \in 0 .. n - 1, k \in Up(j)  PROVE  k + 1 \in Up(j)
      <4>1. CASE k >= j
        BY <1>1, <1>8, <3>2, <4>1
      <4>2. CASE k + 1 = j
        BY <4>2
      <4>3. CASE k + 1 < j
        BY <1>1, <4>3
      <4> QED  BY <1>1, <4>1, <4>2, <4>3
    <3> HIDE DEF Up
    <3>3. 0 .. n \subseteq Up(j)
      BY <1>1, <3>1, <3>2, Upward
    <3>4. n \in Up(j) /\ n >= j
      BY <1>1, <3>3
    <3> QED  BY <3>4 DEF Up
  <2> QED  BY <2>1
<1>10. \A f \in Facts(t) : f[1] \in Logic(t)
  BY DEF Facts
<1>11. GraphOn(t, Logic(t), M)
  <2>1. ASSUME NEW v \in Logic(t)  PROVE  v \in Below(t, n)
    <3> HIDE DEF n
    <3>1. t.layer[v] < n
      BY <1>1
    <3> QED  BY <3>1 DEF Below
  <2> QED  BY <1>1, <1>7, <2>1 DEF GraphOn
<1> HIDE DEF n, Good
<1>12. ASSUME NEW k \in 0 .. n, NEW f \in M, f[1] \in Below(t, k)
       PROVE  f \in F[k]
  <2>1. f[1] \in Logic(t)
    BY <1>12 DEF Below
  <2>2. PICK g \in F[k] : g[1] = f[1]
    BY <1>7, <1>12, <2>1 DEF GraphOn
  <2>3. g \in M
    BY <1>9, <2>2
  <2> QED  BY <1>11, <2>2, <2>3 DEF GraphOn
<1>13. \A k \in 0 .. n : \A f \in F[k] : f[1] \in Below(t, k)
  BY <1>7, <1>10 DEF GraphOn
<1> HIDE DEF M
<1>14. ASSUME NEW l \in 0 .. n - 1, NEW f \in M, f[1] \in Derived(t), t.layer[f[1]] = l,
              f[2] # t.init[f[1]]
       PROVE  f \in LeastModel(t, F[l], l)
  <2>1. l \in 0 .. n /\ l + 1 \in 0 .. n /\ l \in 0 .. LastLayer(t) /\ l \in Int
    BY <1>1
  <2>2. f[1] \in Logic(t) /\ f[1] \notin Given(t)
    BY <1>14, GivenIs
  <2>3. f[1] \in Below(t, l + 1) /\ f[1] \notin Below(t, l)
    BY <1>14, <2>1, <2>2 DEF Below
  <2>4. f \in F[l + 1] /\ f \notin F[l]
    BY <1>12, <1>13, <2>1, <2>3
  <2>5. f \in WithLayer(t, F[l], l) \ F[l]
    BY <1>4, <2>4
  <2> QED  BY <1>7, <1>14, <2>1, <2>5, WithLayerGraph
<1>15. ASSUME NEW i \in 1 .. Len(t.rules), t.rules[i].cond \subseteq M
       PROVE  HeadFact(t, i) \in M
  <2> DEFINE l == t.layer[t.rules[i].var]
  <2>1. l \in 0 .. LastLayer(t) /\ l \in Int
    BY RuleOK
  <2>2. l \in 0 .. n - 1 /\ l \in 0 .. n /\ l + 1 \in 0 .. n
    BY <1>1, <2>1
  <2>3. ASSUME NEW f \in t.rules[i].cond
        PROVE  f \in F[l] \cup LeastModel(t, F[l], l)
    <3>1. f \in M /\ f \in Facts(t) /\ f[1] \in Logic(t)
      BY <1>10, <1>15, <2>3, RuleOK
    <3>2. \/ t.layer[f[1]] < l
          \/ t.layer[f[1]] = l /\ f[2] # t.init[f[1]]
      BY <2>3, RuleOK
    <3>3. CASE f[1] \in Below(t, l)
      BY <1>12, <2>2, <3>1, <3>3
    <3>4. CASE f[1] \notin Below(t, l)
      <4>1. f[1] \notin Given(t) /\ ~(t.layer[f[1]] < l)
        BY <3>1, <3>4 DEF Below
      <4>2. f[1] \in Derived(t)
        BY <3>1, <4>1, GivenIs
      <4> HIDE DEF l
      <4> QED  BY <1>14, <2>2, <3>1, <3>2, <4>1, <4>2
    <3> QED  BY <3>3, <3>4
  <2>4. l = t.layer[t.rules[i].var]
    OBVIOUS
  <2> HIDE DEF l
  <2>5. HeadFact(t, i) \in LeastModel(t, F[l], l)
    BY <2>3, <2>4, LeastModelIs
  <2>6. LeastModel(t, F[l], l) \subseteq WithLayer(t, F[l], l)
    BY <1>7, <2>1, <2>2, WithLayerGraph
  <2> QED  BY <1>4, <1>9, <2>2, <2>5, <2>6
<1>16. ASSUME NEW l \in 0 .. LastLayer(t), NEW X,
              \A f \in M : f[1] \in Below(t, l) => f \in X,
              \A i \in 1 .. Len(t.rules) :
                 t.layer[t.rules[i].var] = l /\ t.rules[i].cond \subseteq X => HeadFact(t, i) \in X,
         NEW f \in M, f[1] \in Derived(t), t.layer[f[1]] = l,
         f[2] # t.init[f[1]]
       PROVE  f \in X
  <2>1. l \in 0 .. n - 1 /\ l \in 0 .. n
    BY <1>1
  <2>2. F[l] \subseteq X
    BY <1>9, <1>13, <1>16, <2>1
  <2>3. \A i \in 1 .. Len(t.rules) :
           /\ t.layer[t.rules[i].var] = l
           /\ t.rules[i].cond \subseteq F[l] \cup X
           => HeadFact(t, i) \in X
    <3>1. F[l] \cup X = X
      BY <2>2
    <3> QED  BY <1>16, <3>1
  <2>4. LeastModel(t, F[l], l) \subseteq X
    BY <2>3, LeastModelIs
  <2> QED  BY <1>14, <1>16, <2>1, <2>4
<1>17. Given0(t, s) \subseteq M
  BY <1>1, <1>3, <1>9
<1>18. FactsIn(t, s) = M
  BY <1>2 DEF M, n
<1> QED  BY <1>11, <1>15, <1>16, <1>17, <1>18 DEF Stratified

(* A task has finitely many facts, and a model one for each variable.      *)
LEMMA FactsFinite ==
  ASSUME NEW t, VariablesOK(t)
  PROVE  IsFiniteSet(Facts(t))
<1> DEFINE n == Len(t.range)
           Upto(k) == {f \in Facts(t) : f[1] \in 1 .. k}
           Good == {k \in 0 .. n : IsFiniteSet(Upto(k))}
<1>1. n \in Nat /\ Logic(t) = 1 .. n /\ \A v \in 1 .. n : t.range[v] \in Nat
  BY DEF VariablesOK, Logic
<1> HIDE DEF n
<1>2. 0 \in Good
  <2>1. Upto(0) = {}
    OBVIOUS
  <2> QED  BY <1>1, <2>1, FS_EmptySet
<1>3. ASSUME NEW k \in 0 .. n - 1, k \in Good  PROVE  k + 1 \in Good
  <2>1. k + 1 \in 1 .. n /\ k + 1 \in 0 .. n
    BY <1>1
  <2> DEFINE new == {k + 1} \X (0 .. t.range[k + 1] - 1)
  <2>2. IsFiniteSet(new)
    <3>1. t.range[k + 1] - 1 \in Int
      BY <1>1, <2>1
    <3>2. IsFiniteSet(0 .. t.range[k + 1] - 1)
      BY <3>1, FS_Interval
    <3>3. IsFiniteSet({k + 1})
      BY FS_Singleton
    <3> QED  BY <3>2, <3>3, FS_Product
  <2>3. Upto(k + 1) \subseteq Upto(k) \cup new
    <3>1. ASSUME NEW f \in Facts(t), f[1] \in 1 .. k + 1, f[1] \notin 1 .. k
          PROVE  f \in new
      <4>1. f[1] = k + 1
        BY <1>1, <3>1
      <4>2. PICK v \in Logic(t) : f \in {v} \X (0 .. t.range[v] - 1)
        BY DEF Facts
      <4> QED  BY <4>1, <4>2
    <3> QED  BY <3>1
  <2> HIDE DEF new, Upto
  <2>4. IsFiniteSet(Upto(k + 1))
    BY <1>3, <2>2, <2>3, FS_Union, FS_Subset
  <2> QED  BY <2>1, <2>4
<1>4. n \in Good
  <2> HIDE DEF Good
  <2>1. 0 .. n \subseteq Good
    BY <1>1, <1>2, <1>3, Upward
  <2> QED  BY <1>1, <2>1
<1>5. Upto(n) = Facts(t)
  BY <1>1 DEF Facts
<1> QED  BY <1>4, <1>5

(* A model has a fact for each variable, and no more.                      *)
LEMMA ModelSize ==
  ASSUME NEW t, VariablesOK(t), NEW M, GraphOn(t, Logic(t), M)
  PROVE  /\ IsFiniteSet(M) /\ Cardinality(M) \in Nat /\ Cardinality(M) <= Len(t.range)
<1> DEFINE n == Len(t.range)
           first == [f \in M |-> f[1]]
<1>1. n \in Nat /\ Logic(t) = 1 .. n
  BY DEF VariablesOK, Logic
<1>2. \A f \in Facts(t) : f[1] \in Logic(t)
  BY DEF Facts
<1>3. first \in Injection(M, 1 .. n)
  <2>1. first \in [M -> 1 .. n]
    BY <1>1, <1>2 DEF GraphOn
  <2>2. \A f, g \in M : first[f] = first[g] => f = g
    BY DEF GraphOn
  <2> QED  BY <2>1, <2>2 DEF Injection, IsInjective
<1>4. IsFiniteSet(1 .. n) /\ Cardinality(1 .. n) = n
  BY <1>1, FS_Interval
<1> HIDE DEF n, first
<1>5. IsFiniteSet(M) /\ Cardinality(M) <= n
  BY <1>3, <1>4, FS_Injection
<1> QED  BY <1>5, FS_CardinalityType DEF n

(* A stack without a literal twice.                                        *)
Distinct(q) == \A i, j \in 1 .. Len(q) : q[i] = q[j] => i = j

(* Pushing a new literal.                                                  *)
LEMMA AppendDistinct ==
  ASSUME NEW A, NEW q \in Seq(A), NEW x \in A, Distinct(q), x \notin Range(q)
  PROVE  /\ Append(q, x) \in Seq(A) /\ Distinct(Append(q, x))
         /\ Range(Append(q, x)) = Range(q) \cup {x}
<1>1. /\ Append(q, x) \in Seq(A) /\ Len(Append(q, x)) = Len(q) + 1 /\ Len(q) \in Nat
      /\ DOMAIN q = 1 .. Len(q) /\ DOMAIN Append(q, x) = 1 .. Len(q) + 1
      /\ \A i \in 1 .. Len(q) : Append(q, x)[i] = q[i]
      /\ Append(q, x)[Len(q) + 1] = x
  OBVIOUS
<1> DEFINE p == Append(q, x)
           n == Len(q)
<1> HIDE DEF p, n
<1>2. \A i \in 1 .. n : p[i] = q[i] /\ q[i] \in Range(q) /\ q[i] # x
  BY <1>1 DEF Range, p, n
<1>3. \A i \in 1 .. n + 1 : i \in 1 .. n \/ i = n + 1
  BY <1>1 DEF n
<1>4. Distinct(p)
  BY <1>1, <1>2, <1>3 DEF Distinct, p, n
<1>5. Range(p) = Range(q) \cup {x}
  <2>1. \A y \in Range(p) : y \in Range(q) \cup {x}
    BY <1>1, <1>2, <1>3 DEF Range, p, n
  <2>2. \A y \in Range(q) : y \in Range(p)
    <3>1. \A i \in 1 .. n : i \in 1 .. n + 1
      BY <1>1 DEF n
    <3> QED  BY <1>1, <1>2, <3>1 DEF Range, p, n
  <2>3. x \in Range(p)
    <3>1. n + 1 \in 1 .. n + 1
      BY <1>1 DEF n
    <3> QED  BY <1>1, <3>1 DEF Range, p, n
  <2> QED  BY <2>1, <2>2, <2>3
<1> QED  BY <1>1, <1>4, <1>5 DEF p

(* Popping the literal on top.                                             *)
LEMMA FrontDistinct ==
  ASSUME NEW A, NEW q \in Seq(A), q # <<>>, Distinct(q)
  PROVE  /\ Front(q) \in Seq(A) /\ Distinct(Front(q))
         /\ Last(q) \in Range(q) /\ Range(Front(q)) = Range(q) \ {Last(q)}
<1> DEFINE n == Len(q)
           p == Front(q)
<1>1. n \in Nat /\ n # 0 /\ DOMAIN q = 1 .. n
  OBVIOUS
<1>2. /\ p \in Seq(A) /\ Len(p) = n - 1 /\ DOMAIN p = 1 .. n - 1
      /\ \A i \in 1 .. n - 1 : p[i] = q[i]
  BY <1>1 DEF Front
<1>3. Last(q) = q[n]
  BY DEF Last
<1> HIDE DEF n, p
<1>4. /\ n \in 1 .. n /\ n \notin 1 .. n - 1
      /\ \A i \in 1 .. n : i \in 1 .. n - 1 \/ i = n
      /\ \A i \in 1 .. n - 1 : i \in 1 .. n
  BY <1>1
<1>5. Distinct(p)
  BY <1>1, <1>2, <1>4 DEF Distinct, n
<1>6. \A i \in 1 .. n - 1 : q[i] # q[n]
  BY <1>4 DEF Distinct, n
<1>7. Range(p) = Range(q) \ {q[n]}
  <2>1. \A y \in Range(p) : y \in Range(q) /\ y # q[n]
    BY <1>1, <1>2, <1>4, <1>6 DEF Range
  <2>2. \A y \in Range(q) : y # q[n] => y \in Range(p)
    BY <1>1, <1>2, <1>4 DEF Range
  <2> QED  BY <2>1, <2>2
<1>8. q[n] \in Range(q)
  BY <1>1, <1>4 DEF Range
<1> QED  BY <1>2, <1>3, <1>5, <1>7, <1>8 DEF p

(* The facts that have been queued when the defaults of the layers below   *)
(* have been: those the rules start from, those a rule gave, those defaults. *)
Value(pk, buf, v) == Get(pk, buf, <<"var", v>>)
Queued(t, pk, buf, layer, v) ==
    \/ v \in Given(t)
    \/ Value(pk, buf, v) # t.init[v]
    \/ t.layer[v] < layer
Seen(t, pk, buf, layer) ==
    {<<v, Value(pk, buf, v)>> : v \in {u \in Logic(t) : Queued(t, pk, buf, layer, u)}}

(* A fact that has been queued is a variable's current value.              *)
LEMMA SeenIs ==
  ASSUME NEW t, NEW pk, NEW buf, NEW layer
  PROVE  /\ \A f \in Seen(t, pk, buf, layer) :
               /\ f[1] \in Logic(t) /\ Queued(t, pk, buf, layer, f[1])
               /\ f = <<f[1], Value(pk, buf, f[1])>> /\ f[2] = Value(pk, buf, f[1])
         /\ \A v \in Logic(t) : Queued(t, pk, buf, layer, v) =>
               <<v, Value(pk, buf, v)>> \in Seen(t, pk, buf, layer)
<1>1. ASSUME NEW f \in Seen(t, pk, buf, layer)
      PROVE  /\ f[1] \in Logic(t) /\ Queued(t, pk, buf, layer, f[1])
             /\ f = <<f[1], Value(pk, buf, f[1])>> /\ f[2] = Value(pk, buf, f[1])
  <2>1. PICK v \in Logic(t) : Queued(t, pk, buf, layer, v) /\ f = <<v, Value(pk, buf, v)>>
    BY DEF Seen
  <2> QED  BY <2>1
<1> QED  BY <1>1 DEF Seen

(* The Horn rules at work from buffer b on: S are the facts followed, C[j] *)
(* those rule j has counted, J the rules applied when their conditions are *)
(* all counted.  No fact is found but those of M.                          *)
Machines(t, pk) ==
    [buf : Stored(t, pk), queue : Seq(Facts(t)), count : [1 .. Len(t.rules) -> Int]]
SameGiven(t, pk, b, buf) ==
    /\ \A v \in OfType(t, "regular") : Get(pk, buf, <<"num", v>>) = Get(pk, b, <<"num", v>>)
    /\ \A v \in Given(t) : Value(pk, buf, v) = Value(pk, b, v)
Counted(t, m, S, C) ==
    \A j \in 1 .. Len(t.rules) :
        C[j] \subseteq S /\ m.count[j] = Cardinality(t.rules[j].cond \ C[j])
Running(t, pk, M, b, layer, S, C, J, m) ==
    /\ m \in Machines(t, pk)
    /\ SameGiven(t, pk, b, m.buf)
    /\ S \subseteq Seen(t, pk, m.buf, layer) /\ Seen(t, pk, m.buf, layer) \subseteq M
    /\ Distinct(m.queue) /\ Range(m.queue) = Seen(t, pk, m.buf, layer) \ S
    /\ Counted(t, m, S, C)
    /\ \A j \in J : t.rules[j].cond \subseteq C[j] => HeadFact(t, j) \in Seen(t, pk, m.buf, layer)

(* A new stack, and nothing else new.                                      *)
LEMMA QueueUpdate ==
  ASSUME NEW A, NEW B, NEW C, NEW m \in [buf : A, queue : B, count : C], NEW q
  PROVE  [m EXCEPT !.queue = q] = [buf |-> m.buf, queue |-> q, count |-> m.count]
  OBVIOUS

(* A new buffer, and nothing else new.                                     *)
LEMMA BufUpdate ==
  ASSUME NEW A, NEW B, NEW C, NEW m \in [buf : A, queue : B, count : C], NEW b
  PROVE  [m EXCEPT !.buf = b] = [buf |-> b, queue |-> m.queue, count |-> m.count]
  OBVIOUS

(* Applying a rule whose conditions are all counted: its fact is new and   *)
(* is pushed, or it was there.                                             *)
LEMMA ChangeRuns ==
  ASSUME NEW t, WellFormed(t), NEW pk, Placing(t, pk),
         NEW M, GraphOn(t, Logic(t), M), NEW b, NEW layer, NEW S, NEW C,
         NEW J, J \subseteq 1 .. Len(t.rules),
         NEW m, Running(t, pk, M, b, layer, S, C, J, m),
         NEW i \in 1 .. Len(t.rules), HeadFact(t, i) \in M
  PROVE  Running(t, pk, M, b, layer, S, C, J \cup {i}, Change(t, pk, m, i))
<1> DEFINE var == t.rules[i].var
           val == t.rules[i].val
           x == <<"var", var>>
           seen == Seen(t, pk, m.buf, layer)
<1>1. /\ var \in Logic(t) /\ var \notin Given(t) /\ val # t.init[var]
      /\ val \in 0 .. t.range[var] - 1 /\ HeadFact(t, i) = <<var, val>> /\ HeadFact(t, i) \in Facts(t)
  BY RuleOK DEF HeadFact
<1>2. /\ m.buf \in Stored(t, pk) /\ m.queue \in Seq(Facts(t))
      /\ m.count \in [1 .. Len(t.rules) -> Int]
  BY DEF Running, Machines
<1>3. CASE Get(pk, m.buf, x) = val
  <2>1. Change(t, pk, m, i) = m
    BY <1>3 DEF Change
  <2>2. HeadFact(t, i) \in seen
    BY <1>1, <1>3, SeenIs DEF Queued, Value
  <2> QED  BY <2>1, <2>2 DEF Running
<1>4. CASE Get(pk, m.buf, x) # val
  <2> DEFINE buf == Put(pk, m.buf, x, val)
             queue == Append(m.queue, <<var, val>>)
             n == [m EXCEPT !.buf = buf, !.queue = queue]
             seen2 == Seen(t, pk, buf, layer)
  <2>1. Change(t, pk, m, i) = n
    BY <1>4 DEF Change
  <2>2. n.buf = buf /\ n.queue = queue /\ n.count = m.count
        /\ n = [buf |-> buf, queue |-> queue, count |-> m.count]
    <3>1. m \in [buf : Stored(t, pk), queue : Seq(Facts(t)), count : [1 .. Len(t.rules) -> Int]]
      BY DEF Running, Machines
    <3>2. n = [buf |-> buf, queue |-> queue, count |-> m.count]
      <4> DEFINE p == [m EXCEPT !.buf = buf]
      <4> HIDE DEF buf, queue
      <4>1. n = [p EXCEPT !.queue = queue]
        BY <3>1
      <4>2. p = [buf |-> buf, queue |-> m.queue, count |-> m.count]
        BY <3>1
      <4> HIDE DEF p
      <4>3. [p EXCEPT !.queue = queue] = [buf |-> buf, queue |-> queue, count |-> m.count]
        BY <4>2
      <4> QED  BY <4>1, <4>3
    <3> HIDE DEF n
    <3> QED  BY <3>2
  <2>3. x \in Packed(t) /\ val \in Values(t, x)
    BY <1>1, <1>2, StoredValue
  <2>4. /\ buf \in Stored(t, pk) /\ Get(pk, buf, x) = val
        /\ \A y \in Packed(t) : y # x => Get(pk, buf, y) = Get(pk, m.buf, y)
    <3> HIDE DEF x, val
    <3> QED  BY <1>2, <2>3, PutStored
  <2> HIDE DEF buf
  <2>5. /\ Value(pk, buf, var) = val
        /\ \A v \in Logic(t) : v # var => Value(pk, buf, v) = Value(pk, m.buf, v)
    <3>1. ASSUME NEW v \in Logic(t), v # var
          PROVE  Value(pk, buf, v) = Value(pk, m.buf, v)
      <4>1. <<"var", v>> \in Packed(t) /\ <<"var", v>> # x
        BY <3>1 DEF Packed
      <4> QED  BY <2>4, <4>1 DEF Value
    <3> QED  BY <2>4, <3>1 DEF Value
  <2>6. \A v \in OfType(t, "regular") : Get(pk, buf, <<"num", v>>) = Get(pk, m.buf, <<"num", v>>)
    <3>1. ASSUME NEW v \in OfType(t, "regular")
          PROVE  Get(pk, buf, <<"num", v>>) = Get(pk, m.buf, <<"num", v>>)
      <4>1. <<"num", v>> \in Packed(t) /\ <<"num", v>> # x
        BY DEF Packed
      <4> QED  BY <2>4, <4>1
    <3> QED  BY <3>1
  <2>7. SameGiven(t, pk, b, buf)
    <3>1. \A v \in Given(t) : v \in Logic(t) /\ v # var
      BY <1>1, GivenIs
    <3> QED  BY <2>5, <2>6, <3>1 DEF SameGiven, Running
  <2>8. seen \subseteq M /\ \A f, g \in M : f[1] = g[1] => f = g
    BY DEF Running, GraphOn
  <2>9. \A f \in seen : f[1] # var
    <3>1. ASSUME NEW f \in seen, f[1] = var  PROVE  FALSE
      <4>1. f = <<var, Value(pk, m.buf, var)>>
        BY <3>1, SeenIs
      <4>2. f = HeadFact(t, i)
        BY <1>1, <2>8, <3>1
      <4> QED  BY <1>1, <1>4, <4>1, <4>2 DEF Value
    <3> QED  BY <3>1
  <2>10. seen2 = seen \cup {HeadFact(t, i)}
    <3>1. ASSUME NEW f \in seen2  PROVE  f \in seen \cup {HeadFact(t, i)}
      <4>1. /\ f[1] \in Logic(t) /\ Queued(t, pk, buf, layer, f[1])
            /\ f = <<f[1], Value(pk, buf, f[1])>>
        BY SeenIs
      <4>2. CASE f[1] = var
        BY <1>1, <2>5, <4>1, <4>2
      <4>3. CASE f[1] # var
        <5>1. Queued(t, pk, m.buf, layer, f[1])
          BY <2>5, <4>1, <4>3 DEF Queued
        <5> QED  BY <2>5, <4>1, <4>3, <5>1, SeenIs
      <4> QED  BY <4>2, <4>3
    <3>2. ASSUME NEW f \in seen  PROVE  f \in seen2
      <4>1. /\ f[1] \in Logic(t) /\ Queued(t, pk, m.buf, layer, f[1])
            /\ f = <<f[1], Value(pk, m.buf, f[1])>>
        BY SeenIs
      <4>2. f[1] # var
        BY <2>9
      <4>3. Queued(t, pk, buf, layer, f[1])
        BY <2>5, <4>1, <4>2 DEF Queued
      <4> QED  BY <2>5, <4>1, <4>2, <4>3, SeenIs
    <3>3. HeadFact(t, i) \in seen2
      <4>1. Queued(t, pk, buf, layer, var)
        BY <1>1, <2>5 DEF Queued
      <4> QED  BY <1>1, <2>5, <4>1, SeenIs
    <3> QED  BY <3>1, <3>2, <3>3
  <2>11. HeadFact(t, i) \notin seen
    BY <1>1, <2>9
  <2>12. /\ S \subseteq seen /\ Distinct(m.queue) /\ Range(m.queue) = seen \ S
         /\ \A j \in J : t.rules[j].cond \subseteq C[j] => HeadFact(t, j) \in seen
         /\ Counted(t, m, S, C)
    BY DEF Running
  <2> HIDE DEF seen, seen2, n
  <2>13. /\ queue \in Seq(Facts(t)) /\ Distinct(queue)
         /\ Range(queue) = Range(m.queue) \cup {HeadFact(t, i)}
    <3>1. HeadFact(t, i) \notin Range(m.queue)
      BY <2>11, <2>12
    <3> DEFINE A == Facts(t)
               q == m.queue
               fact == HeadFact(t, i)
    <3>2. q \in Seq(A) /\ fact \in A /\ Distinct(q) /\ fact \notin Range(q)
      BY <1>1, <1>2, <2>12, <3>1
    <3>3. queue = Append(q, fact)
      BY <1>1
    <3> HIDE DEF A, q, fact, queue
    <3>4. /\ Append(q, fact) \in Seq(A) /\ Distinct(Append(q, fact))
          /\ Range(Append(q, fact)) = Range(q) \cup {fact}
      BY <3>2, AppendDistinct
    <3>5. queue \in Seq(A) /\ Distinct(queue) /\ Range(queue) = Range(q) \cup {fact}
      BY <3>3, <3>4, Zenon
    <3> QED  BY <3>5 DEF A, q, fact
  <2> HIDE DEF queue
  <2>14. n \in Machines(t, pk)
    BY <1>2, <2>2, <2>4, <2>13 DEF Machines
  <2>15. Range(n.queue) = seen2 \ S
    BY <2>2, <2>10, <2>11, <2>12, <2>13
  <2>16. Counted(t, n, S, C)
    BY <2>2, <2>12 DEF Counted
  <2>17. \A j \in J \cup {i} : t.rules[j].cond \subseteq C[j] => HeadFact(t, j) \in seen2
    BY <2>10, <2>12
  <2>18. S \subseteq seen2 /\ seen2 \subseteq M
    BY <2>8, <2>10, <2>12
  <2> QED  BY <2>1, <2>2, <2>7, <2>13, <2>14, <2>15, <2>16, <2>17, <2>18
              DEF Running, seen2
<1> QED  BY <1>3, <1>4

(* The rules, and the sets of facts that all of them close.                *)
AllRules(t) == 1 .. Len(t.rules)
Closed(t, M) ==
    \A i \in AllRules(t) : t.rules[i].cond \subseteq M => HeadFact(t, i) \in M

(* Rule i counts fact f, and is applied when it was the last to be met.    *)
LEMMA CountRuns ==
  ASSUME NEW t, WellFormed(t), NEW pk, Placing(t, pk),
         NEW M, GraphOn(t, Logic(t), M), Closed(t, M), NEW b, NEW layer,
         NEW S, NEW C,
         NEW m, Running(t, pk, M, b, layer, S, C, AllRules(t), m),
         NEW i \in AllRules(t), NEW f \in S, f \notin C[i],
         NEW D, D[i] = C[i] \cup {f}, \A j \in AllRules(t) : j # i => D[j] = C[j]
  PROVE  Running(t, pk, M, b, layer, S, D, AllRules(t),
                 IF f \in t.rules[i].cond THEN OneConditionLess(t, pk, m, i) ELSE m)
<1> DEFINE seen == Seen(t, pk, m.buf, layer)
<1>1. /\ m \in Machines(t, pk) /\ SameGiven(t, pk, b, m.buf)
      /\ S \subseteq seen /\ seen \subseteq M
      /\ Distinct(m.queue) /\ Range(m.queue) = seen \ S
      /\ \A j \in AllRules(t) : /\ C[j] \subseteq S
                                /\ m.count[j] = Cardinality(t.rules[j].cond \ C[j])
      /\ \A j \in AllRules(t) : t.rules[j].cond \subseteq C[j] => HeadFact(t, j) \in seen
  BY DEF Running, Counted, AllRules
<1>2. \A j \in AllRules(t) : D[j] \subseteq S
  BY <1>1
<1>3. CASE f \notin t.rules[i].cond
  <2>1. t.rules[i].cond \ D[i] = t.rules[i].cond \ C[i]
        /\ (t.rules[i].cond \subseteq D[i] => t.rules[i].cond \subseteq C[i])
    BY <1>3
  <2>2. \A j \in AllRules(t) : m.count[j] = Cardinality(t.rules[j].cond \ D[j])
    BY <1>1, <2>1
  <2>3. \A j \in AllRules(t) : t.rules[j].cond \subseteq D[j] => HeadFact(t, j) \in seen
    BY <1>1, <2>1
  <2>4. Running(t, pk, M, b, layer, S, D, AllRules(t), m)
    BY <1>1, <1>2, <2>2, <2>3 DEF Running, Counted, AllRules
  <2> QED  BY <1>3, <2>4
<1>4. CASE f \in t.rules[i].cond
  <2> DEFINE count == [m.count EXCEPT ![i] = @ - 1]
             less == [m EXCEPT !.count[i] = @ - 1]
             n == [buf |-> m.buf, queue |-> m.queue, count |-> count]
  <2>1. /\ m \in [buf : Stored(t, pk), queue : Seq(Facts(t)), count : [AllRules(t) -> Int]]
        /\ m.buf \in Stored(t, pk) /\ m.queue \in Seq(Facts(t)) /\ m.count \in [AllRules(t) -> Int]
    BY <1>1 DEF Machines, AllRules
  <2>2. less = n
    <3> DEFINE Q == Seq(Facts(t))
               R == AllRules(t)
    <3>1. m \in [buf : Stored(t, pk), queue : Q, count : [R -> Int]] /\ i \in R
      BY <2>1
    <3> HIDE DEF Q, R
    <3> QED  BY <3>1
  <2>3. count \in [AllRules(t) -> Int] /\ count[i] = m.count[i] - 1
        /\ \A j \in AllRules(t) : j # i => count[j] = m.count[j]
    BY <2>1
  <2>4. n.buf = m.buf /\ n.queue = m.queue /\ n.count = count
    OBVIOUS
  <2>5. n \in Machines(t, pk)
    BY <2>1, <2>3 DEF Machines, AllRules
  <2>6. IsFiniteSet(t.rules[i].cond \ C[i]) /\ IsFiniteSet(t.rules[i].cond \ D[i])
    <3>1. IsFiniteSet(Facts(t)) /\ t.rules[i].cond \subseteq Facts(t)
      BY FactsFinite, RuleOK DEF WellFormed, AllRules
    <3>2. /\ t.rules[i].cond \ C[i] \in SUBSET Facts(t)
          /\ t.rules[i].cond \ D[i] \in SUBSET Facts(t)
      BY <3>1
    <3> HIDE DEF n, less, count
    <3> QED  BY <3>1, <3>2, FS_Subset
  <2>7. Cardinality(t.rules[i].cond \ D[i]) = Cardinality(t.rules[i].cond \ C[i]) - 1
    <3>1. t.rules[i].cond \ D[i] = (t.rules[i].cond \ C[i]) \ {f}
      OBVIOUS
    <3>2. f \in t.rules[i].cond \ C[i]
      BY <1>4
    <3> HIDE DEF n, less, count
    <3> QED  BY <2>6, <3>1, <3>2, FS_RemoveElement
  <2>8. OneConditionLess(t, pk, m, i) = IF n.count[i] = 0 THEN Change(t, pk, n, i) ELSE n
    BY <2>2 DEF OneConditionLess
  <2> HIDE DEF n, less, count
  <2>9. \A j \in AllRules(t) : count[j] = Cardinality(t.rules[j].cond \ D[j])
    BY <1>1, <2>3, <2>7
  <2>10. \A j \in AllRules(t) \ {i} : t.rules[j].cond \subseteq D[j] => HeadFact(t, j) \in seen
    BY <1>1
  <2>11. Running(t, pk, M, b, layer, S, D, AllRules(t) \ {i}, n)
    BY <1>1, <1>2, <2>4, <2>5, <2>9, <2>10 DEF Running, Counted, AllRules
  <2>12. CASE count[i] = 0
    <3>1. t.rules[i].cond \ D[i] = {}
      BY <2>6, <2>9, <2>12, FS_EmptySet
    <3>2. t.rules[i].cond \subseteq M
      BY <1>1, <1>2, <3>1
    <3>3. HeadFact(t, i) \in M
      BY <3>2 DEF Closed
    <3>4. (AllRules(t) \ {i}) \cup {i} = AllRules(t) /\ AllRules(t) \ {i} \subseteq 1 .. Len(t.rules)
          /\ i \in 1 .. Len(t.rules)
      BY DEF AllRules
    <3>5. Running(t, pk, M, b, layer, S, D, (AllRules(t) \ {i}) \cup {i}, Change(t, pk, n, i))
      BY <2>11, <3>3, <3>4, ChangeRuns
    <3> QED  BY <1>4, <2>4, <2>8, <2>12, <3>4, <3>5
  <2>13. CASE count[i] # 0
    <3>1. ~(t.rules[i].cond \subseteq D[i])
      <4>1. t.rules[i].cond \ D[i] # {}
        BY <2>9, <2>13, FS_EmptySet
      <4> QED  BY <4>1
    <3>2. Running(t, pk, M, b, layer, S, D, AllRules(t), n)
      BY <2>4, <2>10, <2>11, <3>1 DEF Running
    <3> QED  BY <1>4, <2>4, <2>8, <2>13, <3>2
  <2> QED  BY <2>12, <2>13
<1> QED  BY <1>3, <1>4

(* The rules have all counted just the facts of S.                         *)
Following(t, pk, M, b, layer, S, m) ==
    Running(t, pk, M, b, layer, S, [j \in AllRules(t) |-> S], AllRules(t), m)

(* Following the literal on top of the stack: the rules count one fact     *)
(* more.                                                                   *)
LEMMA FollowRuns ==
  ASSUME NEW t, WellFormed(t), NEW pk, Placing(t, pk),
         NEW M, GraphOn(t, Logic(t), M), Closed(t, M), NEW b, NEW layer, NEW S,
         NEW m, Following(t, pk, M, b, layer, S, m), m.queue # <<>>
  PROVE  \E f : f \notin S /\ Following(t, pk, M, b, layer, S \cup {f}, Follow(t, pk, m))
<1> DEFINE f == Last(m.queue)
           n == Len(t.rules)
           m0 == [m EXCEPT !.queue = Front(@)]
           C(k) == [j \in AllRules(t) |-> IF j <= k THEN S \cup {f} ELSE S]
<1>1. n \in Nat /\ AllRules(t) = 1 .. n
  BY DEF WellFormed, IsSeq, AllRules
<1>2. PICK F : FollowSteps(t, pk, m, F) /\ Follow(t, pk, m) = F[n]
  BY <1>1, FollowRun
<1>3. /\ F[0] = m0
      /\ \A k \in 1 .. n : F[k] = IF f \in t.rules[k].cond
                                  THEN OneConditionLess(t, pk, F[k - 1], k) ELSE F[k - 1]
  BY <1>2 DEF FollowSteps
<1> DEFINE seen == Seen(t, pk, m.buf, layer)
<1>4. /\ m \in Machines(t, pk) /\ SameGiven(t, pk, b, m.buf)
      /\ S \subseteq seen /\ seen \subseteq M
      /\ Distinct(m.queue) /\ Range(m.queue) = seen \ S
      /\ \A j \in AllRules(t) : m.count[j] = Cardinality(t.rules[j].cond \ S)
      /\ \A j \in AllRules(t) : t.rules[j].cond \subseteq S => HeadFact(t, j) \in seen
  BY DEF Following, Running, Counted, AllRules
<1>5. /\ m \in [buf : Stored(t, pk), queue : Seq(Facts(t)), count : [AllRules(t) -> Int]]
      /\ m.buf \in Stored(t, pk) /\ m.queue \in Seq(Facts(t)) /\ m.count \in [AllRules(t) -> Int]
  BY <1>4 DEF Machines, AllRules
<1>6. /\ Front(m.queue) \in Seq(Facts(t)) /\ Distinct(Front(m.queue))
      /\ f \in seen \ S /\ Range(Front(m.queue)) = seen \ (S \cup {f})
  <2>1. /\ Front(m.queue) \in Seq(Facts(t)) /\ Distinct(Front(m.queue))
        /\ Last(m.queue) \in Range(m.queue)
        /\ Range(Front(m.queue)) = Range(m.queue) \ {Last(m.queue)}
    BY <1>4, <1>5, FrontDistinct
  <2> QED  BY <1>4, <2>1
<1>7. m0 = [buf |-> m.buf, queue |-> Front(m.queue), count |-> m.count]
  <2>1. m0 = [m EXCEPT !.queue = Front(m.queue)]
    BY <1>5
  <2> QED  BY <1>5, <2>1, QueueUpdate
<1>8. /\ m0.buf = m.buf /\ m0.queue = Front(m.queue) /\ m0.count = m.count
      /\ m0 \in Machines(t, pk)
  <2> HIDE DEF m0
  <2>1. m0.buf = m.buf /\ m0.queue = Front(m.queue) /\ m0.count = m.count
    BY <1>7
  <2> QED  BY <1>5, <1>6, <1>7, <2>1 DEF Machines, AllRules
<1> DEFINE T == S \cup {f}
           Good == {k \in 0 .. n : Running(t, pk, M, b, layer, T, C(k), AllRules(t), F[k])}
<1> HIDE DEF f, m0, n
<1>9. 0 \in Good
  <2>1. \A j \in AllRules(t) : C(0)[j] = S
    BY <1>1
  <2> HIDE DEF C
  <2>2. \A j \in 1 .. Len(t.rules) : /\ C(0)[j] \subseteq T
                                     /\ m0.count[j] = Cardinality(t.rules[j].cond \ C(0)[j])
    BY <1>4, <1>8, <2>1 DEF AllRules
  <2>3. Counted(t, m0, T, C(0))
    BY <2>2 DEF Counted
  <2>4. T \subseteq seen
    BY <1>4, <1>6
  <2>5. \A j \in AllRules(t) : t.rules[j].cond \subseteq C(0)[j] => HeadFact(t, j) \in seen
    BY <1>4, <2>1
  <2> HIDE DEF T
  <2>6. Range(m0.queue) = seen \ T
    BY <1>6, <1>8 DEF T
  <2>7. Running(t, pk, M, b, layer, T, C(0), AllRules(t), m0)
    BY <1>4, <1>6, <1>8, <2>3, <2>4, <2>5, <2>6 DEF Running
  <2> QED  BY <1>1, <1>3, <2>7
<1>10. ASSUME NEW k \in 0 .. n - 1, k \in Good  PROVE  k + 1 \in Good
  <2>1. k + 1 \in 1 .. n /\ k + 1 \in 0 .. n /\ (k + 1) - 1 = k /\ k \in Int
    BY <1>1
  <2>2. F[k + 1] = IF f \in t.rules[k + 1].cond THEN OneConditionLess(t, pk, F[k], k + 1) ELSE F[k]
    BY <1>3, <2>1
  <2>3. /\ C(k)[k + 1] = S /\ C(k + 1)[k + 1] = T
        /\ \A j \in AllRules(t) : j # k + 1 => C(k + 1)[j] = C(k)[j]
    BY <1>1, <2>1
  <2>4. Running(t, pk, M, b, layer, T, C(k), AllRules(t), F[k])
    BY <1>10
  <2>5. f \in T /\ f \notin S /\ T = S \cup {f}
    BY <1>6
  <2>6. k + 1 \in AllRules(t)
    BY <1>1, <2>1
  <2> HIDE DEF C, T
  <2>7. f \notin C(k)[k + 1] /\ C(k + 1)[k + 1] = C(k)[k + 1] \cup {f}
    BY <2>3, <2>5
  <2>8. Running(t, pk, M, b, layer, T, C(k + 1), AllRules(t),
                IF f \in t.rules[k + 1].cond THEN OneConditionLess(t, pk, F[k], k + 1) ELSE F[k])
    BY <2>3, <2>4, <2>5, <2>6, <2>7, CountRuns
  <2> QED  BY <2>1, <2>2, <2>8
<1>11. n \in Good
  <2> HIDE DEF Good
  <2>1. 0 .. n \subseteq Good
    BY <1>1, <1>9, <1>10, Upward
  <2> QED  BY <1>1, <2>1
<1>12. C(n) = [j \in AllRules(t) |-> T]
  BY <1>1
<1>13. Following(t, pk, M, b, layer, T, Follow(t, pk, m))
  BY <1>2, <1>11, <1>12 DEF Following, n
<1> QED  BY <1>6, <1>13

(* As many steps as there are variables empty the queue.                   *)
LEMMA HornRuns ==
  ASSUME NEW t, WellFormed(t), NEW pk, Placing(t, pk),
         NEW M, GraphOn(t, Logic(t), M), Closed(t, M), NEW b, NEW layer, NEW S,
         NEW m, Following(t, pk, M, b, layer, S, m)
  PROVE  LET n == ApplyHornRules(t, pk, m)
         IN  n.queue = <<>> /\ Following(t, pk, M, b, layer, Seen(t, pk, n.buf, layer), n)
<1> DEFINE n == Len(t.range)
           Reached(m2, k) ==
             \E S2 : /\ Following(t, pk, M, b, layer, S2, m2)
                     /\ m2.queue = <<>> \/ Cardinality(S2) >= k
<1>1. n \in Nat
  BY DEF WellFormed, VariablesOK
<1>2. IsFiniteSet(M) /\ Cardinality(M) \in Nat /\ Cardinality(M) <= n
  BY ModelSize DEF WellFormed
<1>3. ASSUME NEW S2, NEW m2, Following(t, pk, M, b, layer, S2, m2)
      PROVE  /\ S2 \subseteq Seen(t, pk, m2.buf, layer) /\ Seen(t, pk, m2.buf, layer) \subseteq M
             /\ Range(m2.queue) = Seen(t, pk, m2.buf, layer) \ S2
             /\ m2.queue \in Seq(Facts(t)) /\ IsFiniteSet(S2) /\ Cardinality(S2) \in Nat
  <2>1. /\ S2 \subseteq Seen(t, pk, m2.buf, layer) /\ Seen(t, pk, m2.buf, layer) \subseteq M
        /\ Range(m2.queue) = Seen(t, pk, m2.buf, layer) \ S2
        /\ m2.queue \in Seq(Facts(t))
    BY <1>3 DEF Following, Running, Machines
  <2>2. IsFiniteSet(S2)
    BY <1>2, <2>1, FS_Subset
  <2> QED  BY <2>1, <2>2, FS_CardinalityType
<1>4. PICK F : HornSteps(t, pk, m, F) /\ ApplyHornRules(t, pk, m) = F[n]
  BY <1>1, HornRun
<1>5. /\ F[0] = m
      /\ \A k \in 1 .. n : F[k] = IF F[k - 1].queue = <<>> THEN F[k - 1]
                                  ELSE Follow(t, pk, F[k - 1])
  BY <1>4 DEF HornSteps
<1> DEFINE Good == {k \in 0 .. n : Reached(F[k], k)}
<1> HIDE DEF n
<1>6. 0 \in Good
  <2>1. Cardinality(S) >= 0
    BY <1>3
  <2>2. Reached(m, 0)
    BY <2>1
  <2> QED  BY <1>1, <1>5, <2>2
<1>7. ASSUME NEW k \in 0 .. n - 1, k \in Good  PROVE  k + 1 \in Good
  <2>1. k + 1 \in 1 .. n /\ k + 1 \in 0 .. n /\ (k + 1) - 1 = k /\ k \in Int
    BY <1>1
  <2>2. F[k + 1] = IF F[k].queue = <<>> THEN F[k] ELSE Follow(t, pk, F[k])
    BY <1>5, <2>1
  <2>3. PICK S2 : /\ Following(t, pk, M, b, layer, S2, F[k])
                  /\ F[k].queue = <<>> \/ Cardinality(S2) >= k
    BY <1>7
  <2>4. CASE F[k].queue = <<>>
    <3>1. Reached(F[k + 1], k + 1)
      BY <2>2, <2>3, <2>4
    <3> QED  BY <2>1, <3>1
  <2>5. CASE F[k].queue # <<>>
    <3>1. PICK f : f \notin S2 /\ Following(t, pk, M, b, layer, S2 \cup {f}, Follow(t, pk, F[k]))
      BY <2>3, <2>5, FollowRuns
    <3>2. IsFiniteSet(S2) /\ Cardinality(S2) \in Nat
      BY <1>3, <2>3
    <3>3. Cardinality(S2 \cup {f}) = Cardinality(S2) + 1
      BY <3>1, <3>2, FS_AddElement
    <3>4. Cardinality(S2 \cup {f}) >= k + 1
      BY <2>1, <2>3, <2>5, <3>2, <3>3
    <3>5. Reached(F[k + 1], k + 1)
      BY <2>2, <2>5, <3>1, <3>4
    <3> QED  BY <2>1, <3>5
  <2> QED  BY <2>4, <2>5
<1>8. n \in Good
  <2> HIDE DEF Good
  <2>1. 0 .. n \subseteq Good
    BY <1>1, <1>6, <1>7, Upward
  <2> QED  BY <1>1, <2>1
<1>9. PICK S2 : /\ Following(t, pk, M, b, layer, S2, F[n])
                /\ F[n].queue = <<>> \/ Cardinality(S2) >= n
  BY <1>8
<1> DEFINE seen == Seen(t, pk, F[n].buf, layer)
<1>10. /\ S2 \subseteq seen /\ seen \subseteq M /\ Range(F[n].queue) = seen \ S2
       /\ F[n].queue \in Seq(Facts(t)) /\ IsFiniteSet(S2) /\ Cardinality(S2) \in Nat
  BY <1>3, <1>9
<1>11. F[n].queue = <<>> <=> Range(F[n].queue) = {}
  <2>1. DOMAIN F[n].queue = 1 .. Len(F[n].queue) /\ Len(F[n].queue) \in Nat
    BY <1>10
  <2>2. CASE F[n].queue = <<>>
    BY <2>2 DEF Range
  <2>3. CASE F[n].queue # <<>>
    <3>1. Len(F[n].queue) # 0
      BY <1>10, <2>3
    <3>2. 1 \in DOMAIN F[n].queue
      BY <2>1, <3>1
    <3> QED  BY <2>3, <3>2 DEF Range
  <2> QED  BY <2>2, <2>3
<1>12. S2 = seen
  <2>1. CASE F[n].queue = <<>>
    BY <1>10, <1>11, <2>1
  <2>2. CASE Cardinality(S2) >= n
    <3>1. S2 \in SUBSET M
      BY <1>10
    <3>2. Cardinality(S2) <= Cardinality(M) /\ (Cardinality(M) = Cardinality(S2) => M = S2)
      BY <1>2, <3>1, FS_Subset
    <3>3. Cardinality(M) = Cardinality(S2)
      BY <1>1, <1>2, <1>10, <2>2, <3>2
    <3> QED  BY <1>10, <3>2, <3>3
  <2> QED  BY <1>9, <2>1, <2>2
<1>13. F[n].queue = <<>>
  BY <1>10, <1>11, <1>12
<1> QED  BY <1>4, <1>9, <1>12, <1>13 DEF n

(* The facts queued for a layer stay queued for the next.                  *)
LEMMA SeenGrows ==
  ASSUME NEW t, WellFormed(t), NEW pk, NEW buf, NEW layer \in Int
  PROVE  Seen(t, pk, buf, layer) \subseteq Seen(t, pk, buf, layer + 1)
<1>1. ASSUME NEW f \in Seen(t, pk, buf, layer)
      PROVE  f \in Seen(t, pk, buf, layer + 1)
  <2>1. /\ f[1] \in Logic(t) /\ Queued(t, pk, buf, layer, f[1])
        /\ f = <<f[1], Value(pk, buf, f[1])>>
    BY SeenIs
  <2>2. t.layer[f[1]] \in Int
    BY <2>1, LastLayerOK DEF WellFormed
  <2>3. Queued(t, pk, buf, layer + 1, f[1])
    BY <2>1, <2>2 DEF Queued
  <2> QED  BY <2>1, <2>3, SeenIs
<1> QED  BY <1>1

(* When the queue of a layer is empty, the defaults that are left in it    *)
(* are facts, and none is of a variable that the rules start from.         *)
LEMMA LayerComplete ==
  ASSUME NEW t, WellFormed(t), NEW pk, NEW s, NEW M, Stratified(t, s, M),
         NEW b, NEW layer \in 0 .. LastLayer(t), NEW m,
         Following(t, pk, M, b, layer, Seen(t, pk, m.buf, layer), m)
  PROVE  /\ Seen(t, pk, m.buf, layer + 1) \subseteq M
         /\ \A v \in Logic(t) : t.layer[v] = layer /\ Value(pk, m.buf, v) = t.init[v]
                                => v \notin Given(t)
<1> DEFINE seen == Seen(t, pk, m.buf, layer)
<1>1. /\ seen \subseteq M
      /\ \A j \in AllRules(t) : t.rules[j].cond \subseteq seen => HeadFact(t, j) \in seen
  BY DEF Following, Running
<1>2. GraphOn(t, Logic(t), M)
  BY DEF Stratified
<1>3. \A f, g \in M : f[1] = g[1] => f = g
  BY <1>2 DEF GraphOn
<1>4. \A v \in Logic(t) : t.layer[v] \in Int
  BY LastLayerOK DEF WellFormed
<1>5. ASSUME NEW f \in M, f[1] \in Below(t, layer)  PROVE  f \in seen
  <2>1. f[1] \in Logic(t) /\ Queued(t, pk, m.buf, layer, f[1])
    BY <1>5 DEF Below, Queued
  <2>2. <<f[1], Value(pk, m.buf, f[1])>> \in seen
    BY <2>1, SeenIs
  <2> QED  BY <1>1, <1>3, <2>2
<1> HIDE DEF seen
<1>6. ASSUME NEW f \in M, f[1] \in Derived(t), t.layer[f[1]] = layer, f[2] # t.init[f[1]]
      PROVE  f \in seen
  <2>1. \A f2 \in M : f2[1] \in Below(t, layer) => f2 \in seen
    BY <1>5
  <2>2. \A i \in 1 .. Len(t.rules) :
           t.layer[t.rules[i].var] = layer /\ t.rules[i].cond \subseteq seen
           => HeadFact(t, i) \in seen
    BY <1>1 DEF AllRules
  <2> QED  BY <1>6, <2>1, <2>2 DEF Stratified
<1>7. ASSUME NEW f \in Seen(t, pk, m.buf, layer + 1)  PROVE  f \in M
  <2>1. f[1] \in Logic(t) /\ Queued(t, pk, m.buf, layer + 1, f[1])
        /\ f = <<f[1], Value(pk, m.buf, f[1])>>
    BY SeenIs
  <2>2. CASE Queued(t, pk, m.buf, layer, f[1])
    <3>1. f \in seen
      BY <2>1, <2>2, SeenIs DEF seen
    <3> QED  BY <1>1, <3>1
  <2>3. CASE ~Queued(t, pk, m.buf, layer, f[1])
    <3>1. /\ f[1] \notin Given(t) /\ t.layer[f[1]] = layer
          /\ Value(pk, m.buf, f[1]) = t.init[f[1]]
      BY <1>4, <2>1, <2>3 DEF Queued
    <3>2. f[1] \in Derived(t)
      BY <2>1, <3>1, GivenIs
    <3>3. PICK g \in M : g[1] = f[1]
      BY <1>2, <2>1 DEF GraphOn
    <3>4. g[2] = t.init[f[1]]
      <4>1. ASSUME g[2] # t.init[f[1]]  PROVE  FALSE
        <5>1. g \in seen
          BY <1>6, <3>1, <3>2, <3>3, <4>1
        <5>2. g[2] = Value(pk, m.buf, g[1])
          BY <5>1, SeenIs DEF seen
        <5> QED  BY <3>1, <3>3, <4>1, <5>2
      <4> QED  BY <4>1
    <3>5. g = <<g[1], g[2]>>
      <4>1. g \in Facts(t)
        BY <1>2, <3>3 DEF GraphOn
      <4> QED  BY <4>1 DEF Facts
    <3> QED  BY <2>1, <3>1, <3>3, <3>4, <3>5
  <2> QED  BY <2>2, <2>3
<1>8. ASSUME NEW v \in Logic(t), t.layer[v] = layer, Value(pk, m.buf, v) = t.init[v],
             v \in Given(t)
      PROVE  FALSE
  <2>1. v \in ComparisonVars(t)
    <3>1. t.layer[v] # -1
      BY <1>8
    <3> QED  BY <1>8, <3>1, GivenIs
  <2>2. PICK ax \in Range(t.comps) : v = ax.var
    BY <2>1 DEF ComparisonVars
  <2>3. <<v, Compared(ax, NumbersIn(t, s))>> \in M
    BY <2>2 DEF Stratified, Given0
  <2>4. <<v, Value(pk, m.buf, v)>> \in M
    <3>1. Queued(t, pk, m.buf, layer, v)
      BY <1>8 DEF Queued
    <3>2. <<v, Value(pk, m.buf, v)>> \in seen
      BY <3>1, SeenIs DEF seen
    <3> QED  BY <1>1, <3>2
  <2>5. <<v, Compared(ax, NumbersIn(t, s))>> = <<v, Value(pk, m.buf, v)>>
    BY <1>3, <2>3, <2>4
  <2>6. Value(pk, m.buf, v) \in {0, 1}
    BY <2>5 DEF Compared
  <2>7. t.init[v] \notin {0, 1}
    <3>1. PICK k \in 1 .. Len(t.comps) : ax = t.comps[k]
      <4>1. DOMAIN t.comps = 1 .. Len(t.comps)
        BY DEF WellFormed, IsSeq
      <4> QED  BY <4>1 DEF Range
    <3> QED  BY <2>2, <3>1 DEF WellFormed, ComparisonsOK
  <2> QED  BY <1>8, <2>6, <2>7
<1> QED  BY <1>7, <1>8

(* The defaults pushed after a layer are those its variables still have,   *)
(* once each.                                                              *)
LEMMA DefaultsAre ==
  ASSUME NEW t, WellFormed(t), NEW pk, NEW buf, NEW layer
  PROVE  LET q == Defaults(t, pk, buf, layer)
         IN  /\ q \in Seq(Facts(t)) /\ Distinct(q)
             /\ \A f : f \in Range(q) <=>
                  \E v \in Logic(t) : /\ t.layer[v] = layer /\ Value(pk, buf, v) = t.init[v]
                                      /\ f = <<v, t.init[v]>>
<1> DEFINE n == Len(t.range)
           Left(v) == t.layer[v] = layer /\ Value(pk, buf, v) = t.init[v]
           Is(q, k) == /\ q \in Seq(Facts(t)) /\ Distinct(q)
                       /\ \A f : f \in Range(q) <=>
                            \E v \in 1 .. k : Left(v) /\ f = <<v, t.init[v]>>
<1>1. n \in Nat /\ Logic(t) = 1 .. n
      /\ \A v \in 1 .. n : <<v, t.init[v]>> \in Facts(t)
  <2>1. n \in Nat /\ Logic(t) = 1 .. n /\ \A v \in Logic(t) : t.init[v] \in 0 .. t.range[v] - 1
    BY DEF WellFormed, VariablesOK, Logic
  <2> QED  BY <2>1 DEF Facts
<1>2. PICK F : DefaultsSteps(t, pk, buf, layer, F) /\ Defaults(t, pk, buf, layer) = F[n]
  BY <1>1, DefaultsRun
<1>3. /\ F[0] = <<>>
      /\ \A k \in 1 .. n : F[k] = IF Left(k) THEN Append(F[k - 1], <<k, t.init[k]>>)
                                  ELSE F[k - 1]
  <2>1. \A k : Left(k) <=> t.layer[k] = layer /\ Holds(pk, buf, {<<k, t.init[k]>>})
    BY DEF Holds, Value
  <2> QED  BY <1>2, <2>1 DEF DefaultsSteps
<1> DEFINE Good == {k \in 0 .. n : Is(F[k], k)}
<1> HIDE DEF n, Left
<1>4. 0 \in Good
  <2>1. <<>> \in Seq(Facts(t)) /\ Distinct(<<>>) /\ Range(<<>>) = {}
    BY DEF Distinct, Range
  <2>2. 1 .. 0 = {}
    OBVIOUS
  <2>3. Is(F[0], 0)
    BY <1>3, <2>1, <2>2
  <2> QED  BY <1>1, <2>3
<1>5. ASSUME NEW k \in 0 .. n - 1, k \in Good  PROVE  k + 1 \in Good
  <2>1. k + 1 \in 1 .. n /\ k + 1 \in 0 .. n /\ (k + 1) - 1 = k /\ k \in Int
    BY <1>1
  <2>2. F[k + 1] = IF Left(k + 1) THEN Append(F[k], <<k + 1, t.init[k + 1]>>) ELSE F[k]
    BY <1>3, <2>1
  <2>3. \A v : v \in 1 .. k + 1 <=> v \in 1 .. k \/ v = k + 1
    BY <2>1
  <2>4. Is(F[k], k)
    BY <1>5
  <2>5. CASE ~Left(k + 1)
    <3>1. Is(F[k + 1], k + 1)
      BY <2>2, <2>3, <2>4, <2>5
    <3> QED  BY <2>1, <3>1
  <2>6. CASE Left(k + 1)
    <3> DEFINE x == <<k + 1, t.init[k + 1]>>
    <3>1. x \in Facts(t)
      BY <1>1, <2>1
    <3>2. x \notin Range(F[k])
      <4>1. \A v \in 1 .. k : <<v, t.init[v]>> # x
        <5>1. \A v \in 1 .. k : v # k + 1
          BY <2>1
        <5> QED  BY <5>1
      <4> HIDE DEF x
      <4> QED  BY <2>4, <4>1
    <3>3. Append(F[k], x) \in Seq(Facts(t)) /\ Distinct(Append(F[k], x))
          /\ Range(Append(F[k], x)) = Range(F[k]) \cup {x}
      <4> HIDE DEF x
      <4> QED  BY <2>4, <3>1, <3>2, AppendDistinct
    <3>4. \A f : f \in Range(Append(F[k], x)) <=>
                   \E v \in 1 .. k + 1 : Left(v) /\ f = <<v, t.init[v]>>
      BY <2>3, <2>4, <2>6, <3>3
    <3>5. Is(F[k + 1], k + 1)
      BY <2>2, <2>6, <3>3, <3>4
    <3> QED  BY <2>1, <3>5
  <2> QED  BY <2>5, <2>6
<1>6. n \in Good
  <2> HIDE DEF Good
  <2>1. 0 .. n \subseteq Good
    BY <1>1, <1>4, <1>5, Upward
  <2> QED  BY <1>1, <2>1
<1>7. Is(F[n], n)
  BY <1>6
<1> QED  BY <1>1, <1>2, <1>7 DEF Left

(* A layer finds only facts of the model, and the last one all that the    *)
(* rules and the defaults give.                                            *)
LEMMA LayerRuns ==
  ASSUME NEW t, WellFormed(t), NEW pk, Placing(t, pk), NEW s, NEW M,
         Stratified(t, s, M),
         NEW b, NEW layer \in 0 .. LastLayer(t), NEW S, NEW m,
         Following(t, pk, M, b, layer, S, m)
  PROVE  LET n == ApplyLayer(t, pk, m, layer)
         IN  IF layer = LastLayer(t)
             THEN /\ n.buf \in Stored(t, pk) /\ SameGiven(t, pk, b, n.buf)
                  /\ Seen(t, pk, n.buf, layer + 1) \subseteq M
             ELSE \E S2 : Following(t, pk, M, b, layer + 1, S2, n)
<1> DEFINE h == ApplyHornRules(t, pk, m)
           seen == Seen(t, pk, h.buf, layer)
           seen2 == Seen(t, pk, h.buf, layer + 1)
           q == Defaults(t, pk, h.buf, layer)
           n == [h EXCEPT !.queue = q]
<1>0. GraphOn(t, Logic(t), M) /\ Closed(t, M) /\ layer \in Int
  BY DEF Stratified, Closed, AllRules
<1>1. h.queue = <<>> /\ Following(t, pk, M, b, layer, seen, h)
  BY <1>0, HornRuns
<1>2. ApplyLayer(t, pk, m, layer) = IF layer = LastLayer(t) THEN h ELSE n
  BY DEF ApplyLayer
<1> HIDE DEF h
<1>3. /\ seen2 \subseteq M
      /\ \A v \in Logic(t) : t.layer[v] = layer /\ Value(pk, h.buf, v) = t.init[v]
                             => v \notin Given(t)
  BY <1>1, LayerComplete
<1>4. /\ h \in Machines(t, pk) /\ SameGiven(t, pk, b, h.buf)
      /\ \A j \in AllRules(t) : h.count[j] = Cardinality(t.rules[j].cond \ seen)
      /\ \A j \in AllRules(t) : t.rules[j].cond \subseteq seen => HeadFact(t, j) \in seen
  BY <1>1 DEF Following, Running, Counted, AllRules
<1>5. h \in [buf : Stored(t, pk), queue : Seq(Facts(t)), count : [AllRules(t) -> Int]]
      /\ h.buf \in Stored(t, pk) /\ h.count \in [AllRules(t) -> Int]
  BY <1>4 DEF Machines, AllRules
<1>6. seen \subseteq seen2
  BY <1>0, SeenGrows
<1>7. /\ q \in Seq(Facts(t)) /\ Distinct(q)
      /\ \A f : f \in Range(q) <=>
           \E v \in Logic(t) : /\ t.layer[v] = layer /\ Value(pk, h.buf, v) = t.init[v]
                               /\ f = <<v, t.init[v]>>
  BY DefaultsAre
<1>8. \A v \in Logic(t) : t.layer[v] \in Int
  BY LastLayerOK DEF WellFormed
<1>9. Range(q) = seen2 \ seen
  <2>1. ASSUME NEW f \in Range(q)  PROVE  f \in seen2 \ seen
    <3>1. PICK v \in Logic(t) : /\ t.layer[v] = layer /\ Value(pk, h.buf, v) = t.init[v]
                                /\ f = <<v, t.init[v]>>
      BY <1>7
    <3>2. Queued(t, pk, h.buf, layer + 1, v) /\ ~Queued(t, pk, h.buf, layer, v)
      BY <1>0, <1>3, <3>1 DEF Queued
    <3>3. f \in seen2
      BY <3>1, <3>2, SeenIs
    <3>4. f \notin seen
      <4>1. f[1] = v
        BY <3>1
      <4> QED  BY <3>2, <4>1, SeenIs
    <3> QED  BY <3>3, <3>4
  <2>2. ASSUME NEW f \in seen2, f \notin seen  PROVE  f \in Range(q)
    <3>1. f[1] \in Logic(t) /\ Queued(t, pk, h.buf, layer + 1, f[1])
          /\ f = <<f[1], Value(pk, h.buf, f[1])>>
      BY SeenIs
    <3>2. ~Queued(t, pk, h.buf, layer, f[1])
      BY <2>2, <3>1, SeenIs
    <3>3. t.layer[f[1]] = layer /\ Value(pk, h.buf, f[1]) = t.init[f[1]]
      BY <1>0, <1>8, <3>1, <3>2 DEF Queued
    <3> HIDE DEF q
    <3> QED  BY <1>7, <3>1, <3>3
  <2> QED  BY <2>1, <2>2
<1>10. CASE layer = LastLayer(t)
  BY <1>2, <1>3, <1>4, <1>5, <1>10
<1>11. CASE layer # LastLayer(t)
  <2>1. n = [buf |-> h.buf, queue |-> q, count |-> h.count]
    <3> HIDE DEF q
    <3> QED  BY <1>5, QueueUpdate
  <2> HIDE DEF n, q
  <2>2. n.buf = h.buf /\ n.queue = q /\ n.count = h.count
    BY <2>1
  <2>3. n \in Machines(t, pk)
    BY <1>5, <1>7, <2>1 DEF Machines, AllRules
  <2> HIDE DEF seen, seen2
  <2> DEFINE C == [j \in AllRules(t) |-> seen]
  <2>4. \A j \in 1 .. Len(t.rules) : C[j] \subseteq seen
           /\ n.count[j] = Cardinality(t.rules[j].cond \ C[j])
    BY <1>4, <2>2 DEF AllRules
  <2>5. \A j \in AllRules(t) : t.rules[j].cond \subseteq C[j] => HeadFact(t, j) \in seen2
    BY <1>4, <1>6
  <2> HIDE DEF C
  <2>6. Running(t, pk, M, b, layer + 1, seen, C, AllRules(t), n)
    BY <1>3, <1>4, <1>6, <1>7, <1>9, <2>2, <2>3, <2>4, <2>5 DEF Running,
       Counted, seen2
  <2>7. Following(t, pk, M, b, layer + 1, seen, n)
    BY <2>6 DEF Following, C
  <2> QED  BY <1>2, <1>11, <2>7
<1> QED  BY <1>10, <1>11

(* The evaluation starts with the given facts in the queue and the derived *)
(* variables at their defaults.                                            *)
LEMMA StartRuns ==
  ASSUME NEW t, WellFormed(t), NEW pk, Placing(t, pk), NEW M,
         NEW buf \in Stored(t, pk), \A v \in Given(t) : <<v, Value(pk, buf, v)>> \in M
  PROVE  Running(t, pk, M, buf, 0, {}, [j \in AllRules(t) |-> {}],
                 {j \in AllRules(t) : t.rules[j].cond # {}}, Start(t, pk, buf))
<1> DEFINE n == Len(t.range)
           counts == [i \in AllRules(t) |-> Cardinality(t.rules[i].cond)]
           Is(m, k) ==
             /\ m \in Machines(t, pk) /\ SameGiven(t, pk, buf, m.buf) /\ m.count = counts
             /\ \A v \in 1 .. k : v \notin Given(t) => Value(pk, m.buf, v) = t.init[v]
             /\ Distinct(m.queue)
             /\ \A f : f \in Range(m.queue) <=>
                  \E v \in 1 .. k : v \in Given(t) /\ f = <<v, Value(pk, buf, v)>>
<1>1. n \in Nat /\ Logic(t) = 1 .. n /\ \A v \in Logic(t) : t.init[v] \in 0 .. t.range[v] - 1
  BY DEF WellFormed, VariablesOK, Logic
<1>2. PICK F : StartSteps(t, pk, buf, F) /\ Start(t, pk, buf) = F[n]
  BY <1>1, StartRun
<1>3. DOMAIN t.rules = AllRules(t) /\ AllRules(t) = 1 .. Len(t.rules)
  BY DEF WellFormed, IsSeq, AllRules
<1>4. /\ F[0] = [buf |-> buf, queue |-> <<>>, count |-> counts]
      /\ \A k \in 1 .. n : F[k] = StartWith(t, pk, F[k - 1], k)
  BY <1>2, <1>3 DEF StartSteps
<1>5. counts \in [AllRules(t) -> Int]
  <2>1. ASSUME NEW i \in AllRules(t)
        PROVE  Cardinality(t.rules[i].cond) \in Int
    <3>1. t.rules[i].cond \in SUBSET Facts(t) /\ IsFiniteSet(Facts(t))
      BY FactsFinite, RuleOK DEF WellFormed, AllRules
    <3>2. IsFiniteSet(t.rules[i].cond)
      BY <3>1, FS_Subset
    <3>3. Cardinality(t.rules[i].cond) \in Nat
      BY <3>2, FS_CardinalityType
    <3> QED  BY <3>3
  <2> QED  BY <2>1
<1>6. Given(t) \subseteq Logic(t)
  BY GivenIs
<1> DEFINE Good == {k \in 0 .. n : Is(F[k], k)}
<1> HIDE DEF n, counts
<1>7. 0 \in Good
  <2>1. <<>> \in Seq(Facts(t)) /\ Distinct(<<>>) /\ Range(<<>>) = {}
    BY DEF Distinct, Range
  <2>2. 1 .. 0 = {}
    OBVIOUS
  <2>3. F[0].buf = buf /\ F[0].queue = <<>> /\ F[0].count = counts
    BY <1>4
  <2>4. F[0] \in Machines(t, pk)
    BY <1>3, <1>4, <1>5, <2>1 DEF Machines
  <2>5. SameGiven(t, pk, buf, F[0].buf)
    BY <2>3 DEF SameGiven
  <2>6. Is(F[0], 0)
    BY <2>1, <2>2, <2>3, <2>4, <2>5
  <2> QED  BY <1>1, <2>6
<1>8. ASSUME NEW k \in 0 .. n - 1, k \in Good  PROVE  k + 1 \in Good
  <2> DEFINE v == k + 1
             m == F[k]
  <2>1. v \in 1 .. n /\ v \in 0 .. n /\ v - 1 = k /\ k \in Int
        /\ \A u : u \in 1 .. v <=> u \in 1 .. k \/ u = v
    BY <1>1
  <2>2. F[v] = StartWith(t, pk, m, v)
    BY <1>4, <2>1
  <2>3. /\ m \in Machines(t, pk) /\ SameGiven(t, pk, buf, m.buf) /\ m.count = counts
        /\ \A u \in 1 .. k : u \notin Given(t) => Value(pk, m.buf, u) = t.init[u]
        /\ Distinct(m.queue)
        /\ \A f : f \in Range(m.queue) <=>
             \E u \in 1 .. k : u \in Given(t) /\ f = <<u, Value(pk, buf, u)>>
    BY <1>8
  <2>4. /\ m \in [buf : Stored(t, pk), queue : Seq(Facts(t)), count : [1 .. Len(t.rules) -> Int]]
        /\ m.buf \in Stored(t, pk) /\ m.queue \in Seq(Facts(t))
        /\ m.count \in [1 .. Len(t.rules) -> Int]
    BY <2>3 DEF Machines
  <2>5. v \notin 1 .. k /\ v \in Logic(t)
    BY <1>1, <2>1
  <2> HIDE DEF v, m
  <2>6. CASE v \in Given(t)
    <3> DEFINE x == <<v, Value(pk, buf, v)>>
               q == Append(m.queue, x)
    <3>1. Value(pk, m.buf, v) = Value(pk, buf, v)
      BY <2>3, <2>6 DEF SameGiven
    <3>2. F[v] = [m EXCEPT !.queue = q]
      BY <2>2, <2>6, <3>1 DEF StartWith, Value
    <3>3. x \in Facts(t)
      BY <2>5, StoredValue DEF Value
    <3>4. x \notin Range(m.queue)
      <4>1. \A u \in 1 .. k : <<u, Value(pk, buf, u)>> # x
        BY <2>5
      <4> HIDE DEF x
      <4> QED  BY <2>3, <4>1
    <3>5. q \in Seq(Facts(t)) /\ Distinct(q) /\ Range(q) = Range(m.queue) \cup {x}
      <4> HIDE DEF x
      <4> QED  BY <2>3, <2>4, <3>3, <3>4, AppendDistinct
    <3>6. \A f : f \in Range(q) <=>
             \E u \in 1 .. v : u \in Given(t) /\ f = <<u, Value(pk, buf, u)>>
      <4> HIDE DEF q
      <4> QED  BY <2>1, <2>3, <2>6, <3>5
    <3> HIDE DEF q
    <3>7. F[v] = [buf |-> m.buf, queue |-> q, count |-> m.count]
      BY <2>4, <3>2, QueueUpdate
    <3>8. F[v].buf = m.buf /\ F[v].queue = q /\ F[v].count = m.count
      BY <3>7
    <3>9. F[v] \in Machines(t, pk)
      BY <2>4, <3>5, <3>7 DEF Machines
    <3>10. \A u \in 1 .. v : u \notin Given(t) => Value(pk, F[v].buf, u) = t.init[u]
      BY <2>1, <2>3, <2>6, <3>8
    <3>11. Is(F[v], v)
      BY <2>3, <3>5, <3>6, <3>8, <3>9, <3>10
    <3> QED  BY <2>1, <3>11 DEF v
  <2>7. CASE v \notin Given(t)
    <3> DEFINE x == <<"var", v>>
               b2 == Put(pk, m.buf, x, t.init[v])
    <3>1. F[v] = [m EXCEPT !.buf = b2]
      BY <2>2, <2>7 DEF StartWith
    <3>2. x \in Packed(t) /\ t.init[v] \in Values(t, x)
      BY <1>1, <2>4, <2>5, StoredValue
    <3>3. /\ b2 \in Stored(t, pk) /\ Get(pk, b2, x) = t.init[v]
          /\ \A y \in Packed(t) : y # x => Get(pk, b2, y) = Get(pk, m.buf, y)
      <4> HIDE DEF x
      <4> QED  BY <2>4, <3>2, PutStored
    <3> HIDE DEF b2
    <3>4. \A u \in Logic(t) : u # v => Value(pk, b2, u) = Value(pk, m.buf, u)
      <4>1. ASSUME NEW u \in Logic(t), u # v
            PROVE  Value(pk, b2, u) = Value(pk, m.buf, u)
        <5>1. <<"var", u>> \in Packed(t) /\ <<"var", u>> # x
          BY <4>1 DEF Packed
        <5> QED  BY <3>3, <5>1 DEF Value
      <4> QED  BY <4>1
    <3>5. \A u \in OfType(t, "regular") : Get(pk, b2, <<"num", u>>) = Get(pk, m.buf, <<"num", u>>)
      <4>1. ASSUME NEW u \in OfType(t, "regular")
            PROVE  Get(pk, b2, <<"num", u>>) = Get(pk, m.buf, <<"num", u>>)
        <5>1. <<"num", u>> \in Packed(t) /\ <<"num", u>> # x
          BY DEF Packed
        <5> QED  BY <3>3, <5>1
      <4> QED  BY <4>1
    <3>6. SameGiven(t, pk, buf, b2)
      <4>1. \A u \in Given(t) : u \in Logic(t) /\ u # v
        BY <1>6, <2>7
      <4> QED  BY <2>3, <3>4, <3>5, <4>1 DEF SameGiven
    <3>7. F[v] = [buf |-> b2, queue |-> m.queue, count |-> m.count]
      BY <2>4, <3>1, BufUpdate
    <3>8. F[v].buf = b2 /\ F[v].queue = m.queue /\ F[v].count = m.count
      BY <3>7
    <3>9. F[v] \in Machines(t, pk)
      BY <2>4, <3>3, <3>7 DEF Machines
    <3>10. Value(pk, b2, v) = t.init[v]
      BY <3>3 DEF Value
    <3>11. \A u \in 1 .. v : u \notin Given(t) => Value(pk, b2, u) = t.init[u]
      <4>1. \A u \in 1 .. k : u \in Logic(t) /\ u # v
        <5>1. \A u \in 1 .. k : u \in 1 .. n
          BY <1>1
        <5> QED  BY <1>1, <2>5, <5>1
      <4> QED  BY <2>1, <2>3, <3>4, <3>10, <4>1
    <3>12. \A f : f \in Range(m.queue) <=>
             \E u \in 1 .. v : u \in Given(t) /\ f = <<u, Value(pk, buf, u)>>
      BY <2>1, <2>3, <2>7
    <3>13. Is(F[v], v)
      BY <2>3, <3>6, <3>8, <3>9, <3>11, <3>12
    <3> QED  BY <2>1, <3>13 DEF v
  <2> QED  BY <2>6, <2>7
<1>9. n \in Good
  <2> HIDE DEF Good
  <2>1. 0 .. n \subseteq Good
    BY <1>1, <1>7, <1>8, Upward
  <2> QED  BY <1>1, <2>1
<1> DEFINE m == F[n]
           seen == Seen(t, pk, m.buf, 0)
           C == [j \in AllRules(t) |-> {}]
           J == {j \in AllRules(t) : t.rules[j].cond # {}}
<1>10. Is(m, n)
  BY <1>9
<1> HIDE DEF m
<1>11. /\ m \in Machines(t, pk) /\ SameGiven(t, pk, buf, m.buf) /\ m.count = counts
       /\ \A v \in Logic(t) : v \notin Given(t) => Value(pk, m.buf, v) = t.init[v]
       /\ Distinct(m.queue)
       /\ \A f : f \in Range(m.queue) <=>
            \E v \in Given(t) : f = <<v, Value(pk, buf, v)>>
  BY <1>1, <1>6, <1>10
<1>12. \A f : f \in seen <=> \E v \in Given(t) : f = <<v, Value(pk, buf, v)>>
  <2>1. ASSUME NEW f \in seen
        PROVE  \E v \in Given(t) : f = <<v, Value(pk, buf, v)>>
    <3>1. /\ f[1] \in Logic(t) /\ Queued(t, pk, m.buf, 0, f[1])
          /\ f = <<f[1], Value(pk, m.buf, f[1])>>
      BY SeenIs
    <3>2. t.layer[f[1]] \in Int /\ t.layer[f[1]] >= -1
      BY <3>1, LastLayerOK DEF WellFormed
    <3>3. t.layer[f[1]] < 0 => f[1] \in Given(t)
      BY <3>1, <3>2, GivenIs
    <3>4. f[1] \in Given(t)
      BY <1>11, <3>1, <3>3 DEF Queued
    <3> QED  BY <1>11, <3>1, <3>4 DEF SameGiven
  <2>2. ASSUME NEW v \in Given(t)  PROVE  <<v, Value(pk, buf, v)>> \in seen
    <3>1. /\ v \in Logic(t) /\ Queued(t, pk, m.buf, 0, v)
          /\ Value(pk, m.buf, v) = Value(pk, buf, v)
      BY <1>6, <1>11 DEF Queued, SameGiven
    <3> QED  BY <3>1, SeenIs
  <2> HIDE DEF seen
  <2> QED  BY <2>1, <2>2
<1> HIDE DEF seen
<1>13. {} \subseteq seen /\ seen \subseteq M /\ Range(m.queue) = seen \ {}
  BY <1>11, <1>12
<1>14. \A j \in 1 .. Len(t.rules) : C[j] \subseteq {} /\ m.count[j] = Cardinality(t.rules[j].cond \ C[j])
  <2>1. ASSUME NEW j \in AllRules(t)
        PROVE  C[j] \subseteq {} /\ m.count[j] = Cardinality(t.rules[j].cond \ C[j])
    <3>1. C[j] = {} /\ t.rules[j].cond \ {} = t.rules[j].cond
      OBVIOUS
    <3> QED  BY <1>11, <3>1 DEF counts
  <2> QED  BY <2>1 DEF AllRules
<1>15. \A j \in J : t.rules[j].cond \subseteq C[j] => HeadFact(t, j) \in seen
  OBVIOUS
<1> HIDE DEF C, J
<1>16. Running(t, pk, M, buf, 0, {}, C, J, m)
  BY <1>11, <1>13, <1>14, <1>15 DEF Running, Counted, seen
<1> QED  BY <1>2, <1>16 DEF m, C, J

(* The rules without a condition are applied before any fact is followed.  *)
LEMMA BeginRuns ==
  ASSUME NEW t, WellFormed(t), NEW pk, Placing(t, pk),
         NEW M, GraphOn(t, Logic(t), M), Closed(t, M), NEW b, NEW layer,
         NEW S, NEW C,
         NEW m,
         Running(t, pk, M, b, layer, S, C, {j \in AllRules(t) : t.rules[j].cond # {}}, m)
  PROVE  Running(t, pk, M, b, layer, S, C, AllRules(t), Begin(t, pk, m))
<1> DEFINE n == Len(t.rules)
           J(k) == {j \in AllRules(t) : t.rules[j].cond # {}} \cup (1 .. k)
<1>1. n \in Nat /\ AllRules(t) = 1 .. n
  BY DEF WellFormed, IsSeq, AllRules
<1>2. PICK F : BeginSteps(t, pk, m, F) /\ Begin(t, pk, m) = F[n]
  BY <1>1, BeginRun
<1>3. /\ F[0] = m
      /\ \A k \in 1 .. n : F[k] = IF t.rules[k].cond = {} THEN Change(t, pk, F[k - 1], k)
                                  ELSE F[k - 1]
  BY <1>2 DEF BeginSteps
<1> DEFINE Fine == {k \in 0 .. n : Running(t, pk, M, b, layer, S, C, J(k), F[k])}
<1> HIDE DEF n
<1>4. 0 \in Fine
  <2>1. J(0) = {j \in AllRules(t) : t.rules[j].cond # {}}
    OBVIOUS
  <2> QED  BY <1>1, <1>3, <2>1
<1>5. ASSUME NEW k \in 0 .. n - 1, k \in Fine  PROVE  k + 1 \in Fine
  <2>1. k + 1 \in 1 .. n /\ k + 1 \in 0 .. n /\ (k + 1) - 1 = k /\ k \in Int
    BY <1>1
  <2>2. F[k + 1] = IF t.rules[k + 1].cond = {} THEN Change(t, pk, F[k], k + 1) ELSE F[k]
    BY <1>3, <2>1
  <2>3. J(k) \subseteq 1 .. Len(t.rules) /\ k + 1 \in 1 .. Len(t.rules)
    BY <1>1, <2>1 DEF n
  <2>4. Running(t, pk, M, b, layer, S, C, J(k), F[k])
    BY <1>5
  <2>5. CASE t.rules[k + 1].cond = {}
    <3>1. HeadFact(t, k + 1) \in M
      BY <1>1, <2>1, <2>5 DEF Closed
    <3>2. J(k + 1) = J(k) \cup {k + 1}
      BY <2>1
    <3> HIDE DEF J
    <3>3. Running(t, pk, M, b, layer, S, C, J(k) \cup {k + 1}, Change(t, pk, F[k], k + 1))
      BY <2>3, <2>4, <3>1, ChangeRuns
    <3> QED  BY <2>1, <2>2, <2>5, <3>2, <3>3
  <2>6. CASE t.rules[k + 1].cond # {}
    <3>1. J(k + 1) = J(k)
      BY <1>1, <2>1, <2>6
    <3> HIDE DEF J
    <3> QED  BY <2>1, <2>2, <2>4, <2>6, <3>1
  <2> QED  BY <2>5, <2>6
<1>6. n \in Fine
  <2> HIDE DEF Fine
  <2>1. 0 .. n \subseteq Fine
    BY <1>1, <1>4, <1>5, Upward
  <2> QED  BY <1>1, <2>1
<1>7. J(n) = AllRules(t)
  BY <1>1
<1> QED  BY <1>2, <1>6, <1>7

(* The rules and the defaults give the derived variables the values of the *)
(* model that the given facts have.                                        *)
LEMMA WholeModel ==
  ASSUME NEW t, WellFormed(t), NEW pk, NEW M, GraphOn(t, Logic(t), M), NEW buf,
         FactsOf(t, pk, buf) \subseteq M
  PROVE  FactsOf(t, pk, buf) = M
<1>1. ASSUME NEW f \in M  PROVE  f \in FactsOf(t, pk, buf)
  <2>1. f[1] \in Logic(t)
    BY DEF GraphOn, Facts
  <2>2. <<f[1], Get(pk, buf, <<"var", f[1]>>)>> \in FactsOf(t, pk, buf)
    BY <2>1 DEF FactsOf
  <2>3. <<f[1], Get(pk, buf, <<"var", f[1]>>)>> \in M
    BY <2>2
  <2>4. f = <<f[1], Get(pk, buf, <<"var", f[1]>>)>>
    BY <2>3 DEF GraphOn
  <2> QED  BY <2>2, <2>4
<1> QED  BY <1>1

(* Without rules the model has the default of each derived variable.       *)
LEMMA WithoutRules ==
  ASSUME NEW t, WellFormed(t), NEW s, NEW M, Stratified(t, s, M), t.rules = <<>>,
         NEW f \in M, f[1] \in Derived(t)
  PROVE  f[2] = t.init[f[1]]
<1> DEFINE l == t.layer[f[1]]
           X == {g \in M : g[1] \in Below(t, l)}
<1>1. f[1] \in Logic(t) /\ f[1] \notin Given(t) /\ l # -1
  BY GivenIs DEF Derived
<1>2. l \in 0 .. LastLayer(t)
  BY <1>1, LastLayerOK DEF WellFormed
<1>3. f \notin X
  BY <1>1, <1>2 DEF Below
<1>4. 1 .. Len(t.rules) = {}
  OBVIOUS
<1>5. \A g \in M : g[1] \in Below(t, l) => g \in X
  OBVIOUS
<1> HIDE DEF X
<1>6. \A i \in 1 .. Len(t.rules) :
         t.layer[t.rules[i].var] = l /\ t.rules[i].cond \subseteq X => HeadFact(t, i) \in X
  BY <1>4
<1>7. \A g \in M : g[1] \in Derived(t) /\ t.layer[g[1]] = l /\ g[2] # t.init[g[1]] => g \in X
  BY <1>2, <1>5, <1>6 DEF Stratified
<1> QED  BY <1>3, <1>7

(* From the given facts the evaluator derives the stratified model,        *)
(* whatever the derived variables held before.                             *)
LEMMA LogicIs ==
  ASSUME NEW t, WellFormed(t), NEW pk, Placing(t, pk), NEW s, NEW M,
         Stratified(t, s, M),
         NEW buf \in Stored(t, pk), \A v \in Given(t) : <<v, Value(pk, buf, v)>> \in M,
         t.rules = <<>> => \A v \in Derived(t) : Value(pk, buf, v) = t.init[v]
  PROVE  LET e == EvaluateLogic(t, pk, buf)
         IN  e \in Stored(t, pk) /\ FactsOf(t, pk, e) = M /\ SameGiven(t, pk, buf, e)
<1>1. GraphOn(t, Logic(t), M) /\ Closed(t, M)
  BY DEF Stratified, Closed, AllRules
<1>2. CASE t.rules = <<>>
  <2>1. EvaluateLogic(t, pk, buf) = buf
    BY <1>2 DEF EvaluateLogic
  <2>2. ASSUME NEW v \in Logic(t)  PROVE  <<v, Value(pk, buf, v)>> \in M
    <3>1. CASE v \in Given(t)
      BY <3>1
    <3>2. CASE v \in Derived(t)
      <4>1. PICK f \in M : f[1] = v
        BY <1>1 DEF GraphOn
      <4>2. f[2] = t.init[v]
        BY <1>2, <3>2, <4>1, WithoutRules
      <4>3. f = <<f[1], f[2]>>
        <5>1. f \in Facts(t)
          BY <1>1, <4>1 DEF GraphOn
        <5> QED  BY <5>1 DEF Facts
      <4> QED  BY <1>2, <3>2, <4>1, <4>2, <4>3
    <3> QED  BY <3>1, <3>2, GivenIs
  <2>3. FactsOf(t, pk, buf) \subseteq M
    BY <2>2 DEF FactsOf, Value
  <2>4. FactsOf(t, pk, buf) = M
    BY <1>1, <2>3, WholeModel
  <2> QED  BY <2>1, <2>4 DEF SameGiven
<1>3. CASE t.rules # <<>>
  <2> DEFINE L == LastLayer(t)
             C == [j \in AllRules(t) |-> {}]
  <2>1. L \in Nat
    <3>1. Len(t.rules) \in Nat /\ Len(t.rules) # 0
      BY <1>3 DEF WellFormed, IsSeq
    <3>2. 1 \in 1 .. Len(t.rules)
      BY <3>1
    <3>3. 0 .. L # {}
      BY <3>2, RuleOK
    <3>4. L \in Int
      BY LastLayerOK DEF WellFormed
    <3> QED  BY <3>3, <3>4
  <2>2. PICK F : LayersSteps(t, pk, buf, F) /\ EvaluateLogic(t, pk, buf) = F[(L + 1)].buf
    BY <1>3, <2>1, LayersRun
  <2>3. F[0] = Begin(t, pk, Start(t, pk, buf))
    BY <2>2 DEF LayersSteps
  <2> HIDE DEF L
  <2>4. \A k \in 0 .. L : F[k + 1] = ApplyLayer(t, pk, F[k], k)
    <3>1. \A k \in 1 .. L + 1 : F[k] = ApplyLayer(t, pk, F[k - 1], k - 1)
      BY <2>2 DEF LayersSteps, L
    <3>2. ASSUME NEW k \in 0 .. L  PROVE  F[k + 1] = ApplyLayer(t, pk, F[k], k)
      <4>1. k + 1 \in 1 .. L + 1 /\ (k + 1) - 1 = k
        BY <2>1
      <4> QED  BY <3>1, <4>1
    <3> QED  BY <3>2
  <2>5. Running(t, pk, M, buf, 0, {}, C, {j \in AllRules(t) : t.rules[j].cond # {}},
                Start(t, pk, buf))
    BY StartRuns
  <2> HIDE DEF C
  <2>6. Running(t, pk, M, buf, 0, {}, C, AllRules(t), F[0])
    BY <1>1, <2>3, <2>5, BeginRuns
  <2>7. Following(t, pk, M, buf, 0, {}, F[0])
    BY <2>6 DEF Following, C
  <2> DEFINE Good == {k \in 0 .. L : \E S : Following(t, pk, M, buf, k, S, F[k])}
  <2>8. 0 \in Good
    BY <2>1, <2>7
  <2>9. ASSUME NEW k \in 0 .. L - 1, k \in Good  PROVE  k + 1 \in Good
    <3>1. /\ k \in 0 .. LastLayer(t) /\ k # LastLayer(t) /\ k + 1 \in 0 .. L
          /\ k \in 0 .. L
      BY <2>1 DEF L
    <3>2. PICK S : Following(t, pk, M, buf, k, S, F[k])
      BY <2>9
    <3>3. \E S2 : Following(t, pk, M, buf, k + 1, S2, ApplyLayer(t, pk, F[k], k))
      BY <3>1, <3>2, LayerRuns
    <3> QED  BY <2>4, <3>1, <3>3
  <2>10. L \in Good
    <3> HIDE DEF Good
    <3>1. 0 .. L \subseteq Good
      BY <2>1, <2>8, <2>9, Upward
    <3> QED  BY <2>1, <3>1
  <2>11. PICK S : Following(t, pk, M, buf, L, S, F[L])
    BY <2>10
  <2> DEFINE e == ApplyLayer(t, pk, F[L], L).buf
  <2>12. L \in 0 .. LastLayer(t) /\ L = LastLayer(t) /\ L \in 0 .. L
    BY <2>1 DEF L
  <2>13. /\ e \in Stored(t, pk) /\ SameGiven(t, pk, buf, e)
         /\ Seen(t, pk, e, L + 1) \subseteq M
    BY <2>11, <2>12, LayerRuns
  <2>14. EvaluateLogic(t, pk, buf) = e
    BY <2>2, <2>4, <2>12
  <2> HIDE DEF e
  <2>15. FactsOf(t, pk, e) \subseteq M
    <3>1. ASSUME NEW v \in Logic(t)  PROVE  <<v, Value(pk, e, v)>> \in M
      <4>1. t.layer[v] \in Int /\ t.layer[v] <= L
        BY LastLayerOK DEF WellFormed, L
      <4>2. t.layer[v] < L + 1
        BY <2>1, <4>1
      <4>3. Queued(t, pk, e, L + 1, v)
        BY <4>2 DEF Queued
      <4>4. <<v, Value(pk, e, v)>> \in Seen(t, pk, e, L + 1)
        BY <4>3, SeenIs
      <4> QED  BY <2>13, <4>4
    <3> QED  BY <3>1 DEF FactsOf, Value
  <2>16. FactsOf(t, pk, e) = M
    BY <1>1, <2>15, WholeModel
  <2> QED  BY <2>13, <2>14, <2>16
<1> QED  BY <1>2, <1>3

(* What a packed state stands for.                                         *)
Represents(t, pk, buf, s) ==
    /\ buf \in Stored(t, pk) /\ s \in Meanings(t)
    /\ FactsOf(t, pk, buf) = FactsIn(t, s) /\ SameNumbers(t, pk, buf, s)

(* A packed state has the values of what it stands for.                    *)
LEMMA RepresentsBase ==
  ASSUME NEW t, WellFormed(t), NEW pk, NEW buf, NEW s,
         Represents(t, pk, buf, s)
  PROVE  /\ \A v \in Base(t) : Value(pk, buf, v) = s.base[v]
         /\ t.rules = <<>> => \A v \in Derived(t) : Value(pk, buf, v) = t.init[v]
<1>1. Stratified(t, s, FactsIn(t, s)) /\ FactsOf(t, pk, buf) = FactsIn(t, s)
  BY FactsStratified DEF Represents
<1>2. \A v \in Logic(t) : <<v, Value(pk, buf, v)>> \in FactsIn(t, s)
  BY <1>1 DEF FactsOf, Value
<1>3. ASSUME NEW v \in Base(t)  PROVE  Value(pk, buf, v) = s.base[v]
  <2>1. <<v, s.base[v]>> \in FactsIn(t, s)
    BY <1>1 DEF Stratified, Given0
  <2>2. <<v, Value(pk, buf, v)>> \in FactsIn(t, s)
    BY <1>2 DEF Base
  <2>3. <<v, s.base[v]>> = <<v, Value(pk, buf, v)>>
    BY <1>1, <2>1, <2>2 DEF Stratified, GraphOn
  <2> QED  BY <2>3
<1>4. ASSUME t.rules = <<>>, NEW v \in Derived(t)
      PROVE  Value(pk, buf, v) = t.init[v]
  <2> DEFINE f == <<v, Value(pk, buf, v)>>
  <2>1. f \in FactsIn(t, s) /\ f[1] = v /\ f[2] = Value(pk, buf, v)
    BY <1>2 DEF Derived
  <2> HIDE DEF f
  <2> QED  BY <1>1, <1>4, <2>1, WithoutRules
<1> QED  BY <1>3, <1>4

(* Equal buffers stand for equal states, and only they do.                 *)
LEMMA RepresentsOne ==
  ASSUME NEW t, WellFormed(t), NEW pk, Placing(t, pk), NEW buf, NEW s,
         Represents(t, pk, buf, s),
         NEW buf2, NEW s2, Represents(t, pk, buf2, s2)
  PROVE  buf = buf2 <=> s = s2
<1>1. CASE buf = buf2
  <2>1. s.base = s2.base
    <3>1. s.base \in [Base(t) -> Nat] /\ s2.base \in [Base(t) -> Nat]
      BY DEF Represents, Meanings
    <3>2. \A v \in Base(t) : s.base[v] = s2.base[v]
      BY <1>1, RepresentsBase
    <3> QED  BY <3>1, <3>2
  <2>2. s.nums = s2.nums
    <3>1. /\ s.nums \in [OfType(t, "regular") -> Int]
          /\ s2.nums \in [OfType(t, "regular") -> Int]
      BY DEF Represents, Meanings
    <3>2. \A v \in OfType(t, "regular") : s.nums[v] = s2.nums[v]
      BY <1>1 DEF Represents, SameNumbers
    <3> QED  BY <3>1, <3>2
  <2>3. /\ s = [base |-> s.base, nums |-> s.nums]
        /\ s2 = [base |-> s2.base, nums |-> s2.nums]
    BY DEF Represents, Meanings
  <2> QED  BY <1>1, <2>1, <2>2, <2>3
<1>2. CASE s = s2
  <2>1. ASSUME NEW x \in Packed(t)  PROVE  Get(pk, buf, x) = Get(pk, buf2, x)
    <3>1. CASE x \in {"var"} \X Logic(t)
      <4>1. PICK v \in Logic(t) : x = <<"var", v>>
        BY <3>1
      <4>2. /\ <<v, Value(pk, buf, v)>> \in FactsIn(t, s)
            /\ <<v, Value(pk, buf2, v)>> \in FactsIn(t, s)
        BY <1>2 DEF Represents, FactsOf, Value
      <4>3. GraphOn(t, Logic(t), FactsIn(t, s))
        BY FactsStratified DEF Represents, Stratified
      <4>4. <<v, Value(pk, buf, v)>> = <<v, Value(pk, buf2, v)>>
        BY <4>2, <4>3 DEF GraphOn
      <4> QED  BY <4>1, <4>4 DEF Value
    <3>2. CASE x \in {"num"} \X OfType(t, "regular")
      <4>1. PICK v \in OfType(t, "regular") : x = <<"num", v>>
        BY <3>2
      <4> QED  BY <1>2, <4>1 DEF Represents, SameNumbers
    <3> QED  BY <3>1, <3>2 DEF Packed
  <2>2. buf \in Stored(t, pk) /\ buf2 \in Stored(t, pk)
    BY DEF Represents
  <2>3. buf = buf2
    BY <2>1, <2>2, StoredDetermined
  <2> QED  BY <1>2, <2>3
<1> QED  BY <1>1, <1>2

(* Packing the numbers and evaluating the axioms makes a state of the      *)
(* values that the operator has left.                                      *)
LEMMA StateRepresents ==
  ASSUME NEW t, WellFormed(t), NEW pk, Placing(t, pk),
         NEW buf \in Stored(t, pk),
         NEW nums \in Nums(t), NEW s \in Meanings(t),
         \A v \in Base(t) : Value(pk, buf, v) = s.base[v],
         \A v \in Numeric(t) : /\ t.ntype[v] = "regular" => nums[v] = s.nums[v]
                               /\ t.ntype[v] = "constant" => nums[v] = t.ninit[v],
         t.rules = <<>> => \A v \in Derived(t) : Value(pk, buf, v) = t.init[v]
  PROVE  LET st == StateOf(t, pk, buf, nums)
         IN  /\ Represents(t, pk, st.buf, s)
             /\ st.inst \in [OfType(t, "instrumentation") -> Int]
<1> DEFINE all == EvaluateArithmetic(t, nums)
           b1 == WithNums(t, pk, buf, nums)
           b2 == EvaluateComparisons(t, pk, b1, all)
           e == EvaluateLogic(t, pk, b2)
           M == FactsIn(t, s)
<1>1. StateOf(t, pk, buf, nums) = [buf |-> e, inst |-> InstrumentationOf(t, all)]
  BY DEF StateOf, Evaluate
<1>2. all \in Nums(t)
  BY SumsTyped DEF WellFormed
<1>3. s.nums \in [OfType(t, "regular") -> Int] /\ s.base \in [Base(t) -> Nat]
  BY DEF Meanings
<1>4. PICK N \in SUBSET Numeric(t) : Suffices(t, N)
  BY DEF WellFormed
<1>5. \A v \in N : all[v] = NumbersIn(t, s)[v]
  BY <1>3, <1>4, NumbersTyped
<1>6. /\ b1 \in Stored(t, pk)
      /\ \A v \in Logic(t) : Get(pk, b1, <<"var", v>>) = Get(pk, buf, <<"var", v>>)
      /\ \A v \in OfType(t, "regular") : Get(pk, b1, <<"num", v>>) = nums[v]
  BY WithNumsStored
<1> HIDE DEF b1, all
<1>7. /\ b2 \in Stored(t, pk)
      /\ \A v \in Logic(t) \ ComparisonVars(t) :
            Get(pk, b2, <<"var", v>>) = Get(pk, b1, <<"var", v>>)
      /\ \A ax \in Range(t.comps) : Get(pk, b2, <<"var", ax.var>>) = Compared(ax, all)
      /\ \A v \in OfType(t, "regular") :
            Get(pk, b2, <<"num", v>>) = Get(pk, b1, <<"num", v>>)
  BY <1>6, ComparisonsStored
<1> HIDE DEF b2
<1>8. \A ax \in Range(t.comps) : Compared(ax, all) = Compared(ax, NumbersIn(t, s))
  <2>1. ASSUME NEW ax \in Range(t.comps)
        PROVE  Compared(ax, all) = Compared(ax, NumbersIn(t, s))
    <3>1. PICK k \in 1 .. Len(t.comps) : ax = t.comps[k]
      <4>1. DOMAIN t.comps = 1 .. Len(t.comps)
        BY DEF WellFormed, IsSeq
      <4> QED  BY <4>1 DEF Range
    <3>2. ax.lhs \in N /\ ax.rhs \in N
      BY <1>4, <3>1 DEF Suffices
    <3>3. all[ax.lhs] = NumbersIn(t, s)[ax.lhs] /\ all[ax.rhs] = NumbersIn(t, s)[ax.rhs]
      BY <1>5, <3>2
    <3> QED  BY <3>3 DEF Compared
  <2> QED  BY <2>1
<1>9. Stratified(t, s, M)
  BY FactsStratified
<1> HIDE DEF M
<1>10. \A v \in Base(t) : v \in Logic(t) /\ v \notin ComparisonVars(t)
  BY GivenIs
<1>11. ASSUME NEW v \in Given(t)  PROVE  <<v, Value(pk, b2, v)>> \in M
  <2>1. CASE v \in Base(t)
    <3>1. Value(pk, b2, v) = s.base[v]
      BY <1>6, <1>7, <1>10, <2>1 DEF Value
    <3>2. <<v, s.base[v]>> \in M
      BY <1>9, <2>1 DEF Stratified, Given0
    <3> QED  BY <3>1, <3>2
  <2>2. CASE v \in ComparisonVars(t)
    <3>1. PICK ax \in Range(t.comps) : v = ax.var
      BY <2>2 DEF ComparisonVars
    <3>2. Value(pk, b2, v) = Compared(ax, NumbersIn(t, s))
      BY <1>7, <1>8, <3>1 DEF Value
    <3>3. <<ax.var, Compared(ax, NumbersIn(t, s))>> \in M
      BY <1>9, <3>1 DEF Stratified, Given0
    <3> QED  BY <3>1, <3>2, <3>3
  <2> QED  BY <2>1, <2>2, GivenIs
<1>12. t.rules = <<>> => \A v \in Derived(t) : Value(pk, b2, v) = t.init[v]
  <2>1. ASSUME t.rules = <<>>, NEW v \in Derived(t)
        PROVE  Value(pk, b2, v) = t.init[v]
    <3>1. v \in Logic(t) \ ComparisonVars(t)
      BY DEF Derived
    <3>2. Value(pk, buf, v) = t.init[v]
      BY <2>1
    <3> QED  BY <1>6, <1>7, <3>1, <3>2 DEF Value
  <2> QED  BY <2>1
<1>13. e \in Stored(t, pk) /\ FactsOf(t, pk, e) = M /\ SameGiven(t, pk, b2, e)
  BY <1>7, <1>9, <1>11, <1>12, LogicIs
<1> HIDE DEF e
<1>14. SameNumbers(t, pk, e, s)
  <2>1. ASSUME NEW v \in OfType(t, "regular")
        PROVE  Get(pk, e, <<"num", v>>) = s.nums[v]
    <3>1. Get(pk, e, <<"num", v>>) = nums[v]
      BY <1>6, <1>7, <1>13 DEF SameGiven
    <3>2. v \in Numeric(t) /\ t.ntype[v] = "regular"
      BY DEF OfType
    <3> QED  BY <3>1, <3>2
  <2> QED  BY <1>3, <2>1 DEF SameNumbers
<1>15. Represents(t, pk, e, s)
  BY <1>13, <1>14 DEF Represents, M
<1>16. InstrumentationOf(t, all) \in [OfType(t, "instrumentation") -> Int]
  BY <1>2 DEF InstrumentationOf, OfType, Nums
<1> QED  BY <1>1, <1>15, <1>16

(* The initial state in the registry stands for the initial state of the   *)
(* task.                                                                   *)
LEMMA InitialRepresents ==
  ASSUME NEW t, WellFormed(t), NEW pk, Placing(t, pk)
  PROVE  LET st == InitialState(t, pk)
         IN  /\ Represents(t, pk, st.buf, MeaningInit(t))
             /\ st.inst \in [OfType(t, "instrumentation") -> Int]
<1> DEFINE s == MeaningInit(t)
           b0 == PutAll(pk, NoBits(pk), [v \in 1 .. Len(t.range) |->
                                           Write(<<"var", v>>, t.init[v])])
<1>1. b0 \in Stored(t, pk) /\ \A v \in Logic(t) : Value(pk, b0, v) = t.init[v]
  BY DefaultsStored DEF Value
<1>2. InitialState(t, pk) = StateOf(t, pk, b0, t.ninit)
  BY DEF InitialState
<1> HIDE DEF b0
<1>3. /\ t.ninit \in Nums(t)
      /\ \A v \in Logic(t) : t.init[v] \in 0 .. t.range[v] - 1 /\ t.init[v] \in Nat
  BY DEF WellFormed, VariablesOK, Nums, Logic
<1>4. /\ s = [base |-> [v \in Base(t) |-> t.init[v]],
              nums |-> [v \in OfType(t, "regular") |-> t.ninit[v]]]
      /\ s.base = [v \in Base(t) |-> t.init[v]]
      /\ s.nums = [v \in OfType(t, "regular") |-> t.ninit[v]]
  BY DEF MeaningInit
<1> HIDE DEF s
<1>5. \A v \in Base(t) : v \in Logic(t) /\ s.base[v] = t.init[v]
  BY <1>4 DEF Base
<1>6. \A v \in OfType(t, "regular") : v \in Numeric(t) /\ s.nums[v] = t.ninit[v]
  BY <1>4 DEF OfType
<1>7. s \in Meanings(t)
  <2>1. [v \in Base(t) |-> t.init[v]] \in [Base(t) -> Nat]
    BY <1>3, <1>5
  <2>2. [v \in OfType(t, "regular") |-> t.ninit[v]] \in [OfType(t, "regular") -> Int]
    BY <1>3, <1>6 DEF Nums
  <2>3. s \in [base : [Base(t) -> Nat], nums : [OfType(t, "regular") -> Int]]
    BY <1>4, <2>1, <2>2
  <2>4. \A v \in Base(t) : s.base[v] \in 0 .. t.range[v] - 1
    BY <1>3, <1>5
  <2> QED  BY <2>3, <2>4 DEF Meanings
<1>8. \A v \in Base(t) : Value(pk, b0, v) = s.base[v]
  BY <1>1, <1>5
<1>9. \A v \in Numeric(t) : /\ t.ntype[v] = "regular" => t.ninit[v] = s.nums[v]
                            /\ t.ntype[v] = "constant" => t.ninit[v] = t.ninit[v]
  BY <1>6 DEF OfType
<1>10. t.rules = <<>> => \A v \in Derived(t) : Value(pk, b0, v) = t.init[v]
  BY <1>1 DEF Derived
<1>11. /\ Represents(t, pk, StateOf(t, pk, b0, t.ninit).buf, s)
       /\ StateOf(t, pk, b0, t.ninit).inst \in [OfType(t, "instrumentation") -> Int]
  BY <1>1, <1>3, <1>7, <1>8, <1>9, <1>10, StateRepresents
<1> QED  BY <1>2, <1>11 DEF s

(* An operator leads from a packed state to one that stands for what the   *)
(* operator means.                                                         *)
LEMMA SuccessorRepresents ==
  ASSUME NEW t, WellFormed(t), NEW pk, Placing(t, pk), NEW st, NEW s,
         Represents(t, pk, st.buf, s),
         st.inst \in [OfType(t, "instrumentation") -> Int],
         NEW i \in 1 .. Len(t.ops)
  PROVE  LET new == SuccessorState(t, pk, st, t.ops[i])
         IN  /\ Represents(t, pk, new.buf, Meant(t, s, t.ops[i]))
             /\ new.inst \in [OfType(t, "instrumentation") -> Int]
<1> DEFINE op == t.ops[i]
           meant == Meant(t, s, op)
           nums == AssignNums(t, op, GetNumericVars(t, pk, st.buf, st.inst))
           b1 == SetEffects(pk, op, st.buf)
<1>1. SuccessorState(t, pk, st, op) = StateOf(t, pk, b1, nums)
  BY DEF SuccessorState
<1>2. /\ st.buf \in Stored(t, pk) /\ s \in Meanings(t)
      /\ FactsOf(t, pk, st.buf) = FactsIn(t, s) /\ SameNumbers(t, pk, st.buf, s)
  BY DEF Represents
<1>3. OperatorOK(t, op)
  BY DEF WellFormed
<1>4. /\ nums \in Nums(t)
      /\ \A v \in Numeric(t) : /\ t.ntype[v] = "regular" => nums[v] = meant.nums[v]
                               /\ t.ntype[v] = "constant" => nums[v] = t.ninit[v]
      /\ meant.nums \in [OfType(t, "regular") -> Int]
  BY <1>2, EffectNumbers
<1>5. /\ b1 \in Stored(t, pk)
      /\ \A v \in Logic(t) : Value(pk, b1, v)
            = MeantValue(op, v, Value(pk, st.buf, v), FactsIn(t, s))
      /\ \A v \in Logic(t) : t.layer[v] # -1 => Value(pk, b1, v) = Value(pk, st.buf, v)
  BY <1>2, <1>3, EffectsStored DEF Value
<1> HIDE DEF op, nums, b1
<1>6. \A v \in Base(t) : v \in Logic(t) /\ Value(pk, st.buf, v) = s.base[v]
  BY RepresentsBase DEF Base
<1>7. /\ meant = [base |-> [v \in Base(t) |-> MeantValue(op, v, s.base[v], FactsIn(t, s))],
                  nums |-> [v \in OfType(t, "regular") |->
                              MeantNumber(op, v, s.nums[v], NumbersIn(t, s))]]
      /\ meant.base = [v \in Base(t) |-> MeantValue(op, v, s.base[v], FactsIn(t, s))]
      /\ DOMAIN meant.nums = OfType(t, "regular")
  BY DEF Meant
<1> HIDE DEF meant
<1>8. \A v \in Base(t) : /\ meant.base[v] = Value(pk, b1, v)
                         /\ meant.base[v] \in 0 .. t.range[v] - 1 /\ meant.base[v] \in Nat
  <2>1. ASSUME NEW v \in Base(t)
        PROVE  /\ meant.base[v] = Value(pk, b1, v)
               /\ meant.base[v] \in 0 .. t.range[v] - 1 /\ meant.base[v] \in Nat
    <3>1. meant.base[v] = MeantValue(op, v, s.base[v], FactsIn(t, s))
      BY <1>7
    <3>2. meant.base[v] = Value(pk, b1, v)
      BY <1>5, <1>6, <3>1
    <3>3. Value(pk, b1, v) \in 0 .. t.range[v] - 1 /\ t.range[v] \in Nat
      BY <1>5, <1>6, StoredValue DEF Value
    <3> QED  BY <3>2, <3>3
  <2> QED  BY <2>1
<1>9. meant \in Meanings(t)
  <2>1. meant.base \in [Base(t) -> Nat]
    <3>1. DOMAIN meant.base = Base(t)
      BY <1>7
    <3>2. meant.base = [v \in Base(t) |-> meant.base[v]]
      BY <1>7
    <3> QED  BY <1>8, <3>2
  <2>2. meant = [base |-> meant.base, nums |-> meant.nums]
    BY <1>7
  <2>3. meant \in [base : [Base(t) -> Nat], nums : [OfType(t, "regular") -> Int]]
    BY <1>4, <2>1, <2>2
  <2> QED  BY <1>8, <2>3 DEF Meanings
<1>10. t.rules = <<>> => \A v \in Derived(t) : Value(pk, b1, v) = t.init[v]
  <2>1. \A v \in Derived(t) : v \in Logic(t) /\ t.layer[v] # -1
    BY DEF Derived
  <2> QED  BY <1>5, <2>1, RepresentsBase
<1>11. \A v \in Base(t) : Value(pk, b1, v) = meant.base[v]
  BY <1>8
<1>12. LET new == StateOf(t, pk, b1, nums)
       IN  /\ Represents(t, pk, new.buf, meant)
           /\ new.inst \in [OfType(t, "instrumentation") -> Int]
  BY <1>4, <1>5, <1>9, <1>10, <1>11, StateRepresents
<1> QED  BY <1>1, <1>12 DEF meant, op

(* The operators that wait in a branch k variables before the last: they   *)
(* are still to be tested on those variables, and passed all other tests.  *)
Pending(t, pk, buf, k, queue) ==
    /\ queue \in SUBSET Waits(t)
    /\ \A q \in queue :
         /\ q.rest \subseteq t.ops[q.op].pre
         /\ \A f \in q.rest : f[1] >= Len(t.range) + 1 - k
         /\ \A f \in t.ops[q.op].pre : f \in q.rest \/ Value(pk, buf, f[1]) = f[2]
Untested(v, queue) == {q \in queue \ {p \in queue : p.rest = {}} : ~Tests(q, v)}
Switch(t, v, queue, after) ==
    [kind |-> "switch", var |-> v, ops |-> {q.op : q \in {p \in queue : p.rest = {}}},
     child |-> [val \in 0 .. t.range[v] - 1 |-> after[Past(v, val, queue)]],
     other |-> after[Untested(v, queue)]]
Shaped(t, pk, buf, F, k, queue) ==
    \/ F[k][queue] = Leaf(queue) /\ \A q \in queue : q.rest = {}
    \/ \E j \in 1 .. k : /\ Pending(t, pk, buf, j, queue)
                         /\ F[k][queue] = Switch(t, Len(t.range) + 1 - j, queue, F[j - 1])

(* An entry that waits in the construction of the tree.                    *)
LEMMA WaitsIs ==
  ASSUME NEW t, WellFormed(t), NEW q \in Waits(t)
  PROVE  /\ q.op \in 1 .. Len(t.ops) /\ t.ops[q.op].pre \subseteq Facts(t)
         /\ q = [op |-> q.op, rest |-> q.rest]
         /\ \A f \in t.ops[q.op].pre : f[1] \in Logic(t) /\ f[1] \in 1 .. Len(t.range)
                                       /\ f = <<f[1], f[2]>>
         /\ \A R : R \subseteq q.rest => /\ [q EXCEPT !.rest = R] \in Waits(t)
                                         /\ [q EXCEPT !.rest = R].op = q.op
                                         /\ [q EXCEPT !.rest = R].rest = R
<1> DEFINE U == UNION {t.ops[i].pre : i \in DOMAIN t.ops}
<1>1. DOMAIN t.ops = 1 .. Len(t.ops)
  BY DEF WellFormed, IsSeq
<1>2. q \in [op : DOMAIN t.ops, rest : SUBSET U]
  BY DEF Waits
<1> HIDE DEF U
<1>3. q.op \in DOMAIN t.ops /\ q.rest \in SUBSET U /\ q = [op |-> q.op, rest |-> q.rest]
  BY <1>2
<1>4. t.ops[q.op].pre \subseteq Facts(t)
  BY <1>1, <1>3 DEF WellFormed, OperatorOK
<1>5. \A f \in Facts(t) : f[1] \in Logic(t) /\ f[1] \in 1 .. Len(t.range) /\ f = <<f[1], f[2]>>
  <2>1. Logic(t) = 1 .. Len(t.range)
    BY DEF WellFormed, VariablesOK, Logic
  <2> QED  BY <2>1 DEF Facts
<1>6. ASSUME NEW R, R \subseteq q.rest
      PROVE  /\ [q EXCEPT !.rest = R] \in Waits(t)
             /\ [q EXCEPT !.rest = R].op = q.op
             /\ [q EXCEPT !.rest = R].rest = R
  <2>1. [q EXCEPT !.rest = R] = [op |-> q.op, rest |-> R]
    BY <1>2
  <2>2. R \in SUBSET U
    BY <1>3, <1>6
  <2>3. [op |-> q.op, rest |-> R] \in [op : DOMAIN t.ops, rest : SUBSET U]
    BY <1>3, <2>2
  <2> QED  BY <2>1, <2>3 DEF Waits, U
<1> QED  BY <1>1, <1>3, <1>4, <1>5, <1>6

(* The node built for a queue is a leaf of operators without a test left,  *)
(* or a switch on the first variable that one of them tests.               *)
LEMMA NodeShape ==
  ASSUME NEW t, WellFormed(t), NEW pk, NEW buf, NEW F, GeneratorSteps(t, F)
  PROVE  \A k \in 0 .. Len(t.range) : \A queue :
            Pending(t, pk, buf, k, queue) => Shaped(t, pk, buf, F, k, queue)
<1> DEFINE n == Len(t.range)
           Good == {k \in 0 .. n : \A queue :
                      Pending(t, pk, buf, k, queue) => Shaped(t, pk, buf, F, k, queue)}
<1>1. n \in Nat
  BY DEF WellFormed, VariablesOK
<1>2. /\ F[0] = [queue \in SUBSET Waits(t) |-> Leaf(queue)]
      /\ \A k \in 1 .. n : F[k] = [queue \in SUBSET Waits(t) |->
                                     Construct(t, n + 1 - k, queue, F[k - 1])]
  BY DEF GeneratorSteps
<1>3. 0 \in Good
  <2>1. ASSUME NEW queue, Pending(t, pk, buf, 0, queue)
        PROVE  Shaped(t, pk, buf, F, 0, queue)
    <3>1. queue \in SUBSET Waits(t)
      BY <2>1 DEF Pending
    <3>2. F[0][queue] = Leaf(queue)
      BY <1>2, <3>1
    <3>3. ASSUME NEW q \in queue, NEW f \in q.rest  PROVE  FALSE
      <4>1. q \in Waits(t) /\ f \in t.ops[q.op].pre /\ f[1] >= n + 1 - 0
        BY <2>1, <3>1 DEF Pending
      <4>2. f[1] \in 1 .. n
        BY <4>1, WaitsIs
      <4> HIDE DEF n
      <4> QED  BY <1>1, <4>1, <4>2
    <3> QED  BY <3>2, <3>3 DEF Shaped
  <2> QED  BY <1>1, <2>1
<1>4. ASSUME NEW k \in 0 .. n - 1, k \in Good  PROVE  k + 1 \in Good
  <2>1. k + 1 \in 1 .. n /\ k + 1 \in 0 .. n /\ (k + 1) - 1 = k /\ k \in Int /\ k >= 0
    BY <1>1
  <2> DEFINE v == n + 1 - (k + 1)
  <2>2. ASSUME NEW queue, Pending(t, pk, buf, k + 1, queue)
        PROVE  Shaped(t, pk, buf, F, k + 1, queue)
    <3> DEFINE immediate == {q \in queue : q.rest = {}}
               later == {q \in queue \ immediate : ~Tests(q, v)}
    <3>1. queue \in SUBSET Waits(t)
      BY <2>2 DEF Pending
    <3> HIDE DEF n
    <3>2. F[k + 1][queue] = Construct(t, v, queue, F[k])
      <4>1. F[k + 1] = [queue2 \in SUBSET Waits(t) |->
                          Construct(t, n + 1 - (k + 1), queue2, F[(k + 1) - 1])]
        BY <1>2, <2>1
      <4>2. F[k + 1][queue] = Construct(t, n + 1 - (k + 1), queue, F[(k + 1) - 1])
        BY <3>1, <4>1
      <4> QED  BY <2>1, <4>2
    <3>3. Construct(t, v, queue, F[k])
            = IF queue = immediate THEN Leaf(queue)
              ELSE IF later = queue THEN F[k][queue] ELSE Switch(t, v, queue, F[k])
      BY DEF Construct, Switch, Untested
    <3>4. CASE queue = immediate
      BY <3>2, <3>3, <3>4 DEF Shaped
    <3>5. CASE queue # immediate /\ later = queue
      <4>1. ASSUME NEW q \in queue, NEW f \in q.rest  PROVE  f[1] >= n + 1 - k
        <5>1. q \in later
          BY <3>5
        <5>2. f[1] # v
          BY <5>1 DEF Tests
        <5>3. f[1] >= v /\ q \in Waits(t) /\ f \in t.ops[q.op].pre
          BY <2>2, <3>1 DEF Pending, n
        <5>4. f[1] \in 1 .. n
          BY <5>3, WaitsIs DEF n
        <5> QED  BY <1>1, <2>1, <5>2, <5>3, <5>4
      <4>2. Pending(t, pk, buf, k, queue)
        BY <2>2, <4>1 DEF Pending, n
      <4>3. Shaped(t, pk, buf, F, k, queue)
        BY <1>4, <4>2
      <4>4. F[k + 1][queue] = F[k][queue]
        BY <3>2, <3>3, <3>5
      <4>5. \A j \in 1 .. k : j \in 1 .. k + 1
        BY <2>1
      <4> QED  BY <4>3, <4>4, <4>5 DEF Shaped
    <3>6. CASE queue # immediate /\ later # queue
      <4>1. F[k + 1][queue] = Switch(t, v, queue, F[k])
        BY <3>2, <3>3, <3>6
      <4>2. k + 1 \in 1 .. k + 1
        BY <2>1
      <4> QED  BY <2>1, <2>2, <4>1, <4>2 DEF Shaped, n
    <3> QED  BY <3>4, <3>5, <3>6
  <2> QED  BY <2>1, <2>2
<1> HIDE DEF Good
<1>5. 0 .. n \subseteq Good
  BY <1>1, <1>3, <1>4, Upward
<1> QED  BY <1>5 DEF Good

(* What waits behind a switch, in the branches that the state takes.       *)
LEMMA PendingOn ==
  ASSUME NEW t, WellFormed(t), NEW pk, NEW buf, NEW j \in 1 .. Len(t.range),
         NEW queue,
         Pending(t, pk, buf, j, queue), NEW v, v = Len(t.range) + 1 - j
  PROVE  /\ Pending(t, pk, buf, j - 1, Past(v, Value(pk, buf, v), queue))
         /\ Pending(t, pk, buf, j - 1, Untested(v, queue))
<1> DEFINE n == Len(t.range)
           val == Value(pk, buf, v)
           Cut(q) == {f \in q.rest : f[1] # v}
<1>1. n \in Nat /\ j \in 1 .. n /\ v \in Int /\ v = n + 1 - j
  BY DEF WellFormed, VariablesOK
<1>2. ASSUME NEW q \in queue
      PROVE  /\ q \in Waits(t) /\ q.rest \subseteq t.ops[q.op].pre
             /\ \A f \in q.rest : f[1] \in Int /\ f[1] >= v
             /\ \A f \in t.ops[q.op].pre : /\ f = <<f[1], f[2]>>
                                           /\ f \in q.rest \/ Value(pk, buf, f[1]) = f[2]
  BY WaitsIs DEF Pending
<1>3. \A f : f[1] \in Int /\ f[1] >= v /\ f[1] # v => f[1] >= n + 1 - (j - 1)
  <2> HIDE DEF n
  <2>1. \A x \in Int : x >= v /\ x # v => x >= n + 1 - (j - 1)
    BY <1>1
  <2> QED  BY <2>1
<1>4. Pending(t, pk, buf, j - 1, Past(v, val, queue))
  <2>1. ASSUME NEW p \in Past(v, val, queue)
        PROVE  \E q \in queue : <<v, val>> \in q.rest /\ p = [q EXCEPT !.rest = Cut(q)]
    BY DEF Past
  <2>2. ASSUME NEW p \in Past(v, val, queue)
        PROVE  /\ p \in Waits(t) /\ p.rest \subseteq t.ops[p.op].pre
               /\ \A f \in p.rest : f[1] >= n + 1 - (j - 1)
               /\ \A f \in t.ops[p.op].pre : f \in p.rest \/ Value(pk, buf, f[1]) = f[2]
    <3>1. PICK q \in queue : <<v, val>> \in q.rest /\ p = [q EXCEPT !.rest = Cut(q)]
      BY <2>1
    <3>2. Cut(q) \subseteq q.rest
      OBVIOUS
    <3>3. p \in Waits(t) /\ p.op = q.op /\ p.rest = Cut(q)
      <4> HIDE DEF Cut
      <4> QED  BY <1>2, <3>1, <3>2, WaitsIs
    <3>4. \A f \in p.rest : f \in q.rest /\ f[1] # v
      BY <3>3
    <3>5. ASSUME NEW f \in t.ops[p.op].pre, f \notin p.rest
          PROVE  Value(pk, buf, f[1]) = f[2]
      <4>1. CASE f \in q.rest
        <5>1. f[1] = v
          BY <3>3, <3>5, <4>1
        <5>2. <<v, val>> \in t.ops[q.op].pre /\ Consistent(t.ops[q.op].pre)
          <6>1. OperatorOK(t, t.ops[q.op])
            BY <1>2, WaitsIs DEF WellFormed
          <6> QED  BY <1>2, <3>1, <6>1 DEF OperatorOK
        <5>3. f = <<v, val>>
          BY <3>3, <3>5, <5>1, <5>2 DEF Consistent
        <5> QED  BY <5>3
      <4>2. CASE f \notin q.rest
        BY <1>2, <3>3, <3>5, <4>2
      <4> QED  BY <4>1, <4>2
    <3> HIDE DEF n
    <3> QED  BY <1>2, <1>3, <3>3, <3>4, <3>5
  <2> QED  BY <2>2 DEF Pending
<1>5. Pending(t, pk, buf, j - 1, Untested(v, queue))
  <2>1. ASSUME NEW q \in Untested(v, queue)
        PROVE  q \in queue /\ \A f \in q.rest : f[1] # v
    BY DEF Untested, Tests
  <2>2. ASSUME NEW q \in Untested(v, queue), NEW f \in q.rest
        PROVE  f[1] >= n + 1 - (j - 1)
    <3> HIDE DEF n
    <3> QED  BY <1>2, <1>3, <2>1
  <2> QED  BY <1>2, <2>1, <2>2 DEF Pending
<1> QED  BY <1>4, <1>5

(* The successor generator finds the operators whose preconditions hold.   *)
LEMMA GeneratorIs ==
  ASSUME NEW t, WellFormed(t), NEW pk, Placing(t, pk),
         NEW buf \in Stored(t, pk)
  PROVE  Generated(t, SuccessorGenerator(t), pk, buf)
           = {i \in DOMAIN t.ops : IsApplicable(pk, buf, t.ops[i])}
<1> DEFINE n == Len(t.range)
           start == {Waiting(t.ops[i], i) : i \in DOMAIN t.ops}
           g == SuccessorGenerator(t)
<1>1. n \in Nat /\ Logic(t) = 1 .. n /\ DOMAIN t.ops = 1 .. Len(t.ops)
  BY DEF WellFormed, VariablesOK, Logic, IsSeq
<1>2. PICK F : GeneratorSteps(t, F) /\ g = F[n][start]
  BY <1>1, GeneratorRun
<1>3. PICK V : VisitsSteps(t, g, pk, buf, V) /\ Generated(t, g, pk, buf) = UNION {node.ops : node \in V[n]}
  BY <1>1, VisitsRun
<1>4. V[0] = {g} /\ \A k \in 1 .. n : V[k] = Visits(pk, buf, V[k - 1])
  BY <1>3 DEF VisitsSteps
<1>5. \A k \in 0 .. n - 1 : V[k + 1] = Visits(pk, buf, V[k])
  <2> HIDE DEF n
  <2>1. ASSUME NEW k \in 0 .. n - 1  PROVE  V[k + 1] = Visits(pk, buf, V[k])
    <3>1. k + 1 \in 1 .. n /\ (k + 1) - 1 = k
      BY <1>1
    <3> QED  BY <1>4, <3>1
  <2> QED  BY <2>1
<1> DEFINE Node(y) ==
             \E k \in 0 .. n : \E queue : /\ Pending(t, pk, buf, k, queue)
                                          /\ y = F[k][queue]
           OnWay(y, i, k) ==
             \E j \in 0 .. k : \E queue : /\ Pending(t, pk, buf, j, queue) /\ y = F[j][queue]
                                      /\ \E q \in queue : q.op = i
           Applies(i) == i \in DOMAIN t.ops /\ IsApplicable(pk, buf, t.ops[i])
<1>6. Pending(t, pk, buf, n, start) /\ \A i \in DOMAIN t.ops : \E q \in start : q.op = i
  <2>1. ASSUME NEW q \in start
        PROVE  /\ q \in Waits(t) /\ q.rest \subseteq t.ops[q.op].pre
               /\ \A f \in q.rest : f[1] >= n + 1 - n
               /\ \A f \in t.ops[q.op].pre : f \in q.rest
    <3>1. PICK i \in DOMAIN t.ops : q = Waiting(t.ops[i], i)
      OBVIOUS
    <3>2. q.op = i /\ q.rest = t.ops[i].pre /\ q = [op |-> i, rest |-> t.ops[i].pre]
      BY <3>1 DEF Waiting
    <3>3. q \in Waits(t)
      BY <3>2 DEF Waits
    <3>4. \A f \in q.rest : f[1] \in 1 .. n
      BY <3>2, <3>3, WaitsIs
    <3> HIDE DEF n
    <3> QED  BY <1>1, <3>2, <3>3, <3>4
  <2>2. ASSUME NEW i \in DOMAIN t.ops  PROVE  \E q \in start : q.op = i
    <3>1. Waiting(t.ops[i], i) \in start /\ Waiting(t.ops[i], i).op = i
      BY DEF Waiting
    <3> HIDE DEF start
    <3> QED  BY <3>1
  <2> HIDE DEF start
  <2> QED  BY <2>1, <2>2 DEF Pending
<1> HIDE DEF start, g

(* Every node visited waits for operators that passed the tests before it. *)
<1>7. ASSUME NEW k \in 0 .. n, NEW queue, Pending(t, pk, buf, k, queue),
             F[k][queue].kind = "switch"
      PROVE  \E j \in 1 .. k :
               /\ Pending(t, pk, buf, j, queue)
               /\ F[k][queue] = Switch(t, n + 1 - j, queue, F[j - 1])
  <2>1. Shaped(t, pk, buf, F, k, queue)
    BY <1>2, <1>7, NodeShape
  <2>2. Leaf(queue).kind = "leaf"
    BY DEF Leaf
  <2>3. Leaf(queue).kind # "switch"
    BY <2>2
  <2> QED  BY <1>7, <2>1, <2>3 DEF Shaped
<1>8. ASSUME NEW j \in 1 .. n, NEW queue, Pending(t, pk, buf, j, queue), NEW y,
             y = Switch(t, n + 1 - j, queue, F[j - 1])
      PROVE  LET v == n + 1 - j
                 past == Past(v, Value(pk, buf, v), queue)
             IN  /\ y.var = v /\ v \in Logic(t)
                 /\ y.child[Get(pk, buf, <<"var", y.var>>)] = F[j - 1][past]
                 /\ y.other = F[j - 1][Untested(v, queue)]
                 /\ Pending(t, pk, buf, j - 1, past)
                 /\ Pending(t, pk, buf, j - 1, Untested(v, queue))
                 /\ j - 1 \in 0 .. n /\ y.kind = "switch"
                 /\ y.ops = {q.op : q \in {p \in queue : p.rest = {}}}
  <2> DEFINE v == n + 1 - j
             past == Past(v, Value(pk, buf, v), queue)
  <2>1. v \in Logic(t) /\ j - 1 \in 0 .. n
    <3> HIDE DEF n
    <3> QED  BY <1>1
  <2>2. Value(pk, buf, v) \in 0 .. t.range[v] - 1
    BY <2>1, StoredValue DEF Value
  <2>3. /\ Pending(t, pk, buf, j - 1, past)
        /\ Pending(t, pk, buf, j - 1, Untested(v, queue))
    BY <1>8, PendingOn
  <2>4. /\ y.var = v /\ y.kind = "switch" /\ y.other = F[j - 1][Untested(v, queue)]
        /\ y.ops = {q.op : q \in {p \in queue : p.rest = {}}}
        /\ y.child = [val \in 0 .. t.range[v] - 1 |-> F[j - 1][Past(v, val, queue)]]
    BY <1>8 DEF Switch
  <2>5. y.child[Value(pk, buf, v)] = F[j - 1][past]
    BY <2>2, <2>4
  <2> HIDE DEF v, past
  <2> QED  BY <2>1, <2>3, <2>4, <2>5 DEF Value, v, past
<1> HIDE DEF n
<1>9. \A k \in 0 .. n : \A y \in V[k] : Node(y)
  <2> DEFINE Good == {k \in 0 .. n : \A y \in V[k] : Node(y)}
  <2>1. 0 \in Good
    <3>1. n \in 0 .. n /\ 0 \in 0 .. n
      BY <1>1
    <3>2. Node(g)
      BY <1>2, <1>6, <3>1
    <3> HIDE DEF Node
    <3> QED  BY <1>4, <3>1, <3>2
  <2>2. ASSUME NEW k \in 0 .. n - 1, k \in Good  PROVE  k + 1 \in Good
    <3>1. ASSUME NEW y \in V[k + 1]  PROVE  Node(y)
      <4>1. CASE y \in V[k]
        BY <2>2, <4>1
      <4>2. CASE y \notin V[k]
        <5>1. PICK z \in V[k] : /\ z.kind = "switch"
                                /\ y \in {z.child[Get(pk, buf, <<"var", z.var>>)], z.other}
          BY <1>5, <4>2 DEF Visits
        <5>6. PICK k2 \in 0 .. n : \E queue : Pending(t, pk, buf, k2, queue) /\ z = F[k2][queue]
          BY <2>2, <5>1
        <5>2. PICK queue : Pending(t, pk, buf, k2, queue) /\ z = F[k2][queue]
          BY <5>6
        <5>3. PICK j \in 1 .. k2 : /\ Pending(t, pk, buf, j, queue)
                                   /\ z = Switch(t, n + 1 - j, queue, F[j - 1])
          BY <1>7, <5>1, <5>2
        <5>4. j \in 1 .. n
          BY <1>1
        <5>5. /\ \E p : Pending(t, pk, buf, j - 1, p)
                        /\ z.child[Get(pk, buf, <<"var", z.var>>)] = F[j - 1][p]
              /\ \E p : Pending(t, pk, buf, j - 1, p) /\ z.other = F[j - 1][p]
              /\ j - 1 \in 0 .. n
          <6> DEFINE v == n + 1 - j
                     past == Past(v, Value(pk, buf, v), queue)
          <6>1. /\ z.child[Get(pk, buf, <<"var", z.var>>)] = F[j - 1][past]
                /\ z.other = F[j - 1][Untested(v, queue)]
                /\ Pending(t, pk, buf, j - 1, past)
                /\ Pending(t, pk, buf, j - 1, Untested(v, queue))
                /\ j - 1 \in 0 .. n
            BY <1>8, <5>3, <5>4
          <6> HIDE DEF past
          <6> QED  BY <6>1
        <5> QED  BY <5>1, <5>5
      <4> QED  BY <4>1, <4>2
    <3>2. k + 1 \in 0 .. n
      BY <1>1
    <3> HIDE DEF Node
    <3> QED  BY <3>1, <3>2
  <2> HIDE DEF Good
  <2>3. 0 .. n \subseteq Good
    BY <1>1, <2>1, <2>2, Upward
  <2> QED  BY <2>3 DEF Good
<1>10. ASSUME NEW k \in 0 .. n, NEW queue, Pending(t, pk, buf, k, queue),
              NEW i \in F[k][queue].ops
       PROVE  Applies(i)
  <2>1. Shaped(t, pk, buf, F, k, queue)
    BY <1>2, <1>10, NodeShape DEF n
  <2>2. \E q \in queue : q.op = i /\ q.rest = {}
    <3>1. CASE F[k][queue] = Leaf(queue) /\ \A q \in queue : q.rest = {}
      <4>1. F[k][queue].ops = {q.op : q \in queue}
        BY <3>1 DEF Leaf
      <4> QED  BY <3>1, <4>1
    <3>2. CASE \E j \in 1 .. k : /\ Pending(t, pk, buf, j, queue)
                                 /\ F[k][queue] = Switch(t, n + 1 - j, queue, F[j - 1])
      <4>1. PICK j \in 1 .. k : F[k][queue] = Switch(t, n + 1 - j, queue, F[j - 1])
        BY <3>2
      <4>2. F[k][queue].ops = {q.op : q \in {p \in queue : p.rest = {}}}
        BY <4>1 DEF Switch
      <4> QED  BY <4>2
    <3> QED  BY <2>1, <3>1, <3>2 DEF Shaped, n
  <2>3. PICK q \in queue : q.op = i /\ q.rest = {}
    BY <2>2
  <2>4. /\ q \in Waits(t)
        /\ \A f \in t.ops[q.op].pre : f \in q.rest \/ Value(pk, buf, f[1]) = f[2]
    BY <1>10 DEF Pending
  <2>5. i \in DOMAIN t.ops
    BY <1>1, <2>3, <2>4, WaitsIs
  <2>6. \A f \in t.ops[i].pre : Value(pk, buf, f[1]) = f[2]
    BY <2>3, <2>4
  <2> QED  BY <2>5, <2>6 DEF IsApplicable, Holds, Value
<1>11. ASSUME NEW i, Applies(i)
       PROVE  \A k \in 0 .. n : \/ \E y \in V[k] : i \in y.ops
                                \/ \E y \in V[k] : OnWay(y, i, n - k)
  <2> DEFINE Found(k) == \/ \E y \in V[k] : i \in y.ops
                         \/ \E y \in V[k] : OnWay(y, i, n - k)
             Good == {k \in 0 .. n : Found(k)}
  <2>1. 0 \in Good
    <3>1. n \in 0 .. n - 0 /\ 0 \in 0 .. n
      BY <1>1
    <3>2. OnWay(g, i, n - 0)
      BY <1>2, <1>6, <1>11, <3>1
    <3>3. g \in V[0]
      BY <1>4
    <3> HIDE DEF OnWay
    <3> QED  BY <3>1, <3>2, <3>3
  <2>2. ASSUME NEW k \in 0 .. n - 1, k \in Good  PROVE  k + 1 \in Good
    <3>1. V[k] \subseteq V[k + 1]
      BY <1>5 DEF Visits
    <3>2. k + 1 \in 0 .. n
      BY <1>1
    <3>3. CASE \E y \in V[k] : i \in y.ops
      <4> HIDE DEF OnWay
      <4> QED  BY <3>1, <3>2, <3>3
    <3>4. CASE \E y \in V[k] : OnWay(y, i, n - k)
      <4>1. PICK y \in V[k] : OnWay(y, i, n - k)
        BY <3>4
      <4>9. PICK k2 \in 0 .. n - k : \E queue :
               /\ Pending(t, pk, buf, k2, queue) /\ y = F[k2][queue]
               /\ \E q \in queue : q.op = i
        BY <4>1
      <4>2. PICK queue :
               /\ Pending(t, pk, buf, k2, queue) /\ y = F[k2][queue]
               /\ \E q \in queue : q.op = i
        BY <4>9
      <4>3. PICK q \in queue : q.op = i
        BY <4>2
      <4>4. k2 \in 0 .. n
        BY <1>1
      <4>5. Shaped(t, pk, buf, F, k2, queue)
        BY <1>2, <4>2, <4>4, NodeShape DEF n
      <4>6. CASE F[k2][queue] = Leaf(queue)
        <5>1. i \in y.ops
          BY <4>2, <4>3, <4>6 DEF Leaf
        <5> HIDE DEF OnWay
        <5> QED  BY <3>1, <3>2, <5>1
      <4>7. CASE \E j \in 1 .. k2 : /\ Pending(t, pk, buf, j, queue)
                                    /\ F[k2][queue] = Switch(t, n + 1 - j, queue, F[j - 1])
        <5>1. PICK j \in 1 .. k2 : /\ Pending(t, pk, buf, j, queue)
                                   /\ y = Switch(t, n + 1 - j, queue, F[j - 1])
          BY <4>2, <4>7
        <5>2. j \in 1 .. n /\ j - 1 \in 0 .. n - (k + 1)
          BY <1>1
        <5> DEFINE v == n + 1 - j
                   val == Value(pk, buf, v)
                   past == Past(v, val, queue)
        <5>3. /\ y.child[Get(pk, buf, <<"var", y.var>>)] = F[j - 1][past]
              /\ y.other = F[j - 1][Untested(v, queue)]
              /\ Pending(t, pk, buf, j - 1, past)
              /\ Pending(t, pk, buf, j - 1, Untested(v, queue))
              /\ y.kind = "switch"
              /\ y.ops = {p.op : p \in {p \in queue : p.rest = {}}}
          BY <1>8, <5>1, <5>2
        <5>4. F[j - 1][past] \in V[k + 1] /\ F[j - 1][Untested(v, queue)] \in V[k + 1]
          <6>1. {y.child[Get(pk, buf, <<"var", y.var>>)], y.other} \subseteq Visits(pk, buf, V[k])
            BY <4>1, <5>3 DEF Visits
          <6>2. V[k + 1] = Visits(pk, buf, V[k])
            BY <1>5
          <6> HIDE DEF past, v
          <6> QED  BY <5>3, <6>1, <6>2
        <5>5. CASE q.rest = {}
          <6>1. i \in y.ops
            BY <4>3, <5>3, <5>5
          <6> HIDE DEF OnWay
          <6> QED  BY <3>1, <3>2, <6>1
        <5> HIDE DEF v
        <5>6. CASE q.rest # {} /\ ~Tests(q, v)
          <6>1. q \in Untested(v, queue)
            BY <5>6 DEF Untested
          <6>2. OnWay(F[j - 1][Untested(v, queue)], i, n - (k + 1))
            BY <4>3, <5>2, <5>3, <6>1
          <6> HIDE DEF OnWay
          <6> QED  BY <3>2, <5>4, <6>2
        <5>7. CASE Tests(q, v)
          <6>1. PICK f \in q.rest : f[1] = v
            BY <5>7 DEF Tests
          <6>2. q \in Waits(t) /\ f \in t.ops[q.op].pre
            BY <5>1 DEF Pending
          <6>3. f = <<v, val>>
            <7>1. f = <<f[1], f[2]>>
              BY <6>2, WaitsIs
            <7>2. Value(pk, buf, f[1]) = f[2]
              BY <1>11, <4>3, <6>2 DEF IsApplicable, Holds, Value
            <7> QED  BY <6>1, <7>1, <7>2
          <6> DEFINE p == [q EXCEPT !.rest = {h \in @ : h[1] # v}]
          <6>4. p \in past
            BY <6>1, <6>3 DEF Past
          <6>5. p.op = i
            BY <4>3, <6>2, WaitsIs
          <6> HIDE DEF p, past
          <6>6. OnWay(F[j - 1][past], i, n - (k + 1))
            BY <5>2, <5>3, <6>4, <6>5
          <6> HIDE DEF OnWay
          <6> QED  BY <3>2, <5>4, <6>6
        <5> QED  BY <5>5, <5>6, <5>7
      <4> QED  BY <4>5, <4>6, <4>7 DEF Shaped, n
    <3> HIDE DEF OnWay
    <3> QED  BY <2>2, <3>3, <3>4
  <2> HIDE DEF Good
  <2>3. 0 .. n \subseteq Good
    BY <1>1, <2>1, <2>2, Upward
  <2> QED  BY <2>3 DEF Good
<1>12. ASSUME NEW i, Applies(i)  PROVE  \E y \in V[n] : i \in y.ops
  <2>1. n \in 0 .. n /\ n - n = 0
    BY <1>1
  <2>2. CASE \E y \in V[n] : OnWay(y, i, n - n)
    <3>1. PICK y \in V[n] : OnWay(y, i, 0)
      BY <2>1, <2>2
    <3>9. PICK j \in 0 .. 0 : \E queue :
             /\ Pending(t, pk, buf, j, queue) /\ y = F[j][queue]
             /\ \E q \in queue : q.op = i
      BY <3>1
    <3>2. PICK queue : /\ Pending(t, pk, buf, j, queue) /\ y = F[j][queue]
                       /\ \E q \in queue : q.op = i
      BY <3>9
    <3>3. j = 0
      OBVIOUS
    <3>4. 0 \in 0 .. n /\ 1 .. 0 = {}
      BY <1>1
    <3>5. Shaped(t, pk, buf, F, 0, queue)
      BY <1>2, <3>2, <3>3, <3>4, NodeShape DEF n
    <3>6. y = Leaf(queue)
      BY <3>2, <3>3, <3>4, <3>5 DEF Shaped
    <3>7. i \in y.ops
      BY <3>2, <3>6 DEF Leaf
    <3> QED  BY <3>7
  <2> HIDE DEF OnWay, Applies
  <2> QED  BY <1>11, <1>12, <2>1, <2>2
<1>13. ASSUME NEW y \in V[n], NEW i \in y.ops  PROVE  Applies(i)
  <2>1. n \in 0 .. n
    BY <1>1
  <2>3. PICK k \in 0 .. n : \E queue : Pending(t, pk, buf, k, queue) /\ y = F[k][queue]
    BY <1>9, <2>1
  <2>2. PICK queue : Pending(t, pk, buf, k, queue) /\ y = F[k][queue]
    BY <2>3
  <2> HIDE DEF Applies
  <2> QED  BY <1>10, <2>2
<1>14. \A i : i \in Generated(t, g, pk, buf) <=> Applies(i)
  <2> HIDE DEF Applies
  <2> QED  BY <1>3, <1>12, <1>13
<1> QED  BY <1>14 DEF g
=============================================================================
