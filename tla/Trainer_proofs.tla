--------------------------- MODULE Trainer_proofs ---------------------------
(***************************************************************************)
(* Theorems about DataLoader and about Trainer, which runs two loaders.    *)
(* Those about DataLoader are for every number of workers, ring slots,     *)
(* samples and batches; those about Trainer for every ring, however short, *)
(* and any number of workers, of batches and of steps.                     *)
(***************************************************************************)
EXTENDS Trainer, FunctionTheorems, FiniteSetTheorems, WellFoundedInduction, TLAPS

----------------------------------------------------------------------------
(* The sampler: for every bound, every key and every hash, the loop of     *)
(* gd_sampler_permute_bounded ends, and the numbers it ends with are a     *)
(* permutation of those below the bound.                                   *)

Pair(half) == (0 .. half - 1) \X (0 .. half - 1)
Number(p, half) == p[1] * half + p[2]

HashSound(key, half) == \A round \in 0 .. 5, right \in 0 .. half - 1 : Hash(key, round, right) \in Nat

\* Whatever the hash is, it gives numbers.
HashNatural == \A key : \A round \in 0 .. 5, right \in Nat : Hash(key, round, right) \in Nat

\* What half a number and a key have to be for the network.
Sound(key, half) == half \in Nat \ {0} /\ XorSound(half) /\ HashSound(key, half)

----------------------------------------------------------------------------
(* The Feistel network is one-to-one.                                      *)

\* A turn leads from pairs to pairs, and no two to the same.
LEMMA TurnOneToOne ==
  ASSUME NEW key, NEW half, Sound(key, half), NEW round \in 0 .. 5
  PROVE  /\ \A p \in Pair(half) : Turn(p, key, round, half) \in Pair(half)
         /\ \A p, q \in Pair(half) : Turn(p, key, round, half) = Turn(q, key, round, half) => p = q
<1> DEFINE H == 0 .. half - 1
           f(right) == FeistelRound(right, key, round, half)
<1>1. \A right \in H : f(right) \in H
  <2> TAKE right \in H
  <2>1. Hash(key, round, right) \in Nat /\ half \in Nat \ {0} BY DEF Sound, HashSound
  <2> QED BY <2>1 DEF FeistelRound
<1>2. \A a, b \in H : Xor(a, b) \in H /\ Xor(Xor(a, b), b) = a BY DEF Sound, XorSound
<1> HIDE DEF H, f
<1>3. ASSUME NEW p \in Pair(half) PROVE Turn(p, key, round, half) \in Pair(half)
  <2>1. p[1] \in H /\ p[2] \in H BY DEF Pair, H
  <2>2. Turn(p, key, round, half) = <<p[2], Xor(p[1], f(p[2]))>> BY DEF Turn, f
  <2>3. Xor(p[1], f(p[2])) \in H BY <1>1, <1>2, <2>1
  <2> QED BY <2>1, <2>2, <2>3 DEF Pair, H
<1>4. ASSUME NEW p \in Pair(half), NEW q \in Pair(half),
             Turn(p, key, round, half) = Turn(q, key, round, half)
      PROVE  p = q
  <2>1. /\ p[1] \in H /\ p[2] \in H /\ q[1] \in H /\ q[2] \in H
        /\ p = <<p[1], p[2]>> /\ q = <<q[1], q[2]>>
    BY DEF Pair, H
  <2>2. <<p[2], Xor(p[1], f(p[2]))>> = <<q[2], Xor(q[1], f(q[2]))>> BY <1>4 DEF Turn, f
  <2>3. p[2] = q[2] /\ Xor(p[1], f(p[2])) = Xor(q[1], f(p[2])) BY <2>2
  <2>4. p[1] = q[1] BY <1>1, <1>2, <2>1, <2>3
  <2> QED BY <2>1, <2>3, <2>4
<1> QED BY <1>3, <1>4

LEMMA SixTurnsOneToOne ==
  ASSUME NEW key, NEW half, Sound(key, half)
  PROVE  /\ \A p \in Pair(half) : SixTurns(p, key, half) \in Pair(half)
         /\ \A p, q \in Pair(half) : SixTurns(p, key, half) = SixTurns(q, key, half) => p = q
<1> DEFINE T(p, round) == Turn(p, key, round, half)
<1>1. \A round \in 0 .. 5 :
        /\ \A p \in Pair(half) : T(p, round) \in Pair(half)
        /\ \A p, q \in Pair(half) : T(p, round) = T(q, round) => p = q
  BY TurnOneToOne
<1>2. \A p : SixTurns(p, key, half) = T(T(T(T(T(T(p, 0), 1), 2), 3), 4), 5) BY DEF SixTurns
<1> HIDE DEF T
<1>3. 0 \in 0 .. 5 /\ 1 \in 0 .. 5 /\ 2 \in 0 .. 5 /\ 3 \in 0 .. 5 /\ 4 \in 0 .. 5 /\ 5 \in 0 .. 5
  OBVIOUS
<1>4. ASSUME NEW p \in Pair(half)
      PROVE  /\ T(p, 0) \in Pair(half) /\ T(T(p, 0), 1) \in Pair(half)
             /\ T(T(T(p, 0), 1), 2) \in Pair(half) /\ T(T(T(T(p, 0), 1), 2), 3) \in Pair(half)
             /\ T(T(T(T(T(p, 0), 1), 2), 3), 4) \in Pair(half)
             /\ T(T(T(T(T(T(p, 0), 1), 2), 3), 4), 5) \in Pair(half)
  BY <1>1, <1>3
<1>5. ASSUME NEW p \in Pair(half), NEW q \in Pair(half),
             SixTurns(p, key, half) = SixTurns(q, key, half)
      PROVE  p = q
  <2>1. T(T(T(T(T(p, 0), 1), 2), 3), 4) = T(T(T(T(T(q, 0), 1), 2), 3), 4)
    BY <1>1, <1>2, <1>3, <1>4, <1>5
  <2>2. T(T(T(T(p, 0), 1), 2), 3) = T(T(T(T(q, 0), 1), 2), 3) BY <1>1, <1>3, <1>4, <2>1
  <2>3. T(T(T(p, 0), 1), 2) = T(T(T(q, 0), 1), 2) BY <1>1, <1>3, <1>4, <2>2
  <2>4. T(T(p, 0), 1) = T(T(q, 0), 1) BY <1>1, <1>3, <1>4, <2>3
  <2>5. T(p, 0) = T(q, 0) BY <1>1, <1>3, <1>4, <2>4
  <2> QED BY <1>1, <1>3, <2>5
<1> QED BY <1>2, <1>4, <1>5

\* Numbers and pairs of halves are the same thing.
LEMMA HalvesType ==
  ASSUME NEW half \in Nat \ {0}, NEW x \in 0 .. half * half - 1
  PROVE  Halves(x, half) \in Pair(half) /\ Number(Halves(x, half), half) = x
<1> DEFINE d == x \div half
           r == x % half
<1>1. r \in 0 .. half - 1 OBVIOUS
<1>2. d \in Int /\ x = d * half + r BY SMTT(30)
<1> HIDE DEF d, r
<1>3. d * half < half * half /\ d * half > -half BY <1>1, <1>2
<1>4. d < half /\ d > -1 BY <1>2, <1>3, SMTT(30)
<1>5. d \in 0 .. half - 1 BY <1>2, <1>4
<1>6. Halves(x, half) = <<d, r>> BY DEF Halves, d, r
<1> QED BY <1>1, <1>2, <1>5, <1>6 DEF Pair, Number

LEMMA NumberOneToOne ==
  ASSUME NEW half \in Nat \ {0}, NEW p \in Pair(half), NEW q \in Pair(half)
  PROVE  /\ Number(p, half) \in 0 .. half * half - 1
         /\ Number(p, half) = Number(q, half) => p = q
<1>1. /\ p[1] \in 0 .. half - 1 /\ p[2] \in 0 .. half - 1 /\ p = <<p[1], p[2]>>
      /\ q[1] \in 0 .. half - 1 /\ q[2] \in 0 .. half - 1 /\ q = <<q[1], q[2]>>
  BY DEF Pair
<1>2. \A a, b \in Nat : a < b => a * half + half <= b * half
  <2> SUFFICES ASSUME NEW a \in Nat, NEW b \in Nat, a < b PROVE a * half + half <= b * half
    OBVIOUS
  <2>1. (b - a - 1) * half >= 0 BY SMTT(30)
  <2> QED BY <2>1, SMTT(30)
<1>3. p[1] * half + half <= half * half /\ p[1] * half >= 0 /\ p[1] * half \in Int BY <1>1, <1>2, SMTT(30)
<1>4. half * half \in Int OBVIOUS
<1>5. Number(p, half) \in 0 .. half * half - 1 BY <1>1, <1>3, <1>4 DEF Number
<1>6. ASSUME Number(p, half) = Number(q, half) PROVE p = q
  <2>1. p[1] * half \in Int /\ q[1] * half \in Int BY <1>1
  <2>2. ~ (p[1] < q[1]) BY <1>1, <1>2, <1>6, <2>1 DEF Number
  <2>3. ~ (q[1] < p[1]) BY <1>1, <1>2, <1>6, <2>1 DEF Number
  <2>4. p[1] = q[1] BY <1>1, <2>2, <2>3
  <2> DEFINE a == p[1] * half
             b == q[1] * half
  <2>5. a = b /\ a + p[2] = b + q[2] /\ a \in Int BY <1>6, <2>1, <2>4 DEF Number
  <2> HIDE DEF a, b
  <2>6. p[2] = q[2] BY <1>1, <2>5
  <2> QED BY <1>1, <2>4, <2>6
<1> QED BY <1>5, <1>6

\* gd_sampler_feistel_permute permutes the numbers of twice half_bits bits.
LEMMA FeistelOneToOne ==
  ASSUME NEW key, NEW half, Sound(key, half)
  PROVE  LET Numbers == 0 .. half * half - 1
         IN  /\ \A x \in Numbers : FeistelPermute(x, key, half) \in Numbers
             /\ \A x, y \in Numbers : FeistelPermute(x, key, half) = FeistelPermute(y, key, half) => x = y
<1> DEFINE Numbers == 0 .. half * half - 1
           s(x) == SixTurns(Halves(x, half), key, half)
<1>0. half \in Nat \ {0} BY DEF Sound
<1>1. \A x : FeistelPermute(x, key, half) = Number(s(x), half) BY DEF FeistelPermute, Number
<1>2. \A x \in Numbers : Halves(x, half) \in Pair(half) /\ Number(Halves(x, half), half) = x
  BY <1>0, HalvesType
<1>3. \A x \in Numbers : s(x) \in Pair(half) BY <1>2, SixTurnsOneToOne
<1>4. \A x, y \in Numbers : s(x) = s(y) => Halves(x, half) = Halves(y, half)
  BY <1>2, SixTurnsOneToOne
<1> HIDE DEF s, Numbers
<1>5. \A x \in Numbers : Number(s(x), half) \in Numbers BY <1>0, <1>3, NumberOneToOne DEF Numbers
<1>6. \A x, y \in Numbers : Number(s(x), half) = Number(s(y), half) => s(x) = s(y)
  BY <1>0, <1>3, NumberOneToOne
<1>7. \A x, y \in Numbers : FeistelPermute(x, key, half) = FeistelPermute(y, key, half) => x = y
  <2> TAKE x, y \in Numbers
  <2> HAVE FeistelPermute(x, key, half) = FeistelPermute(y, key, half)
  <2>1. Number(s(x), half) = Number(s(y), half) BY <1>1
  <2>2. Halves(x, half) = Halves(y, half) BY <1>4, <1>6, <2>1
  <2> QED BY <1>2, <2>2
<1>8. \A x \in Numbers : FeistelPermute(x, key, half) \in Numbers BY <1>1, <1>5
<1> QED BY <1>7, <1>8 DEF Numbers

----------------------------------------------------------------------------
(* The loop of gd_sampler_permute_bounded.                                 *)

\* The visited numbers are a closed set, the least one, and each but the
\* first comes after one that is not below the bound.
LEMMA VisitedFacts ==
  ASSUME NEW key, NEW half, Sound(key, half), NEW bound \in Nat,
         NEW x \in 0 .. half * half - 1
  PROVE  LET V == Visited(x, bound, half, key)
         IN  /\ V \subseteq 0 .. half * half - 1
             /\ Closed(V, x, bound, half, key)
             /\ \A P \in SUBSET (0 .. half * half - 1) : Closed(P, x, bound, half, key) => V \subseteq P
             /\ \A v \in V : \/ v = FeistelPermute(x, key, half)
                             \/ \E w \in V : w >= bound /\ v = FeistelPermute(w, key, half)
<1> DEFINE N == 0 .. half * half - 1
           F(w) == FeistelPermute(w, key, half)
           V == Visited(x, bound, half, key)
           C(P) == Closed(P, x, bound, half, key)
<1>1. \A w \in N : F(w) \in N BY FeistelOneToOne
<1>2. V \subseteq N /\ \A v \in N : v \in V <=> \A P \in SUBSET (N \ {v}) : ~ C(P)
  BY DEF Visited
<1>3. \A P : C(P) <=> F(x) \in P /\ \A w \in P : w >= bound => F(w) \in P
  BY DEF Closed
<1>4. x \in N OBVIOUS
<1> HIDE DEF N, F, V, C
<1>5. ASSUME NEW P \in SUBSET N, C(P) PROVE V \subseteq P
  <2> SUFFICES ASSUME NEW v \in V, v \notin P PROVE FALSE
    OBVIOUS
  <2>1. P \in SUBSET (N \ {v}) OBVIOUS
  <2> QED BY <1>2, <1>5, <2>1
<1>6. F(x) \in V
  <2>1. F(x) \in N BY <1>1, <1>4
  <2>2. \A P \in SUBSET (N \ {F(x)}) : ~ C(P) BY <1>3
  <2> QED BY <1>2, <2>1, <2>2
<1>7. ASSUME NEW w \in V, w >= bound PROVE F(w) \in V
  <2>1. w \in N /\ F(w) \in N BY <1>1, <1>2
  <2>2. ASSUME NEW P \in SUBSET (N \ {F(w)}), C(P) PROVE FALSE
    <3>1. w \in P
      <4>1. CASE w \notin P
        <5>1. P \in SUBSET (N \ {w}) BY <4>1
        <5> QED BY <1>2, <2>1, <2>2, <5>1
      <4> QED BY <4>1
    <3> QED BY <1>3, <1>7, <2>2, <3>1
  <2> QED BY <1>2, <2>1, <2>2
<1>8. C(V) BY <1>3, <1>6, <1>7
<1>9. ASSUME NEW v \in V PROVE v = F(x) \/ \E w \in V : w >= bound /\ v = F(w)
  <2> DEFINE P == {u \in V : u = F(x) \/ \E w \in V : w >= bound /\ u = F(w)}
  <2>1. F(x) \in P BY <1>6
  <2>2. \A w \in P : w >= bound => F(w) \in P BY <1>7
  <2>3. P \in SUBSET N BY <1>2
  <2>4. C(P) BY <1>3, <2>1, <2>2
  <2>5. V \subseteq P BY <1>5, <2>3, <2>4
  <2> QED BY <2>5
<1> QED BY <1>2, <1>5, <1>8, <1>9 DEF N, F, V, C

\* The same, as the proofs below use it.
LEMMA VisitedSteps ==
  ASSUME NEW key, NEW half, Sound(key, half), NEW bound \in Nat,
         NEW x \in 0 .. half * half - 1
  PROVE  LET V == Visited(x, bound, half, key)
             F(w) == FeistelPermute(w, key, half)
         IN  /\ V \subseteq 0 .. half * half - 1
             /\ F(x) \in V /\ \A w \in V : w >= bound => F(w) \in V
             /\ \A P \in SUBSET (0 .. half * half - 1) :
                  F(x) \in P /\ (\A w \in P : w >= bound => F(w) \in P) => V \subseteq P
             /\ \A v \in V : v = F(x) \/ \E w \in V : w >= bound /\ v = F(w)
<1> DEFINE V == Visited(x, bound, half, key)
<1>1. /\ V \subseteq 0 .. half * half - 1
      /\ Closed(V, x, bound, half, key)
      /\ \A P \in SUBSET (0 .. half * half - 1) : Closed(P, x, bound, half, key) => V \subseteq P
      /\ \A v \in V : \/ v = FeistelPermute(x, key, half)
                      \/ \E w \in V : w >= bound /\ v = FeistelPermute(w, key, half)
  BY VisitedFacts
<1> HIDE DEF V
<1> QED BY <1>1 DEF Closed, V

\* From two numbers below the bound the loop goes through no number twice.
LEMMA VisitedDisjoint ==
  ASSUME NEW key, NEW half, Sound(key, half), NEW bound \in Nat, bound <= half * half,
         NEW x \in 0 .. bound - 1, NEW y \in 0 .. bound - 1, x # y
  PROVE  Visited(x, bound, half, key) \cap Visited(y, bound, half, key) = {}
<1> DEFINE N == 0 .. half * half - 1
           F(w) == FeistelPermute(w, key, half)
           V(z) == Visited(z, bound, half, key)
           A == V(x) \ V(y)
<1>0. half * half \in Int BY DEF Sound
<1>1. x \in N /\ y \in N /\ ~ (x >= bound) /\ ~ (y >= bound) BY <1>0
<1>2. \A v, w \in N : F(v) = F(w) => v = w BY FeistelOneToOne
<1>x. ASSUME NEW z \in N
      PROVE  /\ V(z) \subseteq N
             /\ F(z) \in V(z) /\ \A w \in V(z) : w >= bound => F(w) \in V(z)
             /\ \A P \in SUBSET N : F(z) \in P /\ (\A w \in P : w >= bound => F(w) \in P) => V(z) \subseteq P
             /\ \A v \in V(z) : v = F(z) \/ \E w \in V(z) : w >= bound /\ v = F(w)
  BY VisitedSteps
<1> HIDE DEF N, F, V
<1>3. /\ V(x) \subseteq N /\ V(y) \subseteq N
      /\ F(x) \in V(x) /\ \A w \in V(x) : w >= bound => F(w) \in V(x)
      /\ \A P \in SUBSET N : F(x) \in P /\ (\A w \in P : w >= bound => F(w) \in P) => V(x) \subseteq P
      /\ \A v \in V(y) : v = F(y) \/ \E w \in V(y) : w >= bound /\ v = F(w)
  BY <1>1, <1>x
<1>4. F(x) \in A
  <2> SUFFICES ASSUME F(x) \in V(y) PROVE FALSE
    BY <1>3
  <2>1. CASE F(x) = F(y) BY <1>1, <1>2, <2>1
  <2>2. ASSUME NEW w \in V(y), w >= bound, F(x) = F(w) PROVE FALSE
    <3>1. x = w BY <1>1, <1>2, <1>3, <2>2
    <3> QED BY <1>1, <2>2, <3>1
  <2> QED BY <1>3, <2>1, <2>2
<1>5. ASSUME NEW w \in A, w >= bound PROVE F(w) \in A
  <2> SUFFICES ASSUME F(w) \in V(y) PROVE FALSE
    BY <1>3, <1>5
  <2>0. w \in N /\ w \notin V(y) BY <1>3
  <2>1. CASE F(w) = F(y)
    <3>1. w = y BY <1>1, <1>2, <2>0, <2>1
    <3> QED BY <1>1, <1>5, <3>1
  <2>2. ASSUME NEW u \in V(y), u >= bound, F(w) = F(u) PROVE FALSE
    <3>1. w = u BY <1>2, <1>3, <2>0, <2>2
    <3> QED BY <2>0, <3>1
  <2> QED BY <1>3, <2>1, <2>2
<1>6. A \in SUBSET N BY <1>3
<1>7. V(x) \subseteq A BY <1>3, <1>4, <1>5, <1>6
<1> QED BY <1>7 DEF V

\* One number below the bound is visited, and no other: each visited number
\* has one before it, the first excepted, and so those not below the bound
\* are one fewer than all.
LEMMA VisitedOnce ==
  ASSUME NEW key, NEW half, Sound(key, half), NEW bound \in Nat, bound <= half * half,
         NEW x \in 0 .. bound - 1
  PROVE  \E n \in 0 .. bound - 1 :
           /\ n \in Visited(x, bound, half, key)
           /\ \A v \in 0 .. bound - 1 : v \in Visited(x, bound, half, key) => v = n
<1> DEFINE N == 0 .. half * half - 1
           F(w) == FeistelPermute(w, key, half)
           V == Visited(x, bound, half, key)
           O == {w \in V : w >= bound}
           f == [w \in O \cup {x} |-> F(w)]
<1>0. half * half \in Nat BY DEF Sound
<1>1. x \in N /\ ~ (x >= bound) /\ IsFiniteSet(N)
  <2>1. half * half - 1 \in Int BY <1>0
  <2>2. IsFiniteSet(N) BY <2>1, FS_Interval
  <2> QED BY <1>0, <2>2
<1>2. \A v, w \in N : F(v) = F(w) => v = w BY FeistelOneToOne
<1>3. /\ V \subseteq N
      /\ F(x) \in V /\ \A w \in V : w >= bound => F(w) \in V
      /\ \A v \in V : v = F(x) \/ \E w \in V : w >= bound /\ v = F(w)
  BY <1>1, VisitedSteps
<1>4. V \cap (0 .. bound - 1) = V \ O BY <1>0, <1>3
<1> HIDE DEF N, F, V
<1>5. IsFiniteSet(V) /\ IsFiniteSet(O) /\ O \subseteq V
  <2>1. IsFiniteSet(V) BY <1>1, <1>3, FS_Subset
  <2> QED BY <2>1, FS_Subset
<1>6. x \notin O BY <1>1
<1>7. f \in Bijection(O \cup {x}, V)
  <2>1. f \in [O \cup {x} -> V] BY <1>3
  <2>2. \A a, b \in O \cup {x} : f[a] = f[b] => a = b BY <1>1, <1>2, <1>3
  <2>3. \A v \in V : \E a \in O \cup {x} : f[a] = v BY <1>3
  <2> HIDE DEF f, O
  <2>4. f \in Injection(O \cup {x}, V) BY <2>1, <2>2, Fun_IsInj
  <2>5. f \in Surjection(O \cup {x}, V) BY <2>1, <2>3, Fun_IsSurj
  <2> QED BY <2>4, <2>5, Fun_IsBij
<1> HIDE DEF f, O
<1>8. Cardinality(V) = Cardinality(O \cup {x}) /\ IsFiniteSet(O \cup {x})
  <2>1. IsFiniteSet(O \cup {x}) BY <1>5, FS_AddElement
  <2>2. ExistsBijection(O \cup {x}, V) BY <1>7, Fun_ExistsBij
  <2> QED BY <2>1, <2>2, FS_Bijection
<1>9. Cardinality(O \cup {x}) = Cardinality(O) + 1 BY <1>5, <1>6, FS_AddElement
<1>10. Cardinality(V \ O) = 1
  <2>1. V \cap O = O BY <1>5
  <2>2. Cardinality(V \ O) = Cardinality(V) - Cardinality(O) BY <1>5, <2>1, FS_Difference
  <2>3. Cardinality(O) \in Nat BY <1>5, FS_CardinalityType
  <2> QED BY <1>8, <1>9, <2>2, <2>3
<1>11. IsFiniteSet(V \ O) BY <1>5, FS_Difference
<1>12. PICK n : V \ O = {n} BY <1>10, <1>11, FS_Singleton
<1>13. n \in 0 .. bound - 1 /\ n \in V /\ \A v \in 0 .. bound - 1 : v \in V => v = n BY <1>4, <1>12
<1> QED BY <1>13 DEF V

----------------------------------------------------------------------------
(* Half a number, which is there for every bound that fits.                *)

\* A nonempty set of naturals has a least element.
LEMMA LeastElement ==
  ASSUME NEW T, T \subseteq Nat, T # {} PROVE \E x \in T : \A y \in T : x <= y
<1>1. PICK x \in T : \A y \in T : ~ (<<y, x>> \in OpToRel(<, Nat)) BY NatLessThanWellFounded, WFMin
<1>2. \A y \in T : ~ (y < x) BY <1>1 DEF OpToRel
<1> QED BY <1>2
\* A power of two is positive: it counts the subsets of some set.
LEMMA PowersPositive == ASSUME NEW bits \in Nat PROVE 2 ^ bits \in Nat \ {0}
<1> DEFINE S == 1 .. bits
<1>1. IsFiniteSet(S) /\ Cardinality(S) = bits BY FS_Interval
<1> HIDE DEF S
<1>2. IsFiniteSet(SUBSET S) /\ Cardinality(SUBSET S) = 2 ^ bits BY <1>1, FS_SUBSET
<1>3. Cardinality(SUBSET S) # 0
  <2>1. SUBSET S # {} OBVIOUS
  <2> QED BY <1>2, <2>1, FS_EmptySet
<1>4. Cardinality(SUBSET S) \in Nat BY <1>2, FS_CardinalityType
<1> QED BY <1>2, <1>3, <1>4

\* There is a half for every bound that fits, and the network with it is sound.
LEMMA HalfSound ==
  ASSUME HashNatural, NEW key, NEW bound \in Nat, Fits(bound)
  PROVE  Sound(key, Half(bound)) /\ bound <= Half(bound) * Half(bound)
<1> DEFINE enough == {h \in {2 ^ bits : bits \in 1 .. MaxHalfBits} : bound <= h * h}
           half == Half(bound)
<1>1. MaxHalfBits \in Nat \ {0} /\ \A bits \in 1 .. MaxHalfBits : XorSound(2 ^ bits) BY SamplerAssumption
<1>2. \A bits \in 1 .. MaxHalfBits : 2 ^ bits \in Nat \ {0} BY <1>1, PowersPositive
<1>3. \A h \in enough : h \in Nat \ {0} /\ XorSound(h) /\ bound <= h * h BY <1>1, <1>2
<1>4. 2 ^ MaxHalfBits \in enough
  <2>1. MaxHalfBits \in 1 .. MaxHalfBits BY <1>1
  <2> QED BY <2>1 DEF Fits
<1>5. half = CHOOSE h \in enough : \A g \in enough : h <= g BY DEF Half
<1> HIDE DEF enough, half
<1>6. \E h \in enough : \A g \in enough : h <= g
  <2>1. enough \subseteq Nat BY <1>3
  <2> QED BY <1>4, <2>1, LeastElement
<1>7. half \in enough BY <1>5, <1>6
<1>8. half \in Nat \ {0} /\ XorSound(half) /\ bound <= half * half BY <1>3, <1>7
<1>9. HashSound(key, half)
  <2>1. 0 .. half - 1 \subseteq Nat OBVIOUS
  <2> QED BY <2>1 DEF HashSound, HashNatural
<1> QED BY <1>8, <1>9 DEF Sound, half

\* The loop that starts below the bound ends there.
THEOREM LoopEnds ==
  ASSUME HashNatural, NEW key, NEW bound \in Nat \ {0, 1}, Fits(bound),
         NEW value \in 0 .. bound - 1
  PROVE  /\ \E n \in Visited(value, bound, Half(bound), key) : n < bound
         /\ PermuteBounded(value, bound, key) \in Visited(value, bound, Half(bound), key)
         /\ PermuteBounded(value, bound, key) \in 0 .. bound - 1
<1> DEFINE V == Visited(value, bound, Half(bound), key)
<1>0. Sound(key, Half(bound)) /\ bound <= Half(bound) * Half(bound) BY HalfSound
<1>1. PICK n \in 0 .. bound - 1 : n \in V BY <1>0, VisitedOnce
<1>2. PermuteBounded(value, bound, key) = CHOOSE v \in 0 .. bound - 1 : v \in V
  BY DEF PermuteBounded
<1> HIDE DEF V
<1>3. PermuteBounded(value, bound, key) \in 0 .. bound - 1 /\ PermuteBounded(value, bound, key) \in V
  BY <1>1, <1>2
<1> QED BY <1>1, <1>3 DEF V

\* gd_sampler_permute_bounded permutes the numbers below the bound, so that
\* an epoch has every sample once: no two positions have the same sample.
THEOREM PermuteOneToOne ==
  ASSUME HashNatural, NEW key, NEW bound \in Nat, Fits(bound)
  PROVE  /\ \A v \in 0 .. bound - 1 : PermuteBounded(v, bound, key) \in 0 .. bound - 1
         /\ \A v, w \in 0 .. bound - 1 :
              PermuteBounded(v, bound, key) = PermuteBounded(w, bound, key) => v = w
<1>1. CASE bound <= 1 BY <1>1 DEF PermuteBounded
<1>2. CASE ~ (bound <= 1)
  <2>1. bound \in Nat \ {0, 1} BY <1>2
  <2>2. \A v \in 0 .. bound - 1 :
          /\ PermuteBounded(v, bound, key) \in 0 .. bound - 1
          /\ PermuteBounded(v, bound, key) \in Visited(v, bound, Half(bound), key)
    BY <2>1, LoopEnds
  <2>3. \A v, w \in 0 .. bound - 1 :
          v # w => Visited(v, bound, Half(bound), key) \cap Visited(w, bound, Half(bound), key) = {}
    <3>1. Sound(key, Half(bound)) /\ bound <= Half(bound) * Half(bound) BY HalfSound
    <3> QED BY <3>1, VisitedDisjoint
  <2> QED BY <2>2, <2>3
<1> QED BY <1>1, <1>2

----------------------------------------------------------------------------
(* The shards: the binary search finds the one that a position is in.  The *)
(* function it computes is written down, and the search is shown to have   *)
(* no other value.                                                         *)

Shard == 1 .. Len(Ranges)
First(r) == Ranges[r].start
Past(r) == Ranges[r].start + Ranges[r].length

\* The shards are apart, and the last of them ends with the dataset.
LEMMA ShardsApart ==
  ASSUME Tiled
  PROVE  /\ \A r \in Shard : First(r) \in Nat /\ Past(r) \in Nat /\ First(r) <= Past(r) /\ Past(r) <= NumSamples
         /\ \A q, r \in Shard : q < r => Past(q) <= First(r)
<1> DEFINE n == Len(Ranges)
<1>1. n \in Nat \ {0} /\ Shard = 1 .. n BY DEF Tiled, Shard
<1>2. \A r \in Shard : First(r) \in Nat /\ Past(r) \in Nat /\ First(r) <= Past(r)
  <2> TAKE r \in Shard
  <2>1. Ranges[r].start \in Nat /\ Ranges[r].length \in Nat BY SamplerAssumption DEF Shard
  <2> QED BY <2>1 DEF First, Past
<1>3. \A r \in 1 .. n - 1 : First(r + 1) = Past(r) BY DEF Tiled, First, Past
<1>4. Past(n) = NumSamples BY DEF Tiled, Past
<1> HIDE DEF n
<1>5. ASSUME NEW q \in Shard, NEW r \in Shard, q < r PROVE Past(q) <= First(r)
  <2> DEFINE bad == {s \in Shard : q < s /\ ~ (Past(q) <= First(s))}
  <2> SUFFICES ASSUME bad # {} PROVE FALSE BY <1>5
  <2>0. bad \subseteq Nat BY <1>1
  <2>1. PICK s \in bad : \A t \in bad : s <= t BY <2>0, LeastElement
  <2>2. s \in 1 .. n /\ q \in 1 .. n /\ q < s /\ ~ (Past(q) <= First(s)) BY <1>1, <2>1
  <2>3. s - 1 \in 1 .. n - 1 /\ s - 1 \in Shard BY <1>1, <2>2
  <2>4. First(s) = Past(s - 1)
    <3>1. (s - 1) + 1 = s BY <2>2
    <3> QED BY <1>3, <2>3, <3>1
  <2>5. CASE s - 1 = q BY <1>2, <2>2, <2>4, <2>5
  <2>6. CASE s - 1 # q
    <3>1. q < s - 1 /\ ~ (s <= s - 1) BY <2>2, <2>6
    <3>2. Past(q) <= First(s - 1) BY <2>1, <2>3, <3>1
    <3> QED BY <1>2, <2>2, <2>3, <2>4, <3>2
  <2> QED BY <2>5, <2>6
<1>6. \A r \in Shard : Past(r) <= NumSamples
  <2> TAKE r \in Shard
  <2>1. n \in Shard /\ r \in 1 .. n BY <1>1
  <2>2. CASE r = n BY <1>2, <1>4, <2>2
  <2>3. CASE r # n
    <3>1. r < n BY <1>1, <2>1, <2>3
    <3>2. Past(r) <= First(n) BY <1>5, <2>1, <3>1
    <3> QED BY <1>2, <1>4, <2>1, <3>2
  <2> QED BY <2>2, <2>3
<1> QED BY <1>2, <1>5, <1>6

\* Every position is in a shard.
LEMMA ShardOf ==
  ASSUME Tiled, NEW i \in 0 .. NumSamples - 1
  PROVE  \E r \in Shard : First(r) <= i /\ i < Past(r)
<1> DEFINE n == Len(Ranges)
           after == {r \in Shard : i < Past(r)}
<1>1. n \in Nat \ {0} /\ Shard = 1 .. n BY DEF Tiled, Shard
<1>2. Past(n) = NumSamples /\ First(1) = 0 BY DEF Tiled, First, Past
<1>3. \A r \in 1 .. n - 1 : First(r + 1) = Past(r) BY DEF Tiled, First, Past
<1>4. i \in Nat /\ i < NumSamples BY SamplerAssumption
<1> HIDE DEF n
<1>5. n \in after BY <1>1, <1>2, <1>4
<1>6. PICK r \in after : \A q \in after : r <= q
  <2>1. after \subseteq Nat BY <1>1
  <2> QED BY <1>5, <2>1, LeastElement
<1>7. r \in 1 .. n /\ i < Past(r) BY <1>1, <1>6
<1>8. CASE r = 1 BY <1>1, <1>2, <1>4, <1>7, <1>8
<1>9. CASE r # 1
  <2>1. r - 1 \in 1 .. n - 1 /\ r - 1 \in Shard /\ ~ (r <= r - 1) /\ (r - 1) + 1 = r BY <1>1, <1>7, <1>9
  <2>2. ~ (i < Past(r - 1)) BY <1>6, <2>1
  <2>3. Past(r - 1) \in Nat BY <2>1, ShardsApart
  <2>4. First(r) = Past(r - 1) BY <1>3, <2>1
  <2> QED BY <1>1, <1>4, <1>7, <2>2, <2>3, <2>4
<1> QED BY <1>8, <1>9

\* The middle is one of those between.
LEMMA MidIs ==
  ASSUME NEW lo \in Nat, NEW hi \in Nat, lo < hi, NEW mid, mid = lo + (hi - lo) \div 2
  PROVE  mid \in Nat /\ lo <= mid /\ mid < hi
BY SMTT(30)

\* One turn of the loop, when the search between other bounds has found f.
Look(position, f, between) ==
  LET lo  == between[1]
      hi  == between[2]
      mid == lo + (hi - lo) \div 2
      r   == Ranges[mid + 1]
  IN  IF lo >= hi THEN 0
      ELSE IF position < r.start THEN f[<<lo, mid>>]
      ELSE IF position - r.start >= r.length THEN f[<<mid + 1, hi>>]
      ELSE mid + 1

Bounds == (0 .. Len(Ranges)) \X (0 .. Len(Ranges))

\* What the search finds: the shard, if it is between the bounds.
Found(s) == [b \in Bounds |-> IF b[1] < s /\ s <= b[2] THEN s ELSE 0]

\* Which is what one turn says it is.
LEMMA FoundByLooking ==
  ASSUME Tiled, NEW i \in 0 .. NumSamples - 1, NEW s \in Shard, First(s) <= i, i < Past(s),
         NEW f, NEW b \in Bounds,
         \A c \in Bounds : c[2] - c[1] < b[2] - b[1] => f[c] = Found(s)[c]
  PROVE  Look(i, f, b) = Found(s)[b]
<1> DEFINE n == Len(Ranges)
           lo == b[1]
           hi == b[2]
           mid == lo + (hi - lo) \div 2
<1>1. n \in Nat /\ s \in 1 .. n /\ Shard = 1 .. n BY DEF Tiled, Shard
<1>2. lo \in 0 .. n /\ hi \in 0 .. n /\ b = <<lo, hi>> BY DEF Bounds
<1>3. \A x, y \in 0 .. n : <<x, y>> \in Bounds /\ <<x, y>>[1] = x /\ <<x, y>>[2] = y BY DEF Bounds
<1>4. \A c \in Bounds : Found(s)[c] = IF c[1] < s /\ s <= c[2] THEN s ELSE 0 BY DEF Found
<1>5. i \in Nat BY SamplerAssumption
<1>6. CASE lo >= hi
  <2>1. Look(i, f, b) = 0 BY <1>6 DEF Look
  <2>2. ~ (lo < s /\ s <= hi) BY <1>1, <1>2, <1>6
  <2> QED BY <1>4, <2>1, <2>2
<1>7. CASE lo < hi
  <2>1. mid \in Nat /\ lo <= mid /\ mid < hi
    <3>1. lo \in Nat /\ hi \in Nat BY <1>1, <1>2
    <3> HIDE DEF lo, hi
    <3> QED BY <1>7, <3>1, MidIs
  <2> DEFINE m == mid + 1
  <2>2. m \in Shard /\ mid \in 0 .. n /\ m \in 0 .. n BY <1>1, <1>2, <2>1
  <2>3. /\ First(m) \in Nat /\ Past(m) \in Nat /\ First(m) <= Past(m)
        /\ Ranges[m].start = First(m) /\ Ranges[m].length = Past(m) - First(m)
    <3>1. Ranges[m].start \in Nat /\ Ranges[m].length \in Nat BY <2>2, SamplerAssumption DEF Shard
    <3> QED BY <3>1 DEF First, Past
  <2>4. (s < m => Past(s) <= First(m)) /\ (m < s => Past(m) <= First(s)) BY <2>2, ShardsApart
  <2>5. First(s) \in Nat /\ Past(s) \in Nat BY ShardsApart
  <2>6. Look(i, f, b) = IF i < First(m) THEN f[<<lo, mid>>]
                        ELSE IF i - First(m) >= Past(m) - First(m) THEN f[<<m, hi>>]
                        ELSE m
    <3>1. ~ (lo >= hi) BY <1>1, <1>2, <1>7
    <3> QED BY <2>3, <3>1 DEF Look
  <2> HIDE DEF lo, hi, mid, n
  <2>7. CASE i < First(m)
    <3>1. Look(i, f, b) = f[<<lo, mid>>] BY <2>6, <2>7
    <3>2. mid - lo < hi - lo BY <1>1, <1>2, <2>1
    <3>3. f[<<lo, mid>>] = Found(s)[<<lo, mid>>] BY <1>2, <1>3, <2>2, <3>2 DEF lo, hi
    <3>4. s <= mid BY <1>1, <1>5, <2>1, <2>3, <2>4, <2>5, <2>7
    <3>5. (lo < s /\ s <= mid) <=> (lo < s /\ s <= hi) BY <1>1, <1>2, <2>1, <3>4
    <3>6. Found(s)[<<lo, mid>>] = Found(s)[b] BY <1>2, <1>3, <1>4, <2>2, <3>5
    <3> QED BY <3>1, <3>3, <3>6
  <2>8. CASE i >= Past(m)
    <3>1. ~ (i < First(m)) /\ i - First(m) >= Past(m) - First(m) BY <1>5, <2>3, <2>8
    <3>2. Look(i, f, b) = f[<<m, hi>>] BY <2>6, <3>1
    <3>3. hi - m < hi - lo BY <1>1, <1>2, <2>1
    <3>4. f[<<m, hi>>] = Found(s)[<<m, hi>>] BY <1>2, <1>3, <2>2, <3>3 DEF lo, hi
    <3>5. m < s BY <1>1, <1>5, <2>1, <2>3, <2>4, <2>5, <2>8
    <3>6. (m < s /\ s <= hi) <=> (lo < s /\ s <= hi) BY <1>1, <1>2, <2>1, <3>5
    <3>7. Found(s)[<<m, hi>>] = Found(s)[b] BY <1>2, <1>3, <1>4, <2>2, <3>6
    <3> QED BY <3>2, <3>4, <3>7
  <2>9. CASE First(m) <= i /\ i < Past(m)
    <3>1. ~ (i < First(m)) /\ ~ (i - First(m) >= Past(m) - First(m)) BY <1>5, <2>3, <2>9
    <3>2. Look(i, f, b) = m BY <2>6, <3>1
    <3>3. s = m BY <1>1, <1>5, <2>1, <2>3, <2>4, <2>5, <2>9
    <3>4. lo < s /\ s <= hi BY <1>1, <1>2, <2>1, <3>3
    <3> QED BY <1>2, <1>4, <3>2, <3>3, <3>4 DEF lo, hi
  <2> QED BY <1>5, <2>3, <2>7, <2>8, <2>9
<1> QED BY <1>1, <1>2, <1>6, <1>7

\* The search finds it: nothing else satisfies the equation of the search.
LEMMA SearchFinds ==
  ASSUME Tiled, NEW i \in 0 .. NumSamples - 1, NEW s \in Shard, First(s) <= i, i < Past(s)
  PROVE  RangeOf(i) = s
<1> DEFINE n == Len(Ranges)
           search == CHOOSE f : f = [b \in Bounds |-> Look(i, f, b)]
<1>1. RangeOf(i) = search[<<0, n>>] BY DEF RangeOf, Look, Bounds
<1>2. Found(s) = [b \in Bounds |-> Look(i, Found(s), b)]
  <2>1. \A b \in Bounds : Found(s)[b] = Look(i, Found(s), b) BY FoundByLooking
  <2>2. DOMAIN Found(s) = Bounds /\ Found(s) = [b \in Bounds |-> Found(s)[b]] BY DEF Found
  <2> QED BY <2>1, <2>2
<1>3. search = [b \in Bounds |-> Look(i, search, b)] BY <1>2
<1> HIDE DEF search
<1>4. n \in Nat /\ s \in 1 .. n BY DEF Tiled, Shard
<1> HIDE DEF n
<1> DEFINE Gap(b) == b[2] - b[1]
           bad == {k \in Nat : \E b \in Bounds : Gap(b) <= k /\ search[b] # Found(s)[b]}
<1>5. \A b \in Bounds : Gap(b) \in Int BY <1>4 DEF Bounds
<1>6. bad = {}
  <2> SUFFICES ASSUME bad # {} PROVE FALSE OBVIOUS
  <2>1. PICK k \in bad : \A j \in bad : k <= j BY LeastElement
  <2>2. PICK b \in Bounds : Gap(b) <= k /\ search[b] # Found(s)[b] BY <2>1
  <2>3. search[b] = Look(i, search, b) BY <1>3
  <2>4. \A c \in Bounds : Gap(c) < Gap(b) => search[c] = Found(s)[c]
    <3> SUFFICES ASSUME NEW c \in Bounds, Gap(c) < Gap(b), search[c] # Found(s)[c] PROVE FALSE OBVIOUS
    <3>1. k \in Nat /\ Gap(b) \in Int /\ Gap(c) \in Int BY <1>5, <2>1
    <3> HIDE DEF Gap
    <3>2. CASE k = 0
      <4>1. Gap(c) < 0 BY <2>2, <3>1, <3>2
      <4>2. c[1] >= c[2] BY <1>4, <4>1 DEF Gap, Bounds
      <4>3. search[c] = 0 BY <1>3, <4>2 DEF Look
      <4>4. Found(s)[c] = 0 BY <1>4, <4>2 DEF Found, Bounds
      <4> QED BY <4>3, <4>4
    <3>3. CASE k > 0
      <4>1. k - 1 \in Nat /\ Gap(c) <= k - 1 /\ ~ (k <= k - 1) BY <2>2, <3>1, <3>3
      <4> QED BY <2>1, <4>1
    <3> QED BY <3>1, <3>2, <3>3
  <2>5. Look(i, search, b) = Found(s)[b] BY <2>4, FoundByLooking
  <2> QED BY <2>2, <2>3, <2>5
<1>7. <<0, n>> \in Bounds BY <1>4 DEF Bounds, n
<1>8. search[<<0, n>>] = Found(s)[<<0, n>>]
  <2>1. Gap(<<0, n>>) = n BY <1>4
  <2> QED BY <1>4, <1>6, <1>7, <2>1
<1>9. Found(s)[<<0, n>>] = s BY <1>4, <1>7 DEF Found
<1> QED BY <1>1, <1>8, <1>9

----------------------------------------------------------------------------
(* The orders of an epoch.                                                *)

\* The sampler gives different positions of an epoch different samples.
SamplerSound ==
  \A e \in Nat : \A i, j \in 0 .. NumSamples - 1 :
    SampleAt(e, i) \in 0 .. NumSamples - 1 /\ (SampleAt(e, i) = SampleAt(e, j) => i = j)

\* gd_sampler_gdds_shard_random_index permutes the samples of every shard.
LEMMA ShardOrderSound ==
  ASSUME HashNatural, Kind = "shards"
  PROVE  \A e \in Nat : \A i, j \in 0 .. NumSamples - 1 :
           /\ ShardRandomIndex(e, i) \in 0 .. NumSamples - 1
           /\ ShardRandomIndex(e, i) = ShardRandomIndex(e, j) => i = j
<1> DEFINE F(e, i) == ShardRandomIndex(e, i)
           Length(r) == Ranges[r].length
           In(e, r, k) == PermuteBounded(k, Length(r), <<e, r>>)
<1>0. Tiled /\ NumSamples \in Nat BY SamplerAssumption
<1>1. \A r \in Shard : /\ First(r) \in Nat /\ Length(r) \in Nat /\ Fits(Length(r))
                       /\ Past(r) = First(r) + Length(r) /\ Past(r) <= NumSamples
  BY <1>0, SamplerAssumption, ShardsApart DEF Shard, First, Past
\* A shard's own order.
<1>2. ASSUME NEW e \in Nat, NEW r \in Shard
      PROVE  /\ \A k \in 0 .. Length(r) - 1 : In(e, r, k) \in 0 .. Length(r) - 1
             /\ \A k, l \in 0 .. Length(r) - 1 : In(e, r, k) = In(e, r, l) => k = l
  BY <1>1, PermuteOneToOne
<1> HIDE DEF In, Length
\* A position stays in its shard.
<1>3. ASSUME NEW e \in Nat, NEW i \in 0 .. NumSamples - 1
      PROVE  \E r \in Shard : \E k \in 0 .. Length(r) - 1 : i = First(r) + k /\ F(e, i) = First(r) + In(e, r, k)
  <2>1. PICK r \in Shard : First(r) <= i /\ i < Past(r) BY <1>0, ShardOf
  <2>2. RangeOf(i) = r BY <1>0, <2>1, SearchFinds
  <2>3. r # 0 BY <1>0 DEF Shard, Tiled
  <2>4. F(e, i) = First(r) + In(e, r, i - First(r)) BY <2>2, <2>3 DEF ShardRandomIndex, First, In, Length
  <2>5. i - First(r) \in 0 .. Length(r) - 1 /\ i = First(r) + (i - First(r)) BY <1>0, <1>1, <2>1
  <2> QED BY <2>4, <2>5
<1>4. ASSUME NEW e \in Nat, NEW i \in 0 .. NumSamples - 1 PROVE F(e, i) \in 0 .. NumSamples - 1
  <2>1. PICK r \in Shard : \E k \in 0 .. Length(r) - 1 : F(e, i) = First(r) + In(e, r, k) BY <1>3
  <2>2. PICK p \in 0 .. Length(r) - 1 : F(e, i) = First(r) + p BY <1>2, <2>1
  <2>3. First(r) \in Nat /\ Length(r) \in Nat /\ First(r) + Length(r) <= NumSamples BY <1>1
  <2>4. First(r) + p \in 0 .. NumSamples - 1 BY <1>0, <2>3
  <2> QED BY <2>2, <2>4
<1>5. ASSUME NEW e \in Nat, NEW i \in 0 .. NumSamples - 1, NEW j \in 0 .. NumSamples - 1, F(e, i) = F(e, j)
      PROVE  i = j
  <2>1. PICK q \in Shard : \E k \in 0 .. Length(q) - 1 : i = First(q) + k /\ F(e, i) = First(q) + In(e, q, k) BY <1>3
  <2>2. PICK k \in 0 .. Length(q) - 1 : i = First(q) + k /\ F(e, i) = First(q) + In(e, q, k) BY <2>1
  <2>3. PICK r \in Shard : \E l \in 0 .. Length(r) - 1 : j = First(r) + l /\ F(e, j) = First(r) + In(e, r, l) BY <1>3
  <2>4. PICK l \in 0 .. Length(r) - 1 : j = First(r) + l /\ F(e, j) = First(r) + In(e, r, l) BY <2>3
  <2>5. In(e, q, k) \in 0 .. Length(q) - 1 /\ In(e, r, l) \in 0 .. Length(r) - 1 BY <1>2
  <2>6. First(q) + In(e, q, k) = First(r) + In(e, r, l) BY <1>5, <2>2, <2>4
  <2>7. /\ First(q) \in Nat /\ Length(q) \in Nat /\ Past(q) = First(q) + Length(q)
        /\ First(r) \in Nat /\ Length(r) \in Nat /\ Past(r) = First(r) + Length(r)
    BY <1>1
  <2>8. q = r
    <3>1. (q < r => Past(q) <= First(r)) /\ (r < q => Past(r) <= First(q)) BY <1>0, ShardsApart
    <3>2. q \in Int /\ r \in Int BY <1>0 DEF Shard, Tiled
    <3> QED BY <2>5, <2>6, <2>7, <3>1, <3>2
  <2>9. In(e, q, k) = In(e, q, l)
    <3> DEFINE x == In(e, q, k)
               y == In(e, q, l)
    <3>1. x \in 0 .. Length(q) - 1 /\ y \in 0 .. Length(q) - 1 /\ First(q) + x = First(q) + y BY <2>5, <2>6, <2>8
    <3> HIDE DEF x, y
    <3>2. x = y BY <2>7, <3>1
    <3> QED BY <3>2 DEF x, y
  <2>10. k = l BY <1>2, <2>8, <2>9
  <2> QED BY <2>2, <2>4, <2>8, <2>10
<1> QED BY <1>4, <1>5 DEF F

\* gd_dataloader_sample_at_locked permutes the samples of the dataset, without
\* a sampler and with either of the two.
THEOREM SamplerIsSound == ASSUME HashNatural PROVE SamplerSound
<1>1. NumSamples \in Nat /\ Kind \in {"none", "random", "shards"} BY SamplerAssumption
<1>2. CASE Kind = "none" BY <1>2 DEF SamplerSound, SampleAt
<1>3. CASE Kind = "random"
  <2>1. ASSUME NEW e \in Nat
        PROVE  \A i, j \in 0 .. NumSamples - 1 :
                 RandomIndex(e, i) \in 0 .. NumSamples - 1 /\ (RandomIndex(e, i) = RandomIndex(e, j) => i = j)
    <3>1. Fits(NumSamples) BY <1>3, SamplerAssumption
    <3> QED BY <1>1, <3>1, PermuteOneToOne DEF RandomIndex
  <2> QED BY <1>3, <2>1 DEF SamplerSound, SampleAt
<1>4. CASE Kind = "shards" BY <1>4, ShardOrderSound DEF SamplerSound, SampleAt
<1> QED BY <1>1, <1>2, <1>3, <1>4

----------------------------------------------------------------------------
(* The loader.                                                             *)

Busy(w) == wpc[w] \in {"collate", "acquire", "copy", "filled", "failed"}

Typed ==
  /\ use \in [Buffers -> Ring!Use]
  /\ state \in [Slot -> BatchState] /\ seq \in [Slot -> Nat]
  /\ data \in [Slot -> Buffers \cup {NoBuffer}]
  /\ DOMAIN ids = Slot
  /\ {requested, nextSeq, deliverSeq, epoch, inEpoch} \subseteq Nat
  /\ workerStatus \in {"OK", "ERROR"} /\ stop \in BOOLEAN
  /\ wpc \in [Workers -> WorkerPC] /\ wslot \in [Workers -> Slot]
  /\ cpc \in ConsumerPC

\* A batch that is being filled has one worker, which knows what it has of the
\* ring.
Staffed ==
  /\ \A w \in Workers : Busy(w) => state[wslot[w]] = "FILLING"
  /\ \A v, w \in Workers : v # w /\ Busy(v) /\ Busy(w) => wslot[v] # wslot[w]
  /\ \A w \in Workers :
       /\ wpc[w] \in {"collate", "acquire", "failed"} => data[wslot[w]] = NoBuffer
       /\ wpc[w] = "copy" => data[wslot[w]] # NoBuffer /\ use[data[wslot[w]]] = "host"
       /\ wpc[w] = "filled" => data[wslot[w]] # NoBuffer /\ use[data[wslot[w]]] = "full"

\* What the ring says of a batch's data slot.
Bound ==
  \A s \in Slot :
    /\ state[s] = "FREE" => data[s] = NoBuffer
    /\ state[s] = "FILLING" /\ data[s] # NoBuffer => use[data[s]] \in {"host", "full"}
    /\ state[s] \in {"READY", "IN_USE"} => data[s] # NoBuffer /\ use[data[s]] = "full"
    /\ state[s] = "IN_STEP" => data[s] # NoBuffer /\ use[data[s]] = "step"

Alone ==
  \A r, s \in Slot : r # s /\ data[r] # NoBuffer /\ state[r] # "RETIRED" /\ state[s] # "RETIRED"
                     => data[r] # data[s]

\* What the host or the step has of the ring is some batch's.
Owned ==
  \A b \in Buffers : use[b] \in {"host", "full", "step"} =>
    \E s \in Slot : state[s] \notin {"FREE", "RETIRED"} /\ data[s] = b

\* Destroying begins with no batch in a step, and goes on without workers.
Ending ==
  /\ cpc \in {"joining", "destroying", "gone"} => \A s \in Slot : state[s] # "IN_STEP"
  /\ cpc \in {"destroying", "gone"} => \A w \in Workers : wpc[w] = "exited"
  /\ cpc = "gone" => \A s \in Slot : state[s] = "FREE"

Binding == Staffed /\ Bound /\ Alone /\ Owned /\ Ending

----------------------------------------------------------------------------
(* Constants and helpers.                                                  *)

LEMMA Sizes == NSlots \in Nat \ {0} /\ NSlots <= Cardinality(Buffers) /\ Cardinality(Buffers) \in Nat
<1>1. Cardinality(Workers) \in Nat /\ Cardinality(Buffers) \in Nat BY FS_CardinalityType, DataLoaderAssumption
<1>2. Cardinality(Buffers) # 0 BY FS_EmptySet, DataLoaderAssumption
<1>3. DEFINE wanted == Cardinality(Workers) * PrefetchFactor
<1>4. wanted \in Nat BY <1>1, DataLoaderAssumption
<1> HIDE DEF wanted
<1>5. NSlots = LET some == IF wanted < 2 THEN 2 ELSE wanted
               IN  IF some > Cardinality(Buffers) THEN Cardinality(Buffers) ELSE some
  BY DEF NSlots, wanted
<1> QED BY <1>1, <1>2, <1>4, <1>5

\* A signal or a broadcast wakes workers that are parked.
LEMMA Woken ==
  ASSUME Typed, Signal \/ Broadcast
  PROVE  /\ wpc' \in [Workers -> WorkerPC]
         /\ \A w \in Workers : wpc'[w] = wpc[w] \/ (wpc[w] = "parked" /\ wpc'[w] = "check")
<1>1. CASE Broadcast BY <1>1 DEF Typed, Broadcast, WorkerPC
<1>2. CASE Signal BY <1>2, DataLoaderAssumption DEF Typed, Signal, Parked, WorkerPC
<1> QED BY <1>1, <1>2

\* What ClearBinding does with the data slot of a batch that is in no step.
LEMMA Cleared ==
  ASSUME Typed, Binding, NEW s \in Slot, state[s] # "IN_STEP", ClearBinding(s)
  PROVE  /\ use' \in [Buffers -> Ring!Use] /\ data' \in [Slot -> Buffers \cup {NoBuffer}]
         /\ \A r \in Slot : data'[r] = IF r = s THEN NoBuffer ELSE data[r]
         /\ \A b \in Buffers :
              use'[b] = IF state[s] # "RETIRED" /\ data[s] = b THEN "free" ELSE use[b]
<1>1. data' = [data EXCEPT ![s] = NoBuffer] BY DEF ClearBinding
<1>2. data' \in [Slot -> Buffers \cup {NoBuffer}] /\ \A r \in Slot : data'[r] = IF r = s THEN NoBuffer ELSE data[r]
  BY <1>1 DEF Typed
<1>3. CASE state[s] \in {"FILLING", "READY", "IN_USE"} /\ data[s] # NoBuffer
  <2>1. Ring!Cancel(data[s]) BY <1>3 DEF ClearBinding
  <2>2. use' = [use EXCEPT ![data[s]] = "free"] BY <2>1 DEF Ring!Cancel, Ring!Move
  <2>3. data[s] \in Buffers BY <1>3 DEF Typed
  <2> QED BY <1>2, <1>3, <2>2, <2>3 DEF Typed, Ring!Use
<1>4. CASE ~ (state[s] \in {"FILLING", "READY", "IN_USE"} /\ data[s] # NoBuffer)
  <2>1. use' = use BY <1>4 DEF ClearBinding
  <2>2. state[s] = "RETIRED" \/ data[s] = NoBuffer BY <1>4 DEF Typed, BatchState, Binding, Bound
  <2> QED BY <1>2, <2>1, <2>2, DataLoaderAssumption DEF Typed
<1> QED BY <1>3, <1>4

----------------------------------------------------------------------------
(* Every step keeps the types and the binding.                             *)

LEMMA TakeKeeps ==
  ASSUME Typed, Binding, NEW w \in Workers, Take(w)
  PROVE  Typed' /\ Binding'
<1> USE DataLoaderAssumption DEF Binding
<1> USE DEF Busy, Take, CanTake, Assign, FirstFree, WorkerGoto, InState, Ring!Use, BatchState,
      WorkerPC, ConsumerPC
<1>1. Typed' BY DEF Typed
<1>2. Staffed' BY DEF Typed, Staffed, Bound, Alone
<1>3. Bound' BY DEF Typed, Staffed, Bound, Alone
<1>4. Alone' BY DEF Typed, Alone
<1>5. Owned' BY DEF Typed, Staffed, Bound, Owned
<1>6. Ending' BY DEF Typed, Ending
<1> QED BY <1>1, <1>2, <1>3, <1>4, <1>5, <1>6

LEMMA AcquireKeeps ==
  ASSUME Typed, Binding, NEW w \in Workers, Acquire(w)
  PROVE  Typed' /\ Binding'
<1> USE DataLoaderAssumption DEF Binding
<1> USE DEF Busy, Acquire, WorkerGoto, Ring!Lease, Ring!Move, Ring!Use, batchVars, queueVars,
      workerVars, BatchState, WorkerPC, ConsumerPC
<1>1. Typed' BY DEF Typed
<1>2. Staffed' BY DEF Typed, Staffed, Bound, Alone
<1>3. Bound' BY DEF Typed, Staffed, Bound, Alone
<1>4. Alone' BY DEF Typed, Bound, Alone
<1>5. Owned' BY DEF Typed, Staffed, Bound, Owned
<1>6. Ending' BY DEF Typed, Ending
<1> QED BY <1>1, <1>2, <1>3, <1>4, <1>5, <1>6

LEMMA ParkKeeps ==
  ASSUME Typed, Binding, NEW w \in Workers, (Park(w) \/ Exit(w) \/ ReclaimFails(w))
  PROVE  Typed' /\ Binding'
<1> USE DataLoaderAssumption DEF Binding
<1> USE DEF Busy, Park, Exit, ReclaimFails, WorkerGoto, batchVars, queueVars, workerVars, BatchState,
      WorkerPC, ConsumerPC
<1>1. Typed' BY DEF Typed
<1>2. Staffed' BY DEF Typed, Staffed, Bound, Alone
<1>3. Bound' BY DEF Typed, Staffed, Bound, Alone
<1>4. Alone' BY DEF Typed, Alone
<1>5. Owned' BY DEF Typed, Staffed, Bound, Owned
<1>6. Ending' BY DEF Typed, Ending
<1> QED BY <1>1, <1>2, <1>3, <1>4, <1>5, <1>6

LEMMA CollateKeeps ==
  ASSUME Typed, Binding, NEW w \in Workers, Collate(w)
  PROVE  Typed' /\ Binding'
<1> USE DataLoaderAssumption DEF Binding
<1>1. wslot[w] \in Slot /\ state[wslot[w]] = "FILLING" /\ data[wslot[w]] = NoBuffer BY DEF Typed, Staffed, Busy, Collate
<1>2. use' = use /\ data' = data BY <1>1 DEF Typed, Collate, ClearBinding
<1> USE <1>1, <1>2 DEF Busy, Collate, WorkerGoto, batchVars, queueVars, workerVars, BatchState, WorkerPC, ConsumerPC
<1>3. Typed' BY DEF Typed
<1>4. Staffed' BY DEF Typed, Staffed, Bound, Alone
<1>5. Bound' BY DEF Typed, Staffed, Bound, Alone
<1>6. Alone' BY DEF Typed, Alone
<1>7. Owned' BY DEF Typed, Staffed, Bound, Owned
<1>8. Ending' BY DEF Typed, Ending
<1> QED BY <1>3, <1>4, <1>5, <1>6, <1>7, <1>8

LEMMA ReclaimKeeps ==
  ASSUME Typed, Binding, (DeviceFinish \/ \E w \in Workers : Reclaim(w))
  PROVE  Typed' /\ Binding'
<1> USE DataLoaderAssumption DEF Binding
<1>1. \E b \in Buffers : use[b] \in {"device", "done"} /\ use' = [use EXCEPT ![b] = IF use[b] = "device" THEN "done" ELSE "free"]
  BY DEF DeviceFinish, Reclaim, Ring!Finish, Ring!Reclaim, Ring!Move
<1>2. UNCHANGED <<batchVars, queueVars, workerStatus, stop, workerVars, cpc>> BY DEF DeviceFinish, Reclaim
<1> USE <1>1, <1>2 DEF Busy, Ring!Use, batchVars, queueVars, workerVars, BatchState, WorkerPC, ConsumerPC
<1>3. Typed' BY DEF Typed
<1>4. Staffed' BY DEF Typed, Staffed, Bound, Alone
<1>5. Bound' BY DEF Typed, Staffed, Bound, Alone
<1>6. Alone' BY DEF Typed, Alone
<1>7. Owned' BY DEF Typed, Staffed, Bound, Owned
<1>8. Ending' BY DEF Typed, Ending
<1> QED BY <1>3, <1>4, <1>5, <1>6, <1>7, <1>8

LEMMA PublishKeeps ==
  ASSUME Typed, Binding, NEW w \in Workers, Publish(w)
  PROVE  Typed' /\ Binding'
<1> USE DataLoaderAssumption DEF Binding
<1> USE DEF Busy, Publish, WorkerGoto, Ring!Publish, Ring!Move, Ring!Use, batchVars, queueVars,
      workerVars, BatchState, WorkerPC, ConsumerPC
<1>1. Typed' BY DEF Typed
<1>2. Staffed' BY DEF Typed, Staffed, Bound, Alone
<1>3. Bound' BY DEF Typed, Staffed, Bound, Alone
<1>4. Alone' BY DEF Typed, Alone
<1>5. Owned' BY DEF Typed, Staffed, Bound, Owned
<1>6. Ending' BY DEF Typed, Ending
<1> QED BY <1>1, <1>2, <1>3, <1>4, <1>5, <1>6

LEMMA CopyFailsKeeps ==
  ASSUME Typed, Binding, NEW w \in Workers, CopyFails(w)
  PROVE  Typed' /\ Binding'
<1> USE DataLoaderAssumption DEF Binding
<1>1. wslot[w] \in Slot /\ state[wslot[w]] = "FILLING" /\ ClearBinding(wslot[w]) BY DEF Typed, Staffed, Busy, CopyFails
<1>2. /\ use' \in [Buffers -> Ring!Use] /\ data' \in [Slot -> Buffers \cup {NoBuffer}]
      /\ \A r \in Slot : data'[r] = IF r = wslot[w] THEN NoBuffer ELSE data[r]
      /\ \A b \in Buffers : use'[b] = IF data[wslot[w]] = b THEN "free" ELSE use[b]
  BY <1>1, Cleared
<1> USE <1>1, <1>2 DEF Busy, CopyFails, WorkerGoto, batchVars, queueVars, workerVars, BatchState, WorkerPC, ConsumerPC
<1>3. Typed' BY DEF Typed
<1>4. Staffed' BY DEF Typed, Staffed, Bound, Alone
<1>5. Bound' BY DEF Typed, Staffed, Bound, Alone
<1>6. Alone' BY DEF Typed, Alone
<1>7. Owned' BY DEF Typed, Staffed, Bound, Owned
<1>8. Ending' BY DEF Typed, Ending
<1> QED BY <1>3, <1>4, <1>5, <1>6, <1>7, <1>8

LEMMA FillDoneKeeps ==
  ASSUME Typed, Binding, NEW w \in Workers, FillDone(w)
  PROVE  Typed' /\ Binding'
<1> USE DataLoaderAssumption DEF Binding
<1> USE DEF Busy, FillDone, WorkerGoto, WakeConsumer, batchVars, queueVars, workerVars, BatchState,
      WorkerPC, ConsumerPC
<1>1. Typed' BY DEF Typed
<1>2. Staffed' BY DEF Typed, Staffed, Bound, Alone
<1>3. Bound' BY DEF Typed, Staffed, Bound, Alone
<1>4. Alone' BY DEF Typed, Staffed, Alone
<1>5. Owned' BY DEF Typed, Staffed, Bound, Owned
<1>6. Ending' BY DEF Typed, Ending
<1> QED BY <1>1, <1>2, <1>3, <1>4, <1>5, <1>6

LEMMA FillFailedKeeps ==
  ASSUME Typed, Binding, NEW w \in Workers, FillFailed(w)
  PROVE  Typed' /\ Binding'
<1> USE DataLoaderAssumption DEF Binding
<1>1. wslot[w] \in Slot /\ state[wslot[w]] = "FILLING" /\ data[wslot[w]] = NoBuffer BY DEF Typed, Staffed, Busy, FillFailed
<1>2. use' = use /\ data' = data BY <1>1 DEF Typed, FillFailed, ClearBinding
<1> USE <1>1, <1>2 DEF Busy, FillFailed, WorkerGoto, WakeConsumer, batchVars, queueVars, workerVars, BatchState,
      WorkerPC, ConsumerPC
<1>3. Typed' BY DEF Typed
<1>4. Staffed' BY DEF Typed, Staffed, Bound, Alone
<1>5. Bound' BY DEF Typed, Staffed, Bound, Alone
<1>6. Alone' BY DEF Typed, Alone
<1>7. Owned' BY DEF Typed, Staffed, Bound, Owned
<1>8. Ending' BY DEF Typed, Ending
<1> QED BY <1>3, <1>4, <1>5, <1>6, <1>7, <1>8

LEMMA PrefetchKeeps ==
  ASSUME Typed, Binding, Prefetch
  PROVE  Typed' /\ Binding'
<1> USE DataLoaderAssumption DEF Binding
<1>1. /\ wpc' \in [Workers -> WorkerPC]
      /\ \A w \in Workers : wpc'[w] = wpc[w] \/ (wpc[w] = "parked" /\ wpc'[w] = "check")
  BY Woken DEF Prefetch, Request
<1>2. requested + 1 \in Nat BY DEF Typed
<1> USE <1>1, <1>2 DEF Busy, Prefetch, Request, batchVars, queueVars, workerVars, BatchState, WorkerPC, ConsumerPC
<1>3. Typed' BY DEF Typed
<1>4. Staffed' BY DEF Typed, Staffed, Bound, Alone
<1>5. Bound' BY DEF Typed, Staffed, Bound, Alone
<1>6. Alone' BY DEF Typed, Alone
<1>7. Owned' BY DEF Typed, Staffed, Bound, Owned
<1>8. Ending' BY DEF Typed, Ending
<1> QED BY <1>3, <1>4, <1>5, <1>6, <1>7, <1>8

LEMMA CallNextKeeps ==
  ASSUME Typed, Binding, (CallNext \/ NextFails \/ StepBegun)
  PROVE  Typed' /\ Binding'
<1> USE DataLoaderAssumption DEF Binding
<1> USE DEF Busy, CallNext, NextFails, StepBegun, batchVars, queueVars, workerVars, BatchState,
      WorkerPC, ConsumerPC
<1>1. Typed' BY DEF Typed
<1>2. Staffed' BY DEF Typed, Staffed, Bound, Alone
<1>3. Bound' BY DEF Typed, Staffed, Bound, Alone
<1>4. Alone' BY DEF Typed, Alone
<1>5. Owned' BY DEF Typed, Staffed, Bound, Owned
<1>6. Ending' BY DEF Typed, Ending
<1> QED BY <1>1, <1>2, <1>3, <1>4, <1>5, <1>6

LEMMA NextWaitsKeeps ==
  ASSUME Typed, Binding, NextWaits
  PROVE  Typed' /\ Binding'
<1> USE DataLoaderAssumption DEF Binding
<1>1. /\ wpc' \in [Workers -> WorkerPC]
      /\ \A w \in Workers : wpc'[w] = wpc[w] \/ (wpc[w] = "parked" /\ wpc'[w] = "check")
  BY Woken DEF NextWaits, Request, Typed
<1>2. requested' \in Nat BY DEF Typed, NextWaits, Request
<1> USE <1>1, <1>2 DEF Busy, NextWaits, batchVars, queueVars, workerVars, BatchState, WorkerPC, ConsumerPC
<1>3. Typed' BY DEF Typed
<1>4. Staffed' BY DEF Typed, Staffed, Bound, Alone
<1>5. Bound' BY DEF Typed, Staffed, Bound, Alone
<1>6. Alone' BY DEF Typed, Alone
<1>7. Owned' BY DEF Typed, Staffed, Bound, Owned
<1>8. Ending' BY DEF Typed, Ending
<1> QED BY <1>3, <1>4, <1>5, <1>6, <1>7, <1>8

LEMMA DeliverKeeps ==
  ASSUME Typed, Binding, Deliver
  PROVE  Typed' /\ Binding'
<1> USE DataLoaderAssumption DEF Binding
<1> USE DEF Busy, Deliver, Due, batchVars, queueVars, workerVars, BatchState, WorkerPC, ConsumerPC
<1>1. Typed' BY DEF Typed
<1>2. Staffed' BY DEF Typed, Staffed, Bound, Alone
<1>3. Bound' BY DEF Typed, Staffed, Bound, Alone
<1>4. Alone' BY DEF Typed, Alone
<1>5. Owned' BY DEF Typed, Staffed, Bound, Owned
<1>6. Ending' BY DEF Typed, Ending
<1> QED BY <1>1, <1>2, <1>3, <1>4, <1>5, <1>6

LEMMA BeginStepKeeps ==
  ASSUME Typed, Binding, NEW s \in Slot, BeginStep(s)
  PROVE  Typed' /\ Binding'
<1> USE DataLoaderAssumption DEF Binding
<1> USE DEF Busy, BeginStep, InState, Ring!Open, Ring!Move, Ring!Use, batchVars, queueVars, workerVars,
      BatchState, WorkerPC, ConsumerPC
<1>1. Typed' BY DEF Typed
<1>2. Staffed' BY DEF Typed, Staffed, Bound, Alone
<1>3. Bound' BY DEF Typed, Staffed, Bound, Alone
<1>4. Alone' BY DEF Typed, Alone
<1>5. Owned' BY DEF Typed, Staffed, Bound, Owned
<1>6. Ending' BY DEF Typed, Ending
<1> QED BY <1>1, <1>2, <1>3, <1>4, <1>5, <1>6

LEMMA AbortBeginKeeps ==
  ASSUME Typed, Binding, NEW s \in Slot, AbortBegin(s)
  PROVE  Typed' /\ Binding'
<1> USE DataLoaderAssumption DEF Binding
<1> USE DEF Busy, AbortBegin, Ring!Move, Ring!Use, batchVars, queueVars, workerVars, BatchState,
      WorkerPC, ConsumerPC
<1>1. Typed' BY DEF Typed
<1>2. Staffed' BY DEF Typed, Staffed, Bound, Alone
<1>3. Bound' BY DEF Typed, Staffed, Bound, Alone
<1>4. Alone' BY DEF Typed, Alone
<1>5. Owned' BY DEF Typed, Staffed, Bound, Owned
<1>6. Ending' BY DEF Typed, Ending
<1> QED BY <1>1, <1>2, <1>3, <1>4, <1>5, <1>6

LEMMA EndStepKeeps ==
  ASSUME Typed, Binding, NEW s \in Slot, EndStep(s)
  PROVE  Typed' /\ Binding'
<1> USE DataLoaderAssumption DEF Binding
<1> USE DEF Busy, EndStep, Ring!Submit, Ring!Move, Ring!Use, batchVars, queueVars, workerVars,
      BatchState, WorkerPC, ConsumerPC
<1>1. Typed' BY DEF Typed
<1>2. Staffed' BY DEF Typed, Staffed, Bound, Alone
<1>3. Bound' BY DEF Typed, Staffed, Bound, Alone
<1>4. Alone' BY DEF Typed, Alone
<1>5. Owned' BY DEF Typed, Staffed, Bound, Owned
<1>6. Ending' BY DEF Typed, Ending
<1> QED BY <1>1, <1>2, <1>3, <1>4, <1>5, <1>6

LEMMA ReleaseKeeps ==
  ASSUME Typed, Binding, NEW s \in Slot, Release(s)
  PROVE  Typed' /\ Binding'
<1> USE DataLoaderAssumption DEF Binding
<1>1. /\ wpc' \in [Workers -> WorkerPC]
      /\ \A w \in Workers : wpc'[w] = wpc[w] \/ (wpc[w] = "parked" /\ wpc'[w] = "check")
  BY Woken DEF Release
<1>2. /\ use' \in [Buffers -> Ring!Use] /\ data' \in [Slot -> Buffers \cup {NoBuffer}]
      /\ \A r \in Slot : data'[r] = IF r = s THEN NoBuffer ELSE data[r]
      /\ \A b \in Buffers : use'[b] = IF state[s] # "RETIRED" /\ data[s] = b THEN "free" ELSE use[b]
  BY Cleared DEF Release
<1> USE <1>1, <1>2 DEF Busy, Release, batchVars, queueVars, workerVars, BatchState, WorkerPC, ConsumerPC
<1>3. Typed' BY DEF Typed
<1>4. Staffed' BY DEF Typed, Staffed, Bound, Alone
<1>5. Bound' BY DEF Typed, Staffed, Bound, Alone
<1>6. Alone' BY DEF Typed, Alone
<1>7. Owned' BY DEF Typed, Staffed, Bound, Owned
<1>8. Ending' BY DEF Typed, Ending
<1> QED BY <1>3, <1>4, <1>5, <1>6, <1>7, <1>8

LEMMA DestroyKeeps ==
  ASSUME Typed, Binding, Destroy
  PROVE  Typed' /\ Binding'
<1> USE DataLoaderAssumption DEF Binding
<1>1. /\ wpc' \in [Workers -> WorkerPC]
      /\ \A w \in Workers : wpc'[w] = wpc[w] \/ (wpc[w] = "parked" /\ wpc'[w] = "check")
  BY Woken DEF Destroy
<1> USE <1>1 DEF Busy, Destroy, InState, batchVars, queueVars, workerVars, BatchState, WorkerPC, ConsumerPC
<1>2. Typed' BY DEF Typed
<1>3. Staffed' BY DEF Typed, Staffed, Bound, Alone
<1>4. Bound' BY DEF Typed, Staffed, Bound, Alone
<1>5. Alone' BY DEF Typed, Alone
<1>6. Owned' BY DEF Typed, Staffed, Bound, Owned
<1>7. Ending' BY DEF Typed, Ending
<1> QED BY <1>2, <1>3, <1>4, <1>5, <1>6, <1>7

LEMMA DestroySlotKeeps ==
  ASSUME Typed, Binding, NEW s \in Slot, DestroySlot(s)
  PROVE  Typed' /\ Binding'
<1> USE DataLoaderAssumption DEF Binding
<1>1. /\ use' \in [Buffers -> Ring!Use] /\ data' \in [Slot -> Buffers \cup {NoBuffer}]
      /\ \A r \in Slot : data'[r] = IF r = s THEN NoBuffer ELSE data[r]
      /\ \A b \in Buffers : use'[b] = IF state[s] # "RETIRED" /\ data[s] = b THEN "free" ELSE use[b]
  BY Cleared DEF DestroySlot, Ending
<1> USE <1>1 DEF Busy, DestroySlot, batchVars, queueVars, workerVars, BatchState, WorkerPC, ConsumerPC
<1>2. Typed' BY DEF Typed
<1>3. Staffed' BY DEF Typed, Staffed, Ending
<1>4. Bound' BY DEF Typed, Staffed, Bound, Alone
<1>5. Alone' BY DEF Typed, Alone
<1>6. Owned' BY DEF Typed, Staffed, Bound, Owned
<1>7. Ending' BY DEF Typed, Ending
<1> QED BY <1>2, <1>3, <1>4, <1>5, <1>6, <1>7

LEMMA DestroyedKeeps ==
  ASSUME Typed, Binding, (Joined \/ Destroyed)
  PROVE  Typed' /\ Binding'
<1> USE DataLoaderAssumption DEF Binding
<1> USE DEF Busy, Joined, Destroyed, InState, batchVars, queueVars, workerVars, BatchState, WorkerPC,
      ConsumerPC
<1>1. Typed' BY DEF Typed
<1>2. Staffed' BY DEF Typed, Staffed, Bound, Alone
<1>3. Bound' BY DEF Typed, Staffed, Bound, Alone
<1>4. Alone' BY DEF Typed, Alone
<1>5. Owned' BY DEF Typed, Staffed, Bound, Owned
<1>6. Ending' BY DEF Typed, Ending
<1> QED BY <1>1, <1>2, <1>3, <1>4, <1>5, <1>6

\* Every step keeps the types and the binding.
LEMMA StepKeeps == Typed /\ Binding /\ [Next]_vars => Typed' /\ Binding'
<1> SUFFICES ASSUME Typed, Binding, [Next]_vars PROVE Typed' /\ Binding' OBVIOUS
<1>1. ASSUME NEW w \in Workers, Worker(w) PROVE Typed' /\ Binding'
  BY <1>1, TakeKeeps, AcquireKeeps, ParkKeeps, CollateKeeps, ReclaimKeeps, PublishKeeps, CopyFailsKeeps,
     FillDoneKeeps, FillFailedKeeps DEF Worker, Fill
<1>2. CASE Consumer
  BY <1>2, PrefetchKeeps, CallNextKeeps, NextWaitsKeeps, DeliverKeeps, BeginStepKeeps, AbortBeginKeeps,
     EndStepKeeps, ReleaseKeeps, DestroyKeeps, DestroySlotKeeps, DestroyedKeeps
  DEF Consumer, TryNext, Destroying
<1>3. CASE DeviceFinish BY <1>3, ReclaimKeeps
<1>4. CASE UNCHANGED vars
  BY <1>4 DEF vars, batchVars, queueVars, workerVars, Typed, Binding, Staffed, Busy, Bound, Alone, Owned, Ending
<1> QED BY <1>1, <1>2, <1>3, <1>4 DEF Next

LEMMA InitBinding == Init => Typed /\ Binding
<1> SUFFICES ASSUME Init PROVE Typed /\ Binding OBVIOUS
<1>1. 0 \in Slot BY Sizes DEF Slot
<1>2. Typed
  <2>1. use \in [Buffers -> Ring!Use] BY DEF Init, Ring!Use
  <2>2. state \in [Slot -> BatchState] /\ seq \in [Slot -> Nat] BY DEF Init, BatchState
  <2>3. data \in [Slot -> Buffers \cup {NoBuffer}] BY DEF Init
  <2>4. DOMAIN ids = Slot BY DEF Init
  <2>5. {requested, nextSeq, deliverSeq, epoch, inEpoch} \subseteq Nat BY DEF Init
  <2>6. wpc \in [Workers -> WorkerPC] /\ wslot \in [Workers -> Slot] BY <1>1 DEF Init, WorkerPC
  <2>7. workerStatus \in {"OK", "ERROR"} /\ stop \in BOOLEAN /\ cpc \in ConsumerPC BY DEF Init, ConsumerPC
  <2> QED BY <2>1, <2>2, <2>3, <2>4, <2>5, <2>6, <2>7 DEF Typed
<1>3. Binding BY DataLoaderAssumption DEF Init, Binding, Staffed, Busy, Bound, Alone, Owned, Ending
<1> QED BY <1>2, <1>3

----------------------------------------------------------------------------
(* Which samples a batch has.                                              *)

\* The number nextSeq, the epoch and the position in it go together.
Position ==
  \E k \in 0 .. StepsPerEpoch : inEpoch = k * BatchSize /\ nextSeq = epoch * StepsPerEpoch + k

\* What batch n of the run holds.
BatchOf(n) == Picked(n \div StepsPerEpoch, (n % StepsPerEpoch) * BatchSize)

\* Batches have numbers of their own, and the samples of their numbers.
Numbered ==
  /\ \A s \in Slot : state[s] # "FREE" =>
       /\ seq[s] < nextSeq
       /\ ids[s] = BatchOf(seq[s])
  /\ \A r, s \in Slot : r # s /\ state[r] # "FREE" /\ state[s] # "FREE" => seq[r] # seq[s]

\* The batches on their way are those not delivered, unless a fill failed.
Complete ==
  /\ deliverSeq <= nextSeq
  /\ workerStatus = "OK" /\ cpc \notin {"destroying", "gone"} =>
       /\ \A s \in Slot : state[s] \in {"FILLING", "READY"} => deliverSeq <= seq[s]
       /\ \A n \in deliverSeq .. nextSeq - 1 :
            \E s \in Slot : state[s] \in {"FILLING", "READY"} /\ seq[s] = n

LEMMA Product == \A a, b \in Nat : a * b \in Nat
BY SMTT(30)

LEMMA Multiple ==
  ASSUME NEW a \in Nat, NEW b \in Nat, NEW n \in Nat, a < b
  PROVE  a * n + n <= b * n
<1>1. (b - a - 1) * n >= 0 BY SMTT(30)
<1> QED BY <1>1, SMTT(30)

LEMMA Division ==
  ASSUME NEW e \in Nat, NEW n \in Nat \ {0}, NEW k \in 0 .. n - 1
  PROVE  (e * n + k) \div n = e /\ (e * n + k) % n = k
<1> DEFINE x == e * n + k
           q == x \div n
           r == x % n
<1>1. x \in Nat /\ e * n \in Nat BY SMTT(30)
<1>2. r \in 0 .. n - 1 /\ q \in Int /\ x = q * n + r BY <1>1, SMTT(30)
<1> HIDE DEF q, r
<1>3. q * n > -n BY <1>1, <1>2
<1>4. q \in Nat BY <1>2, <1>3, SMTT(30)
<1>5. ~ (q < e)
  <2> SUFFICES ASSUME q < e PROVE FALSE OBVIOUS
  <2>1. q * n + n <= e * n BY <1>4, Multiple
  <2> QED BY <1>1, <1>2, <1>4, <2>1
<1>6. ~ (e < q)
  <2> SUFFICES ASSUME e < q PROVE FALSE OBVIOUS
  <2>1. e * n + n <= q * n BY <1>4, Multiple
  <2> QED BY <1>1, <1>2, <1>4, <2>1
<1>7. q = e BY <1>4, <1>5, <1>6
<1>8. r = k
  <2> DEFINE p == e * n
  <2>1. p \in Nat /\ p + k = p + r BY <1>1, <1>2, <1>7
  <2> HIDE DEF p
  <2> QED BY <1>2, <2>1
<1> QED BY <1>7, <1>8 DEF q, r

LEMMA EpochSteps == StepsPerEpoch \in Nat \ {0} /\ SamplesPerEpoch = StepsPerEpoch * BatchSize /\ SamplesPerEpoch <= NumSamples
<1> DEFINE d == NumSamples \div BatchSize
           r == NumSamples % BatchSize
<1>0. BatchSize \in Nat \ {0} /\ NumSamples \in Nat /\ NumSamples >= BatchSize
  BY DataLoaderAssumption, SamplerAssumption
<1>1. r \in 0 .. BatchSize - 1 BY <1>0
<1>2. d \in Int /\ NumSamples = d * BatchSize + r BY <1>0, SMTT(30)
<1> HIDE DEF d, r
<1>3. d * BatchSize > 0 BY <1>0, <1>1, <1>2
<1>4. d > 0 BY <1>0, <1>2, <1>3, SMTT(30)
<1>5. StepsPerEpoch = d BY DEF StepsPerEpoch, d
<1>6. d * BatchSize \in Int BY <1>0, <1>2
<1> QED BY <1>0, <1>1, <1>2, <1>4, <1>5, <1>6 DEF SamplesPerEpoch

\* gd_dataloader_assign_batch_locked takes the samples of the next number.
LEMMA Assigned ==
  ASSUME Typed, Position, NEW s \in Slot, Assign(s)
  PROVE  \E k \in 0 .. StepsPerEpoch - 1 :
           /\ epoch' \in Nat /\ inEpoch' = (k + 1) * BatchSize /\ nextSeq = epoch' * StepsPerEpoch + k
           /\ ids' = [ids EXCEPT ![s] = Picked(epoch', k * BatchSize)]
<1> DEFINE S == StepsPerEpoch
           B == BatchSize
<1>0. S \in Nat \ {0} /\ SamplesPerEpoch = S * B /\ B \in Nat \ {0} /\ epoch \in Nat
  BY EpochSteps, DataLoaderAssumption DEF Typed
<1>1. PICK k \in 0 .. S : inEpoch = k * B /\ nextSeq = epoch * S + k BY DEF Position
<1> HIDE DEF S, B
<1>2. k * B \in Nat /\ S * B \in Nat BY <1>0
<1>3. CASE k = S
  <2>1. inEpoch + B > SamplesPerEpoch BY <1>0, <1>1, <1>2, <1>3
  <2>2. epoch' = epoch + 1 /\ inEpoch' = 0 + B /\ ids' = [ids EXCEPT ![s] = Picked(epoch + 1, 0)]
    BY <2>1 DEF Assign, B
  <2>3. epoch * S + S = (epoch + 1) * S + 0 BY <1>0, SMTT(30)
  <2>4. 0 * B = 0 /\ (0 + 1) * B = 0 + B BY <1>0, SMTT(30)
  <2>5. 0 \in 0 .. S - 1 BY <1>0
  <2>6. epoch' \in Nat /\ inEpoch' = (0 + 1) * B /\ nextSeq = epoch' * S + 0 BY <1>0, <1>1, <1>3, <2>2, <2>3, <2>4
  <2>7. ids' = [ids EXCEPT ![s] = Picked(epoch', 0 * B)] BY <2>2, <2>4
  <2> QED BY <2>5, <2>6, <2>7 DEF S, B
<1>4. CASE k # S
  <2>1. k \in 0 .. S - 1 BY <1>0, <1>1, <1>4
  <2>2. k * B + B <= S * B BY <1>0, <2>1, Multiple
  <2>3. ~ (inEpoch + B > SamplesPerEpoch) BY <1>0, <1>1, <1>2, <2>2
  <2>4. epoch' = epoch /\ inEpoch' = k * B + B /\ ids' = [ids EXCEPT ![s] = Picked(epoch, k * B)]
    BY <1>1, <2>3 DEF Assign, B
  <2>5. (k + 1) * B = k * B + B BY <1>0, <2>1, SMTT(30)
  <2>6. epoch' \in Nat /\ inEpoch' = (k + 1) * B /\ nextSeq = epoch' * S + k BY <1>0, <1>1, <2>4, <2>5
  <2>7. ids' = [ids EXCEPT ![s] = Picked(epoch', k * B)] BY <2>4
  <2> QED BY <2>1, <2>6, <2>7 DEF S, B
<1> QED BY <1>3, <1>4

\* Only Take gives a batch a number and samples.
LEMMA OnlyTake ==
  ASSUME Typed, Binding, [Next]_vars, \A w \in Workers : ~ Take(w)
  PROVE  /\ \A s \in Slot : state'[s] # "FREE" => state[s] # "FREE" /\ seq'[s] = seq[s] /\ ids'[s] = ids[s]
         /\ UNCHANGED <<nextSeq, epoch, inEpoch>>
<1> DEFINE Goal == /\ \A s \in Slot : state'[s] # "FREE" => state[s] # "FREE" /\ seq'[s] = seq[s] /\ ids'[s] = ids[s]
                   /\ UNCHANGED <<nextSeq, epoch, inEpoch>>
<1> USE DEF Typed, batchVars, queueVars, workerVars
<1>1. ASSUME NEW w \in Workers, Park(w) \/ Exit(w) PROVE Goal BY <1>1 DEF Park, Exit
<1>2. ASSUME NEW w \in Workers, Fill(w) PROVE Goal
  BY <1>2 DEF Fill, Collate, Acquire, Reclaim, ReclaimFails, Publish, CopyFails
<1>3. ASSUME NEW w \in Workers, FillDone(w) PROVE Goal BY <1>3 DEF FillDone, Binding, Staffed, Busy
<1>4. ASSUME NEW w \in Workers, FillFailed(w) PROVE Goal BY <1>4 DEF FillFailed, Binding, Staffed, Busy
<1>5. ASSUME Prefetch \/ CallNext \/ NextFails \/ NextWaits \/ StepBegun \/ Destroy \/ Joined \/ Destroyed PROVE Goal
  BY <1>5 DEF Prefetch, CallNext, NextFails, NextWaits, StepBegun, Destroy, Joined, Destroyed
<1>6. ASSUME Deliver PROVE Goal BY <1>6 DEF Deliver, Due
<1>7. ASSUME NEW s \in Slot, BeginStep(s) \/ AbortBegin(s) \/ EndStep(s) PROVE Goal
  BY <1>7 DEF BeginStep, AbortBegin, EndStep
<1>8. ASSUME NEW s \in Slot, Release(s) \/ DestroySlot(s) PROVE Goal BY <1>8 DEF Release, DestroySlot
<1>9. ASSUME DeviceFinish PROVE Goal BY <1>9 DEF DeviceFinish
<1>10. ASSUME UNCHANGED vars PROVE Goal BY <1>10 DEF vars
<1> HIDE DEF Goal
<1>11. ASSUME NEW w \in Workers, Worker(w) PROVE Goal BY <1>1, <1>2, <1>3, <1>4, <1>11 DEF Worker
<1>12. ASSUME Consumer PROVE Goal BY <1>5, <1>6, <1>7, <1>8, <1>12 DEF Consumer, TryNext, Destroying
<1>13. Goal BY <1>9, <1>10, <1>11, <1>12 DEF Next
<1> QED BY <1>13 DEF Goal

\* A batch that is taken gets the next number.
LEMMA Taken ==
  ASSUME Typed, Position, NEW w \in Workers, Take(w)
  PROVE  \E s \in Slot :
           /\ state[s] = "FREE" /\ state' = [state EXCEPT ![s] = "FILLING"]
           /\ seq' = [seq EXCEPT ![s] = nextSeq] /\ nextSeq' = nextSeq + 1
           /\ ids' = [ids EXCEPT ![s] = BatchOf(nextSeq)]
           /\ Position'
<1>1. PICK s \in Slot :
        /\ state[s] = "FREE" /\ state' = [state EXCEPT ![s] = "FILLING"]
        /\ seq' = [seq EXCEPT ![s] = nextSeq] /\ nextSeq' = nextSeq + 1 /\ Assign(s)
  BY DEF Take, FirstFree
<1>2. PICK k \in 0 .. StepsPerEpoch - 1 :
        /\ epoch' \in Nat /\ inEpoch' = (k + 1) * BatchSize /\ nextSeq = epoch' * StepsPerEpoch + k
        /\ ids' = [ids EXCEPT ![s] = Picked(epoch', k * BatchSize)]
  BY <1>1, Assigned
<1>3. nextSeq \div StepsPerEpoch = epoch' /\ nextSeq % StepsPerEpoch = k BY <1>2, Division, EpochSteps
<1>4. StepsPerEpoch \in Nat /\ epoch' \in Nat BY <1>2, EpochSteps
<1>5. epoch' * StepsPerEpoch \in Nat BY <1>4, Product, Zenon
<1>6. nextSeq' = epoch' * StepsPerEpoch + (k + 1) /\ k + 1 \in 0 .. StepsPerEpoch BY <1>1, <1>2, <1>4, <1>5
<1>7. Position' BY <1>2, <1>6 DEF Position, StepsPerEpoch
<1> QED BY <1>1, <1>2, <1>3, <1>7 DEF BatchOf

LEMMA NumberedKeeps ==
  ASSUME Typed, Binding, Position, Numbered, [Next]_vars
  PROVE  Position' /\ Numbered'
<1>1. ASSUME NEW w \in Workers, Take(w) PROVE Position' /\ Numbered'
  <2>1. PICK s \in Slot :
           /\ state[s] = "FREE" /\ state' = [state EXCEPT ![s] = "FILLING"]
           /\ seq' = [seq EXCEPT ![s] = nextSeq] /\ nextSeq' = nextSeq + 1
           /\ ids' = [ids EXCEPT ![s] = BatchOf(nextSeq)]
           /\ Position'
    BY <1>1, Taken
  <2>2. seq \in [Slot -> Nat] /\ state \in [Slot -> BatchState] /\ DOMAIN ids = Slot /\ nextSeq \in Nat BY DEF Typed
  <2>3. ASSUME NEW r \in Slot, state'[r] # "FREE" PROVE seq'[r] < nextSeq' /\ ids'[r] = BatchOf(seq'[r])
    BY <2>1, <2>2, <2>3 DEF Numbered
  <2>4. ASSUME NEW r \in Slot, NEW q \in Slot, r # q, state'[r] # "FREE", state'[q] # "FREE" PROVE seq'[r] # seq'[q]
    BY <2>1, <2>2, <2>4 DEF Numbered
  <2>5. Numbered' BY <2>3, <2>4 DEF Numbered, BatchOf, Picked
  <2> QED BY <2>1, <2>5
<1>2. CASE \A w \in Workers : ~ Take(w)
  <2>1. /\ \A s \in Slot : state'[s] # "FREE" => state[s] # "FREE" /\ seq'[s] = seq[s] /\ ids'[s] = ids[s]
        /\ UNCHANGED <<nextSeq, epoch, inEpoch>>
    BY <1>2, OnlyTake
  <2>2. Position' BY <2>1 DEF Position
  <2>3. Numbered' BY <2>1 DEF Numbered, BatchOf, Picked
  <2> QED BY <2>2, <2>3
<1> QED BY <1>1, <1>2

----------------------------------------------------------------------------
(* Batches on their way.                                                   *)

\* The batches on their way are those not delivered, unless a fill failed.
LEMMA CompleteKeeps ==
  ASSUME Typed, Binding, Numbered, Complete, [Next]_vars
  PROVE  Complete'
<1> DEFINE Running == workerStatus = "OK" /\ cpc \notin {"destroying", "gone"}
           Coming(s) == state[s] \in {"FILLING", "READY"}
<1>0. /\ state \in [Slot -> BatchState] /\ seq \in [Slot -> Nat] /\ nextSeq \in Nat /\ deliverSeq \in Nat
      /\ wslot \in [Workers -> Slot] /\ workerStatus \in {"OK", "ERROR"}
  BY DEF Typed
<1> USE DEF batchVars, queueVars, workerVars
<1>1. ASSUME NEW w \in Workers, Take(w) PROVE Complete'
  <2>1. PICK s \in Slot :
          /\ state[s] = "FREE" /\ state' = [state EXCEPT ![s] = "FILLING"]
          /\ seq' = [seq EXCEPT ![s] = nextSeq]
    BY <1>1 DEF Take, FirstFree
  <2>2. nextSeq' = nextSeq + 1 /\ UNCHANGED <<deliverSeq, workerStatus, cpc>> BY <1>1 DEF Take
  <2>3. deliverSeq <= nextSeq BY DEF Complete
  <2>4. ASSUME Running PROVE \A r \in Slot : Coming(r)' => deliverSeq' <= seq'[r]
    BY <1>0, <2>1, <2>2, <2>3, <2>4 DEF Complete
  <2>5. ASSUME Running, NEW n \in deliverSeq' .. nextSeq' - 1 PROVE \E r \in Slot : Coming(r)' /\ seq'[r] = n
    <3>1. CASE n = nextSeq BY <1>0, <2>1, <3>1
    <3>2. CASE n # nextSeq
      <4>1. n \in deliverSeq .. nextSeq - 1 BY <1>0, <2>2, <2>5, <3>2
      <4>2. PICK r \in Slot : Coming(r) /\ seq[r] = n BY <2>5, <4>1 DEF Complete
      <4> QED BY <1>0, <2>1, <4>2
    <3> QED BY <3>1, <3>2
  <2> QED BY <1>0, <2>2, <2>3, <2>4, <2>5 DEF Complete
<1>2. ASSUME UNCHANGED <<seq, nextSeq, deliverSeq>>, Running' => Running,
             Running' => \A s \in Slot : Coming(s)' <=> Coming(s)
      PROVE  Complete'
  BY <1>2 DEF Complete
<1>3. ASSUME NEW w \in Workers, Park(w) \/ Exit(w) \/ Fill(w) PROVE Complete'
  <2>1. UNCHANGED <<state, seq, nextSeq, deliverSeq, workerStatus, cpc>>
    BY <1>3 DEF Park, Exit, Fill, Collate, Acquire, Reclaim, ReclaimFails, Publish, CopyFails
  <2> QED BY <1>2, <2>1
<1>4. ASSUME NEW w \in Workers, FillDone(w) PROVE Complete'
  <2>1. wslot[w] \in Slot /\ state[wslot[w]] = "FILLING" BY <1>0, <1>4 DEF FillDone, Binding, Staffed, Busy
  <2>2. state' = [state EXCEPT ![wslot[w]] = "READY"] /\ UNCHANGED <<seq, nextSeq, deliverSeq, workerStatus>>
    BY <1>4 DEF FillDone
  <2>3. Running' => Running BY <1>4, <2>2 DEF FillDone, WakeConsumer
  <2> QED BY <1>0, <1>2, <2>1, <2>2, <2>3
<1>5. ASSUME NEW w \in Workers, FillFailed(w) PROVE Complete'
  <2>1. workerStatus' = "ERROR" /\ UNCHANGED <<nextSeq, deliverSeq>> BY <1>5 DEF FillFailed
  <2> QED BY <2>1 DEF Complete
<1>6. ASSUME Prefetch \/ CallNext \/ NextFails \/ NextWaits \/ StepBegun \/ Destroy \/ Joined \/ Destroyed
      PROVE  Complete'
  <2>1. UNCHANGED <<state, seq, nextSeq, deliverSeq, workerStatus>>
    BY <1>6 DEF Prefetch, CallNext, NextFails, NextWaits, StepBegun, Destroy, Joined, Destroyed, Request
  <2>2. Running' => Running
    BY <1>6, <2>1 DEF Prefetch, CallNext, NextFails, NextWaits, StepBegun, Destroy, Joined, Destroyed
  <2> QED BY <1>2, <2>1, <2>2
<1>7. ASSUME Deliver PROVE Complete'
  <2>1. PICK s \in Slot : state[s] = "READY" /\ seq[s] = deliverSeq /\ state' = [state EXCEPT ![s] = "IN_USE"]
    BY <1>7 DEF Deliver, Due
  <2>2. Running /\ deliverSeq' = deliverSeq + 1 /\ UNCHANGED <<seq, nextSeq>> BY <1>7 DEF Deliver
  <2>3. deliverSeq < nextSeq BY <1>0, <2>1 DEF Numbered
  <2>4. ASSUME NEW r \in Slot, Coming(r)' PROVE deliverSeq' <= seq'[r]
    <3>1. r # s /\ Coming(r) BY <1>0, <2>1, <2>4
    <3>2. seq[r] # seq[s] BY <2>1, <3>1 DEF Numbered
    <3>3. deliverSeq <= seq[r] BY <2>2, <3>1 DEF Complete
    <3> QED BY <1>0, <2>1, <2>2, <3>2, <3>3
  <2>5. ASSUME NEW n \in deliverSeq' .. nextSeq' - 1 PROVE \E r \in Slot : Coming(r)' /\ seq'[r] = n
    <3>1. n \in deliverSeq .. nextSeq - 1 /\ n # deliverSeq BY <1>0, <2>2, <2>5
    <3>2. PICK r \in Slot : Coming(r) /\ seq[r] = n BY <2>2, <3>1 DEF Complete
    <3> QED BY <1>0, <2>1, <2>2, <3>1, <3>2
  <2> QED BY <1>0, <2>2, <2>3, <2>4, <2>5 DEF Complete
<1>8. ASSUME NEW s \in Slot, BeginStep(s) \/ AbortBegin(s) \/ EndStep(s) PROVE Complete'
  <2>1. UNCHANGED <<seq, nextSeq, deliverSeq, workerStatus>> BY <1>8 DEF BeginStep, AbortBegin, EndStep
  <2>2. Running' => Running BY <1>8, <2>1 DEF BeginStep, AbortBegin, EndStep
  <2>3. \A r \in Slot : Coming(r)' <=> Coming(r) BY <1>0, <1>8 DEF BeginStep, AbortBegin, EndStep
  <2> QED BY <1>2, <2>1, <2>2, <2>3
<1>9. ASSUME NEW s \in Slot, Release(s) PROVE Complete'
  <2>1. /\ state[s] \in {"IN_USE", "RETIRED"} /\ state' = [state EXCEPT ![s] = "FREE"] /\ seq' = [seq EXCEPT ![s] = 0]
        /\ UNCHANGED <<nextSeq, deliverSeq, workerStatus, cpc>>
    BY <1>9 DEF Release
  <2>2. \A r \in Slot : (Coming(r)' <=> Coming(r)) /\ (Coming(r) => seq'[r] = seq[r]) BY <1>0, <2>1
  <2> QED BY <2>1, <2>2 DEF Complete
<1>10. ASSUME NEW s \in Slot, DestroySlot(s) PROVE Complete'
  <2>1. cpc' = "destroying" /\ UNCHANGED <<nextSeq, deliverSeq>> BY <1>10 DEF DestroySlot
  <2> QED BY <2>1 DEF Complete
<1>11. ASSUME DeviceFinish \/ UNCHANGED vars PROVE Complete'
  <2>1. UNCHANGED <<state, seq, nextSeq, deliverSeq, workerStatus, cpc>> BY <1>11 DEF DeviceFinish, vars
  <2> QED BY <1>2, <2>1
<1>12. ASSUME NEW w \in Workers, Worker(w) PROVE Complete' BY <1>1, <1>3, <1>4, <1>5, <1>12 DEF Worker
<1>13. CASE Consumer BY <1>6, <1>7, <1>8, <1>9, <1>10, <1>13 DEF Consumer, TryNext, Destroying
<1> QED BY <1>11, <1>12, <1>13 DEF Next

----------------------------------------------------------------------------
(* The theorems.                                                           *)

Inv == Typed /\ Binding /\ Position /\ Numbered /\ Complete

\* The invariant that the safety of the loader rests on.
THEOREM Invariance == Spec => []Inv
<1>1. Init => Inv
  <2> SUFFICES ASSUME Init PROVE Inv OBVIOUS
  <2>1. Typed /\ Binding BY InitBinding
  <2>2. Position
    <3>1. inEpoch = 0 * BatchSize /\ nextSeq = epoch * StepsPerEpoch + 0
      BY DataLoaderAssumption, EpochSteps DEF Init
    <3>2. 0 \in 0 .. StepsPerEpoch BY EpochSteps
    <3> QED BY <3>1, <3>2 DEF Position
  <2>3. Numbered BY DEF Init, Numbered
  <2>4. Complete BY DEF Init, Complete
  <2> QED BY <2>1, <2>2, <2>3, <2>4 DEF Inv
<1>2. Inv /\ [Next]_vars => Inv'
  BY StepKeeps, NumberedKeeps, CompleteKeeps DEF Inv
<1> QED BY <1>1, <1>2, PTL DEF Spec

\* gd_batch_clear_data_binding and the steps leave every batch with a data
\* slot that the ring has for it alone.
THEOREM BindingHolds == Spec => []BindingSound
<1>1. Inv => BindingSound BY DEF Inv, Binding, Bound, Alone, BindingSound
<1> QED BY <1>1, Invariance, PTL

\* After gd_dataloader_destroy no data slot is leased to the host or a step.
THEOREM DestroyLeavesNothing == Spec => []DestroyGivesBack
<1>1. Inv => DestroyGivesBack
  <2> SUFFICES ASSUME Inv, cpc = "gone", NEW b \in Buffers PROVE use[b] \in {"free", "device", "done"}
    BY DEF DestroyGivesBack
  <2>1. use[b] \notin {"host", "full", "step"} BY DEF Inv, Binding, Owned, Ending
  <2> QED BY <2>1 DEF Inv, Typed, Ring!Use
<1> QED BY <1>1, Invariance, PTL

\* gd_context_data_slot_acquire finds a slot to take or to wait for the device
\* with: there are no more batches than slots, and the one being filled has
\* none.
THEOREM WorkersFed == Spec => []NeverStarved
<1>1. Inv => NeverStarved
  <2> SUFFICES ASSUME Inv, NEW w \in Workers, wpc[w] = "acquire",
                      \A b \in Buffers : use[b] \notin {"free", "device", "done"}
               PROVE  FALSE
    BY DEF NeverStarved
  <2>1. wslot[w] \in Slot /\ data[wslot[w]] = NoBuffer BY DEF Inv, Typed, Binding, Staffed
  <2>2. \A b \in Buffers : \E s \in Slot : data[s] = b
    BY DEF Inv, Typed, Ring!Use, Binding, Owned
  <2> DEFINE T == Slot \ {wslot[w]}
             f == [b \in Buffers |-> CHOOSE s \in Slot : data[s] = b]
  <2>3. \A b \in Buffers : f[b] \in T /\ data[f[b]] = b BY <2>1, <2>2, DataLoaderAssumption
  <2>4. IsFiniteSet(Slot) /\ Cardinality(Slot) = NSlots
    <3>1. NSlots - 1 \in Int BY Sizes
    <3>2. IsFiniteSet(0 .. NSlots - 1) /\ Cardinality(0 .. NSlots - 1) = IF 0 > NSlots - 1 THEN 0 ELSE (NSlots - 1) - 0 + 1
      BY <3>1, FS_Interval
    <3> QED BY <3>2, Sizes DEF Slot
  <2>5. IsFiniteSet(T) /\ Cardinality(T) = NSlots - 1 BY <2>1, <2>4, FS_RemoveElement
  <2>6. f \in [Buffers -> T] BY <2>3
  <2>7. \A a, b \in Buffers : f[a] = f[b] => a = b BY <2>3
  <2> HIDE DEF f, T
  <2>8. f \in Injection(Buffers, T) BY <2>6, <2>7 DEF Injection, IsInjective
  <2>9. Cardinality(Buffers) <= Cardinality(T) BY <2>5, <2>8, FS_Injection
  <2> QED BY <2>5, <2>9, Sizes
<1> QED BY <1>1, Invariance, PTL

LEMMA BatchFields ==
  \A n : /\ BatchOf(n).epoch = n \div StepsPerEpoch
         /\ BatchOf(n).first = (n % StepsPerEpoch) * BatchSize
<1> DEFINE S == StepsPerEpoch
           B == BatchSize
           Q(n) == n \div S
           F(n) == (n % S) * B
<1> HIDE DEF Q, F
<1>1. \A n : BatchOf(n) = [epoch |-> Q(n), first |-> F(n), samples |-> BatchOf(n).samples]
  BY DEF BatchOf, Picked, Q, F
<1>2. \A n : BatchOf(n).epoch = Q(n) /\ BatchOf(n).first = F(n)
  <2> TAKE n
  <2>1. PICK T : BatchOf(n) = [epoch |-> Q(n), first |-> F(n), samples |-> T] BY <1>1
  <2> QED BY <2>1
<1> QED BY <1>2 DEF Q, F

\* gd_dataloader_assign_batch_locked: whichever worker fills it, batch n of
\* the run is the next full batch of its epoch.
THEOREM BatchesInOrder == Spec => []SamplesInOrder
<1>1. Inv => SamplesInOrder
  <2> SUFFICES ASSUME Inv, NEW s \in Slot, state[s] # "FREE"
               PROVE  /\ ids[s].epoch = seq[s] \div StepsPerEpoch
                      /\ ids[s].first = (seq[s] % StepsPerEpoch) * BatchSize
    BY DEF SamplesInOrder, InState
  <2> QED BY BatchFields DEF Inv, Numbered
<1> QED BY <1>1, Invariance, PTL

\* gd_dataloader_next meets every batch once: those assigned and not delivered
\* are there, each once, unless a fill failed.
THEOREM NoBatchLost == Spec => []NothingLost
<1>1. Inv => NothingLost
  <2> DEFINE coming == InState("FILLING") \cup InState("READY")
  <2> SUFFICES ASSUME Inv, cpc \notin {"destroying", "gone"}
               PROVE  /\ \A r, s \in coming : r # s => seq[r] # seq[s]
                      /\ workerStatus = "OK" => {seq[s] : s \in coming} = deliverSeq .. nextSeq - 1
    BY DEF NothingLost
  <2>0. \A s : s \in coming <=> s \in Slot /\ state[s] \in {"FILLING", "READY"} BY DEF InState
  <2> HIDE DEF coming
  <2>1. ASSUME NEW r \in coming, NEW s \in coming, r # s PROVE seq[r] # seq[s]
    BY <2>0, <2>1 DEF Inv, Numbered
  <2>2. ASSUME workerStatus = "OK" PROVE {seq[s] : s \in coming} = deliverSeq .. nextSeq - 1
    <3>0. deliverSeq \in Nat /\ nextSeq \in Nat /\ seq \in [Slot -> Nat] BY DEF Inv, Typed
    <3>1. \A s \in coming : seq[s] \in deliverSeq .. nextSeq - 1
      BY <2>0, <2>2, <3>0 DEF Inv, Numbered, Complete
    <3>2. \A n \in deliverSeq .. nextSeq - 1 : \E s \in coming : seq[s] = n
      BY <2>0, <2>2 DEF Inv, Complete
    <3> QED BY <3>1, <3>2
  <2> QED BY <2>1, <2>2
<1> QED BY <1>1, Invariance, PTL

----------------------------------------------------------------------------
(* The samples of an epoch.                                                *)

\* The samples of batch n are BatchSize different ones.
LEMMA BatchSamples ==
  ASSUME SamplerSound, NEW n \in Nat
  PROVE  LET k == n % StepsPerEpoch IN
         /\ k \in 0 .. StepsPerEpoch - 1 /\ n \div StepsPerEpoch \in Nat
         /\ k * BatchSize \in 0 .. SamplesPerEpoch - BatchSize
         /\ BatchOf(n).samples \subseteq 0 .. NumSamples - 1
         /\ Cardinality(BatchOf(n).samples) = BatchSize
<1> DEFINE k == n % StepsPerEpoch
           e == n \div StepsPerEpoch
           p == k * BatchSize
           P(b) == SampleAt(e, p + b)
<1>1. StepsPerEpoch \in Nat \ {0} /\ BatchSize \in Nat \ {0} /\ SamplesPerEpoch = StepsPerEpoch * BatchSize
      /\ SamplesPerEpoch <= NumSamples /\ NumSamples \in Nat
  BY EpochSteps, DataLoaderAssumption, SamplerAssumption
<1>2. k \in 0 .. StepsPerEpoch - 1 /\ e \in Nat
  <2> DEFINE S == StepsPerEpoch
  <2>1. S \in Nat \ {0} BY <1>1
  <2> HIDE DEF S
  <2>2. n % S \in 0 .. S - 1 /\ n \div S \in Nat BY <2>1, SMTT(30)
  <2> QED BY <2>2 DEF S
<1> HIDE DEF k, e
<1>3. k * BatchSize + BatchSize <= SamplesPerEpoch BY <1>1, <1>2, Multiple
<1>4. p \in Nat BY <1>1, <1>2, Product
<1>5. p \in 0 .. SamplesPerEpoch - BatchSize BY <1>1, <1>3, <1>4
<1> DEFINE T == BatchOf(n).samples
           f == [b \in 0 .. BatchSize - 1 |-> P(b)]
<1> HIDE DEF p
<1>6. \A b \in 0 .. BatchSize - 1 : p + b \in 0 .. NumSamples - 1 BY <1>1, <1>5
<1>7. T = {P(b) : b \in 0 .. BatchSize - 1} BY DEF BatchOf, Picked, p, e, k
<1>8. T \subseteq 0 .. NumSamples - 1 BY <1>2, <1>6, <1>7 DEF SamplerSound
<1>9. \A a, b \in 0 .. BatchSize - 1 : P(a) = P(b) => a = b
  <2> SUFFICES ASSUME NEW a \in 0 .. BatchSize - 1, NEW b \in 0 .. BatchSize - 1, P(a) = P(b) PROVE a = b OBVIOUS
  <2>1. p + a = p + b BY <1>2, <1>6 DEF SamplerSound
  <2> QED BY <1>1, <1>4, <2>1
<1> HIDE DEF P, T
<1>10. f \in Bijection(0 .. BatchSize - 1, T)
  BY <1>7, <1>9 DEF Bijection, Injection, Surjection, IsInjective
<1> HIDE DEF f
<1>11. Cardinality(T) = BatchSize
  <2>1. IsFiniteSet(0 .. BatchSize - 1) /\ Cardinality(0 .. BatchSize - 1) = BatchSize
    <3>1. Cardinality(0 .. BatchSize - 1) = (IF 0 > BatchSize - 1 THEN 0 ELSE (BatchSize - 1) - 0 + 1)
          /\ IsFiniteSet(0 .. BatchSize - 1)
      BY <1>1, FS_Interval
    <3> QED BY <1>1, <3>1
  <2>2. Cardinality(T) = Cardinality(0 .. BatchSize - 1) BY <1>10, <2>1, FS_Bijection DEF ExistsBijection
  <2> QED BY <2>1, <2>2
<1> QED BY <1>2, <1>5, <1>8, <1>11 DEF p, k, e, T

\* Two batches of an epoch have no sample in common.
LEMMA BatchesApart ==
  ASSUME SamplerSound, NEW m \in Nat, NEW n \in Nat, m # n,
         m \div StepsPerEpoch = n \div StepsPerEpoch
  PROVE  BatchOf(m).samples \cap BatchOf(n).samples = {}
<1> DEFINE S == StepsPerEpoch
           B == BatchSize
           e == m \div S
           j == m % S
           k == n % S
<1>1. S \in Nat \ {0} /\ B \in Nat \ {0} /\ SamplesPerEpoch <= NumSamples /\ NumSamples \in Nat /\ SamplesPerEpoch = S * B
  BY EpochSteps, DataLoaderAssumption, SamplerAssumption
<1>2. j \in 0 .. S - 1 /\ k \in 0 .. S - 1 /\ e \in Nat
      /\ j * B \in 0 .. SamplesPerEpoch - B /\ k * B \in 0 .. SamplesPerEpoch - B
  BY BatchSamples
<1>3. j # k
  <2>1. e = n \div S OBVIOUS
  <2> HIDE DEF S
  <2>2. m = e * S + j BY <1>1, SMTT(30)
  <2>3. n = (n \div S) * S + k BY <1>1, SMTT(30)
  <2> HIDE DEF e, j, k
  <2> QED BY <2>1, <2>2, <2>3
<1>4. BatchOf(m).samples = {SampleAt(e, j * B + b) : b \in 0 .. B - 1}
      /\ BatchOf(n).samples = {SampleAt(e, k * B + b) : b \in 0 .. B - 1}
  BY DEF BatchOf, Picked
<1> HIDE DEF S, B, e, j, k
<1>5. ASSUME NEW a \in 0 .. B - 1, NEW b \in 0 .. B - 1, SampleAt(e, j * B + a) = SampleAt(e, k * B + b) PROVE FALSE
  <2> DEFINE x == j * B
             y == k * B
  <2>1. x \in 0 .. SamplesPerEpoch - B /\ y \in 0 .. SamplesPerEpoch - B BY <1>2
  <2>2. (j < k => x + B <= y) /\ (k < j => y + B <= x) BY <1>1, <1>2, Multiple
  <2> HIDE DEF x, y
  <2>3. x + a \in 0 .. NumSamples - 1 /\ y + b \in 0 .. NumSamples - 1 BY <1>1, <2>1, SMTT(30)
  <2>4. SampleAt(e, x + a) = SampleAt(e, y + b) BY <1>5 DEF x, y
  <2>5. x + a = y + b BY <1>2, <2>3, <2>4 DEF SamplerSound
  <2> QED BY <1>1, <1>2, <1>3, <2>1, <2>2, <2>5
<1> QED BY <1>4, <1>5

\* gd_batch's ids hold a batch of the dataset, whatever its state.
IdsTyped == ids \in [Slot -> [epoch : Nat, first : 0 .. SamplesPerEpoch - BatchSize, samples : SUBSET Nat]]

\* Requests and batches that are not free never outnumber the batches.
Counted == Queued <= NSlots

LEMMA BatchTyped ==
  ASSUME SamplerSound, NEW n \in Nat
  PROVE  BatchOf(n) \in [epoch : Nat, first : 0 .. SamplesPerEpoch - BatchSize, samples : SUBSET Nat]
<1>1. /\ n \div StepsPerEpoch \in Nat
      /\ (n % StepsPerEpoch) * BatchSize \in 0 .. SamplesPerEpoch - BatchSize
      /\ BatchOf(n).samples \subseteq 0 .. NumSamples - 1
  BY BatchSamples
<1> DEFINE T == BatchOf(n).samples
           Q == n \div StepsPerEpoch
           F == (n % StepsPerEpoch) * BatchSize
<1>2. BatchOf(n) = [epoch |-> Q, first |-> F, samples |-> T] BY DEF BatchOf, Picked
<1>3. T \in SUBSET Nat BY <1>1, SamplerAssumption
<1> HIDE DEF T, Q, F
<1>4. Q \in Nat /\ F \in 0 .. SamplesPerEpoch - BatchSize BY <1>1 DEF Q, F
<1> QED BY <1>2, <1>3, <1>4

LEMMA IdsTypedKeeps ==
  ASSUME SamplerSound, Inv, IdsTyped, [Next]_vars
  PROVE  IdsTyped'
<1> USE DEF batchVars
<1>1. ASSUME NEW w \in Workers, Take(w) PROVE IdsTyped'
  <2>1. PICK s \in Slot : ids' = [ids EXCEPT ![s] = BatchOf(nextSeq)] BY <1>1, Taken DEF Inv
  <2>2. nextSeq \in Nat BY DEF Inv, Typed
  <2> QED BY <2>1, <2>2, BatchTyped DEF IdsTyped, Picked
<1>2. ASSUME \A w \in Workers : ~ Take(w) PROVE ids' = ids
  <2>1. ASSUME NEW w \in Workers, Worker(w) PROVE ids' = ids
    BY <1>2, <2>1 DEF Worker, Park, Exit, Fill, Collate, Acquire, Reclaim, ReclaimFails, Publish, CopyFails,
                      FillDone, FillFailed
  <2>2. ASSUME Consumer PROVE ids' = ids
    BY <2>2 DEF Consumer, Prefetch, CallNext, TryNext, Deliver, NextFails, NextWaits, StepBegun,
                BeginStep, AbortBegin, EndStep, Release, Destroy, Destroying, Joined, DestroySlot, Destroyed
  <2> QED BY <2>1, <2>2 DEF Next, DeviceFinish, vars
<1> QED BY <1>1, <1>2 DEF IdsTyped

LEMMA Queuing ==
  ASSUME Inv
  PROVE  LET held == Slot \ InState("FREE") IN
         IsFiniteSet(held) /\ Cardinality(held) \in Nat /\ Queued = requested + Cardinality(held)
<1>1. IsFiniteSet(Slot)
  <2>1. NSlots - 1 \in Int BY Sizes
  <2> QED BY <2>1, FS_Interval DEF Slot
<1>2. IsFiniteSet(Slot \ InState("FREE")) BY <1>1, FS_Subset
<1> QED BY <1>2, FS_CardinalityType DEF Queued

LEMMA CountedKeeps ==
  ASSUME Inv, Counted, [Next]_vars
  PROVE  Counted'
<1> DEFINE held == Slot \ InState("FREE")
<1> USE DEF batchVars, queueVars, workerVars
<1>0. /\ state \in [Slot -> BatchState] /\ requested \in Nat /\ wslot \in [Workers -> Slot]
      /\ IsFiniteSet(held) /\ Cardinality(held) \in Nat /\ Queued = requested + Cardinality(held)
      /\ Queued' = requested' + Cardinality(held') /\ NSlots \in Nat
  BY Queuing, Sizes DEF Inv, Typed, Queued, InState
<1>a. \A s : (s \in held <=> s \in Slot /\ state[s] # "FREE") /\ (s \in held' <=> s \in Slot /\ state'[s] # "FREE")
  BY DEF InState
<1> HIDE DEF held
<1>1. ASSUME NEW w \in Workers, Take(w) PROVE Counted'
  <2>1. requested' = requested - 1 BY <1>1 DEF Take
  <2>2. PICK s \in Slot : state[s] = "FREE" /\ state' = [state EXCEPT ![s] = "FILLING"] BY <1>1 DEF Take, FirstFree
  <2>3. held' = held \cup {s} /\ s \notin held BY <1>0, <1>a, <2>2
  <2>4. Cardinality(held') = Cardinality(held) + 1 BY <1>0, <2>3, FS_AddElement
  <2> QED BY <1>0, <2>1, <2>4 DEF Counted
<1>2. ASSUME requested' = requested, \A s \in Slot : state'[s] # "FREE" => state[s] # "FREE" PROVE Counted'
  <2>1. held' \subseteq held BY <1>a, <1>2
  <2>2. Cardinality(held') <= Cardinality(held) /\ Cardinality(held') \in Nat
    BY <1>0, <2>1, FS_Subset, FS_CardinalityType
  <2> QED BY <1>0, <1>2, <2>2 DEF Counted
<1>3. ASSUME Request, state' = state PROVE Counted'
  <2>1. held' = held BY <1>a, <1>3
  <2>2. requested' = requested + 1 /\ Queued < NSlots BY <1>3 DEF Request
  <2> QED BY <1>0, <2>1, <2>2 DEF Counted
<1>4. ASSUME NEW w \in Workers, Worker(w), ~ Take(w) PROVE Counted'
  <2>1. ASSUME Park(w) \/ Exit(w) \/ Fill(w) PROVE UNCHANGED <<requested, state>>
    BY <2>1 DEF Park, Exit, Fill, Collate, Acquire, Reclaim, ReclaimFails, Publish, CopyFails
  <2>2. ASSUME FillDone(w) \/ FillFailed(w)
        PROVE  requested' = requested /\ \A s \in Slot : state'[s] # "FREE" => state[s] # "FREE"
    BY <1>0, <2>2 DEF FillDone, FillFailed, Inv, Binding, Staffed, Busy
  <2> QED BY <1>2, <1>4, <2>1, <2>2 DEF Worker
<1>5. ASSUME Prefetch \/ CallNext \/ NextFails \/ NextWaits \/ StepBegun \/ Destroy \/ Joined \/ Destroyed PROVE Counted'
  <2>1. state' = state BY <1>5 DEF Prefetch, CallNext, NextFails, NextWaits, StepBegun, Destroy, Joined, Destroyed
  <2>2. Request \/ requested' = requested
    BY <1>5 DEF Prefetch, CallNext, NextFails, NextWaits, StepBegun, Destroy, Joined, Destroyed
  <2> QED BY <1>2, <1>3, <2>1, <2>2
<1>6. ASSUME Deliver PROVE Counted'
  <2>1. requested' = requested /\ \E s \in Slot : state[s] = "READY" /\ state' = [state EXCEPT ![s] = "IN_USE"]
    BY <1>6 DEF Deliver, Due
  <2> QED BY <1>0, <1>2, <2>1
<1>7. ASSUME NEW s \in Slot, BeginStep(s) \/ AbortBegin(s) \/ EndStep(s) \/ Release(s) \/ DestroySlot(s) PROVE Counted'
  <2>1. requested' = requested BY <1>7 DEF BeginStep, AbortBegin, EndStep, Release, DestroySlot
  <2>2. \A r \in Slot : state'[r] # "FREE" => state[r] # "FREE"
    BY <1>0, <1>7 DEF BeginStep, AbortBegin, EndStep, Release, DestroySlot
  <2> QED BY <1>2, <2>1, <2>2
<1>8. ASSUME DeviceFinish \/ UNCHANGED vars PROVE Counted'
  <2>1. UNCHANGED <<requested, state>> BY <1>8 DEF DeviceFinish, vars
  <2> QED BY <1>2, <2>1
<1>9. CASE Consumer BY <1>5, <1>6, <1>7, <1>9 DEF Consumer, TryNext, Destroying
<1> QED BY <1>1, <1>4, <1>8, <1>9 DEF Next

\* The position in the epoch never passes its end.
LEMMA PositionBound == Inv => inEpoch \in 0 .. SamplesPerEpoch
<1> SUFFICES ASSUME Inv PROVE inEpoch \in 0 .. SamplesPerEpoch OBVIOUS
<1>1. StepsPerEpoch \in Nat /\ BatchSize \in Nat /\ SamplesPerEpoch = StepsPerEpoch * BatchSize
  BY EpochSteps, DataLoaderAssumption
<1>2. PICK k \in 0 .. StepsPerEpoch : inEpoch = k * BatchSize BY DEF Inv, Position
<1>3. k * BatchSize \in Nat /\ StepsPerEpoch * BatchSize \in Nat BY <1>1, Product
<1>4. k < StepsPerEpoch => k * BatchSize + BatchSize <= StepsPerEpoch * BatchSize BY <1>1, Multiple
<1> QED BY <1>1, <1>2, <1>3, <1>4

\* Every variable stays in its range, and no more batches are asked for than
\* gd_dataloader has slots: whoever asks is promised one.
THEOREM TypeCorrect ==
  ASSUME HashNatural
  PROVE  Spec => []TypeOK
<1>0. SamplerSound BY SamplerIsSound
<1>1. Init => IdsTyped /\ Counted
  <2> SUFFICES ASSUME Init PROVE IdsTyped /\ Counted OBVIOUS
  <2>1. 0 \in 0 .. SamplesPerEpoch - BatchSize
    <3>1. 0 % StepsPerEpoch = 0 BY EpochSteps
    <3>2. (0 % StepsPerEpoch) * BatchSize \in 0 .. SamplesPerEpoch - BatchSize BY <1>0, BatchSamples
    <3>3. (0 % StepsPerEpoch) * BatchSize = 0 BY <3>1, DataLoaderAssumption
    <3> QED BY <3>2, <3>3
  <2>2. IdsTyped BY <2>1 DEF Init, IdsTyped
  <2>3. Slot \ InState("FREE") = {} BY DEF Init, InState
  <2>4. Queued = 0
    <3>1. requested = 0 BY DEF Init
    <3>2. Cardinality(Slot \ InState("FREE")) = 0 BY <2>3, FS_EmptySet
    <3> QED BY <3>1, <3>2 DEF Queued
  <2> QED BY <2>2, <2>4, Sizes DEF Counted
<1>2. Inv /\ IdsTyped /\ Counted /\ [Next]_vars => (IdsTyped /\ Counted)'
  BY <1>0, IdsTypedKeeps, CountedKeeps
<1>3. Inv /\ IdsTyped /\ Counted => TypeOK
  <2> SUFFICES ASSUME Inv, IdsTyped, Counted PROVE TypeOK OBVIOUS
  <2>1. Queued \in requested .. NSlots /\ requested \in Nat
    BY Queuing, Sizes DEF Counted, Inv, Typed
  <2>2. deliverSeq \in 0 .. nextSeq BY DEF Inv, Typed, Complete
  <2>3. inEpoch \in 0 .. SamplesPerEpoch BY PositionBound
  <2> QED BY <2>1, <2>2, <2>3 DEF TypeOK, IdsTyped, Inv, Typed
<1>4. Spec => [](IdsTyped /\ Counted)
  BY <1>1, <1>2, Invariance, PTL DEF Spec
<1> QED BY <1>3, <1>4, Invariance, PTL

\* No sample comes twice in an epoch, in whichever order the samples are taken:
\* gd_dataloader_sample_at_locked permutes the dataset.
THEOREM NoSampleTwice ==
  ASSUME HashNatural
  PROVE  Spec => []EpochOnce
<1>0. SamplerSound BY SamplerIsSound
<1>1. Inv => EpochOnce
  <2> DEFINE there == Slot \ InState("FREE")
  <2> SUFFICES ASSUME Inv
               PROVE  /\ \A s \in there : ids[s].samples \subseteq 0 .. NumSamples - 1 /\ Cardinality(ids[s].samples) = BatchSize
                      /\ \A r, s \in there : r # s /\ ids[r].epoch = ids[s].epoch => ids[r].samples \cap ids[s].samples = {}
    BY DEF EpochOnce
  <2>1. \A s \in there : seq[s] \in Nat /\ ids[s] = BatchOf(seq[s]) BY DEF Inv, Typed, Numbered, InState
  <2>2. \A r, s \in there : r # s => seq[r] # seq[s] BY DEF Inv, Numbered, InState
  <2> HIDE DEF there
  <2>3. ASSUME NEW s \in there
        PROVE  ids[s].samples \subseteq 0 .. NumSamples - 1 /\ Cardinality(ids[s].samples) = BatchSize
    BY <1>0, <2>1, BatchSamples
  <2>4. ASSUME NEW r \in there, NEW s \in there, r # s, ids[r].epoch = ids[s].epoch
        PROVE  ids[r].samples \cap ids[s].samples = {}
    <3>1. seq[r] \div StepsPerEpoch = seq[s] \div StepsPerEpoch BY <2>1, <2>4, BatchFields
    <3> QED BY <1>0, <2>1, <2>2, <2>4, <3>1, BatchesApart
  <2> QED BY <2>3, <2>4
<1> QED BY <1>1, Invariance, PTL

----------------------------------------------------------------------------
(* The trainer.  CallsClean speaks of the moments between two calls only,  *)
(* and of the ring that both loaders and the thread take slots of.  The    *)
(* inductive invariant says where every slot is in between: Loaders (a     *)
(* batch being filled has one worker, which knows whether it holds a       *)
(* slot), Control and OneHanded (the thread holds one batch, and which     *)
(* state it is in follows from where the thread is), OneNumber (the batch  *)
(* delivered is the only one with its number), EvalOnly, Shared, OneStep.  *)
(*                                                                         *)
(* A step changes one of the loaders.  What it may do to the batches and   *)
(* to the ring is said once (Handed, SameStep), proved for each kind of    *)
(* step and each loader, and cited where the invariant is put together.    *)

\* What a slot of the ring is used for.
Uses == {"free", "host", "full", "step", "device", "done"}

\* A batch that has a slot of the ring for the host.
Owner(slots, st, d, b) == \E s \in slots : st[s] \in {"FILLING", "READY", "IN_USE"} /\ d[s] = b

\* Where a worker has a batch to fill.
HasBatch(there) == there \in {"collate", "acquire", "copy", "filled", "failed"}

\* A loader by itself: a batch that is being filled has one worker, which knows
\* whether it has a slot of the ring.
LoaderOK(slots, workers, st, d, at, of) ==
  /\ st \in [slots -> BatchState] /\ d \in [slots -> Buffers \cup {NoBuffer}]
  /\ at \in [workers -> WorkerPC] /\ DOMAIN of = workers
  /\ \A w \in workers : HasBatch(at[w]) => of[w] \in slots /\ st[of[w]] = "FILLING"
  /\ \A v, w \in workers : v # w /\ HasBatch(at[v]) /\ HasBatch(at[w]) => of[v] # of[w]
  /\ \A w \in workers :
       /\ at[w] \in {"collate", "acquire", "failed"} => d[of[w]] = NoBuffer
       /\ at[w] \in {"copy", "filled"} => d[of[w]] # NoBuffer
  /\ \A s \in slots :
       /\ st[s] = "FREE" => d[s] = NoBuffer
       /\ st[s] \in {"READY", "IN_USE", "IN_STEP"} => d[s] # NoBuffer

\* A step that leaves the ring's slots for the host with the batches of this
\* loader, or where they were.
Handed(slots, st, stN, d, dN, u, uN) ==
  /\ uN \in [Buffers -> Uses]
  /\ \A b \in Buffers : uN[b] \in {"host", "full"} =>
       Owner(slots, stN, dN, b) \/ (u[b] \in {"host", "full"} /\ ~ Owner(slots, st, d, b))

\* The slots in steps stay.
SameStep(u, uN) == \A b \in Buffers : uN[b] = "step" <=> u[b] = "step"

\* What a worker does to the batches.
Background(slots, st, stN) ==
  \A s \in slots : stN[s] = st[s] \/ (st[s] \in {"FREE", "FILLING"} /\ stN[s] \in {"FREE", "FILLING", "READY"})

\* Whatever a worker of the training loader does, its batches stay in order and
\* the ring loses no slot.
LEMMA WorkerKeeps ==
  ASSUME use \in [Buffers -> Uses], LoaderOK(Slot, Workers, state, data, wpc, wslot),
         NEW w \in Workers, Worker(w)
  PROVE  /\ LoaderOK(Slot, Workers, state', data', wpc', wslot')
         /\ Handed(Slot, state, state', data, data', use, use')
         /\ SameStep(use, use') /\ Background(Slot, state, state')
<1> USE DataLoaderAssumption
<1> USE DEF LoaderOK, HasBatch, WorkerGoto, batchVars, queueVars, workerVars, BatchState, WorkerPC,
            Handed, SameStep, Background, Owner, Uses
<1>1. CASE Take(w)
  <2>1. PICK s \in Slot : /\ state[s] = "FREE" /\ state' = [state EXCEPT ![s] = "FILLING"]
                         /\ wslot' = [wslot EXCEPT ![w] = s]
    BY <1>1 DEF Take, FirstFree
  <2>2. wpc[w] = "check" /\ wpc' = [wpc EXCEPT ![w] = "collate"] /\ UNCHANGED <<use, data>>
    BY <1>1 DEF Take
  <2>3. data[s] = NoBuffer BY <2>1
  <2> QED BY <2>1, <2>2, <2>3
<1>2. CASE Park(w) \/ Exit(w) BY <1>2 DEF Park, Exit
<1>3. CASE Collate(w) BY <1>3 DEF Collate, ClearBinding
<1>4. CASE Acquire(w) BY <1>4 DEF Acquire, Ring!Lease, Ring!Move
<1>5. CASE Reclaim(w) BY <1>5 DEF Reclaim, Ring!Reclaim, Ring!Move
<1>6. CASE ReclaimFails(w) BY <1>6 DEF ReclaimFails
<1>7. CASE Publish(w) BY <1>7 DEF Publish, Ring!Publish, Ring!Move
<1>8. CASE CopyFails(w) BY <1>8 DEF CopyFails, ClearBinding, Ring!Cancel, Ring!Move
<1>9. CASE FillDone(w) BY <1>9 DEF FillDone
<1>10. CASE FillFailed(w) BY <1>10 DEF FillFailed, ClearBinding
<1> QED BY <1>1, <1>2, <1>3, <1>4, <1>5, <1>6, <1>7, <1>8, <1>9, <1>10 DEF Worker, Fill

\* The same of a worker of an evaluation.
LEMMA EvalWorkerKeeps ==
  ASSUME use \in [Buffers -> Uses], LoaderOK(E!Slot, EvalWorkers, eState, eData, eWpc, eWslot),
         NEW w \in EvalWorkers, E!Worker(w)
  PROVE  /\ LoaderOK(E!Slot, EvalWorkers, eState', eData', eWpc', eWslot')
         /\ Handed(E!Slot, eState, eState', eData, eData', use, use')
         /\ SameStep(use, use') /\ Background(E!Slot, eState, eState')
<1> USE DataLoaderAssumption, TrainerAssumption
<1> USE DEF LoaderOK, HasBatch, E!WorkerGoto, E!batchVars, E!queueVars, E!workerVars, BatchState, WorkerPC,
            Handed, SameStep, Background, Owner, Uses
<1>1. CASE E!Take(w)
  <2>1. PICK s \in E!Slot : /\ eState[s] = "FREE" /\ eState' = [eState EXCEPT ![s] = "FILLING"]
                         /\ eWslot' = [eWslot EXCEPT ![w] = s]
    BY <1>1 DEF E!Take, E!FirstFree
  <2>2. eWpc[w] = "check" /\ eWpc' = [eWpc EXCEPT ![w] = "collate"] /\ UNCHANGED <<use, eData>>
    BY <1>1 DEF E!Take
  <2>3. eData[s] = NoBuffer BY <2>1
  <2> QED BY <2>1, <2>2, <2>3
<1>2. CASE E!Park(w) \/ E!Exit(w) BY <1>2 DEF E!Park, E!Exit
<1>3. CASE E!Collate(w) BY <1>3 DEF E!Collate, E!ClearBinding
<1>4. CASE E!Acquire(w) BY <1>4 DEF E!Acquire, E!Ring!Lease, E!Ring!Move
<1>5. CASE E!Reclaim(w) BY <1>5 DEF E!Reclaim, E!Ring!Reclaim, E!Ring!Move
<1>6. CASE E!ReclaimFails(w) BY <1>6 DEF E!ReclaimFails
<1>7. CASE E!Publish(w) BY <1>7 DEF E!Publish, E!Ring!Publish, E!Ring!Move
<1>8. CASE E!CopyFails(w) BY <1>8 DEF E!CopyFails, E!ClearBinding, E!Ring!Cancel, E!Ring!Move
<1>9. CASE E!FillDone(w) BY <1>9 DEF E!FillDone
<1>10. CASE E!FillFailed(w) BY <1>10 DEF E!FillFailed, E!ClearBinding
<1> QED BY <1>1, <1>2, <1>3, <1>4, <1>5, <1>6, <1>7, <1>8, <1>9, <1>10 DEF E!Worker, E!Fill

----------------------------------------------------------------------------
(* The thread, the two loaders and the ring they share.                    *)

\* The calls, and where the thread has a batch in hand.
Calls == {"none", "train", "eval"}
InHand == {"begin", "begun", "run", "end", "drop", "release", "cleanup"}

\* Where the thread is says which call runs and whose step is open.
Control ==
  /\ pc \in TrainerPC /\ call \in Calls /\ open \in Calls /\ refused \in BOOLEAN
  /\ pc = "idle" <=> call = "none"
  /\ pc \in InHand => /\ call = "train" => batch \in Slot
                      /\ call = "eval" => batch \in E!Slot
  /\ pc = "destroy" => call = "eval"
  /\ pc = "begun" => open = "none"
  /\ pc \in {"run", "end", "drop"} => open = call
  /\ open # "none" => refused \/ pc \in {"run", "end", "drop"}

\* The training loader has handed out one batch at most: the one in hand, or one
\* whose step could not be ended.
OneHanded ==
  /\ \A s \in Slot :
       /\ state[s] = "IN_USE" => call = "train" /\ s = batch /\ pc \in {"begin", "cleanup"}
       /\ state[s] = "RETIRED" => call = "train" /\ s = batch /\ pc \in {"release", "cleanup"}
       /\ state[s] = "IN_STEP" => open = "train" \/ (call = "train" /\ s = batch /\ pc = "begun")
  /\ \A r, s \in Slot : state[r] = "IN_STEP" /\ state[s] = "IN_STEP" => r = s
  /\ open = "train" => \E s \in Slot : state[s] = "IN_STEP"
  /\ pc = "begun" /\ call = "train" => state[batch] = "IN_STEP"

\* Batches on their way have numbers of their own.
OneNumber ==
  /\ nextSeq \in Nat /\ DOMAIN seq = Slot
  /\ \A s \in Slot : state[s] \in {"FILLING", "READY"} => seq[s] \in Nat /\ seq[s] < nextSeq
  /\ \A r, s \in Slot : r # s /\ {state[r], state[s]} \subseteq {"FILLING", "READY"} => seq[r] # seq[s]

\* The loader of an evaluation is there during the evaluation, and is destroyed
\* when its workers are gone.
EvalOnly ==
  /\ call # "eval" => \A s \in E!Slot : eState[s] = "FREE"
  /\ call # "eval" \/ eCpc = "destroying" => \A w \in EvalWorkers : eWpc[w] = "exited"

\* The slots of the ring that the host has are batches' of one loader or the other.
Shared ==
  /\ use \in [Buffers -> Uses]
  /\ \A b \in Buffers : use[b] \in {"host", "full"} =>
       Owner(Slot, state, data, b) \/ Owner(E!Slot, eState, eData, b)

\* One slot of the ring is in a step while a step is open.
OneStep ==
  IF open # "none" \/ pc = "begun"
  THEN \E b \in Buffers : \A c \in Buffers : use[c] = "step" <=> c = b
  ELSE \A c \in Buffers : use[c] # "step"

\* Both loaders are in order.
Loaders ==
  /\ LoaderOK(Slot, Workers, state, data, wpc, wslot)
  /\ LoaderOK(E!Slot, EvalWorkers, eState, eData, eWpc, eWslot)

\* The inductive invariant.
TrainerInv == Loaders /\ Control /\ OneHanded /\ OneNumber /\ EvalOnly /\ Shared /\ OneStep

----------------------------------------------------------------------------
(* What the thread does to a loader.                                       *)

\* Some of the workers that slept are awake.
OnlyWoken(workers, at, atN) ==
  /\ atN \in [workers -> WorkerPC]
  /\ \A w \in workers : atN[w] = at[w] \/ (at[w] = "parked" /\ atN[w] = "check")

\* A signal or a broadcast only wakes sleepers ...
LEMMA Wakes ==
  ASSUME LoaderOK(Slot, Workers, state, data, wpc, wslot), Signal \/ wpc' = wpc
  PROVE  OnlyWoken(Workers, wpc, wpc')
BY DataLoaderAssumption DEF LoaderOK, Signal, Parked, WorkerPC, OnlyWoken

\* ... in either loader ...
LEMMA EvalWakes ==
  ASSUME LoaderOK(E!Slot, EvalWorkers, eState, eData, eWpc, eWslot),
         E!Signal \/ E!Broadcast \/ eWpc' = eWpc
  PROVE  OnlyWoken(EvalWorkers, eWpc, eWpc')
BY DataLoaderAssumption, TrainerAssumption
DEF LoaderOK, E!Signal, E!Broadcast, E!Parked, WorkerPC, OnlyWoken

\* ... and who wakes up fills no batch.
LEMMA WokenOK ==
  ASSUME NEW slots, NEW workers, NEW st, NEW d, NEW at, NEW atN, NEW of,
         LoaderOK(slots, workers, st, d, at, of), OnlyWoken(workers, at, atN)
  PROVE  LoaderOK(slots, workers, st, d, atN, of)
<1>1. \A w \in workers : HasBatch(atN[w]) => atN[w] = at[w] BY DEF OnlyWoken, HasBatch
<1>2. \A w \in workers : atN[w] \in {"collate", "acquire", "copy", "filled", "failed"} => HasBatch(atN[w])
  BY DEF HasBatch
<1> QED BY <1>1, <1>2 DEF LoaderOK, OnlyWoken

\* A batch with a slot of the ring goes from one hand to the next.
LEMMA HandedOK ==
  ASSUME NEW slots, NEW workers, NEW st, NEW d, NEW at, NEW of, NEW s \in slots,
         LoaderOK(slots, workers, st, d, at, of), st[s] \in {"READY", "IN_USE", "IN_STEP"},
         NEW x \in {"IN_USE", "IN_STEP", "RETIRED"}
  PROVE  LoaderOK(slots, workers, [st EXCEPT ![s] = x], d, at, of)
BY DEF LoaderOK, BatchState, HasBatch

\* A batch nobody fills is free again.
LEMMA FreedOK ==
  ASSUME NEW slots, NEW workers, NEW st, NEW d, NEW at, NEW of, NEW s \in slots,
         LoaderOK(slots, workers, st, d, at, of),
         st[s] # "FILLING" \/ \A w \in workers : at[w] = "exited"
  PROVE  LoaderOK(slots, workers, [st EXCEPT ![s] = "FREE"], [d EXCEPT ![s] = NoBuffer], at, of)
BY DEF LoaderOK, BatchState, HasBatch

\* gd_batch_clear_data_binding: a batch that is freed gives its slot back, if
\* the slot is still its own.
LEMMA ClearingHands ==
  ASSUME LoaderOK(Slot, Workers, state, data, wpc, wslot), use \in [Buffers -> Uses],
         NEW s \in Slot, ClearBinding(s), state' = [state EXCEPT ![s] = "FREE"]
  PROVE  /\ Handed(Slot, state, state', data, data', use, use') /\ SameStep(use, use')
         /\ data' = [data EXCEPT ![s] = NoBuffer]
<1>1. data' = [data EXCEPT ![s] = NoBuffer] BY DEF ClearBinding
<1>2. CASE state[s] \in {"FILLING", "READY", "IN_USE"} /\ data[s] # NoBuffer
  <2>1. data[s] \in Buffers /\ use[data[s]] \in {"host", "full"} /\ use' = [use EXCEPT ![data[s]] = "free"]
    BY <1>2 DEF ClearBinding, Ring!Cancel, Ring!Move, LoaderOK
  <2> QED BY <1>1, <2>1 DEF Handed, SameStep, Owner, Uses, LoaderOK
<1>3. CASE ~ (state[s] \in {"FILLING", "READY", "IN_USE"} /\ data[s] # NoBuffer)
  <2>1. use' = use BY <1>3 DEF ClearBinding
  <2> QED BY <1>1, <1>3, <2>1, DataLoaderAssumption DEF Handed, SameStep, Owner, Uses, LoaderOK
<1> QED BY <1>2, <1>3

\* The same in the loader of an evaluation.
LEMMA EvalClearingHands ==
  ASSUME LoaderOK(E!Slot, EvalWorkers, eState, eData, eWpc, eWslot), use \in [Buffers -> Uses],
         NEW s \in E!Slot, E!ClearBinding(s), eState' = [eState EXCEPT ![s] = "FREE"]
  PROVE  /\ Handed(E!Slot, eState, eState', eData, eData', use, use') /\ SameStep(use, use')
         /\ eData' = [eData EXCEPT ![s] = NoBuffer]
<1>1. eData' = [eData EXCEPT ![s] = NoBuffer] BY DEF E!ClearBinding
<1>2. CASE eState[s] \in {"FILLING", "READY", "IN_USE"} /\ eData[s] # NoBuffer
  <2>1. eData[s] \in Buffers /\ use[eData[s]] \in {"host", "full"} /\ use' = [use EXCEPT ![eData[s]] = "free"]
    BY <1>2 DEF E!ClearBinding, E!Ring!Cancel, E!Ring!Move, LoaderOK
  <2> QED BY <1>1, <2>1 DEF Handed, SameStep, Owner, Uses, LoaderOK
<1>3. CASE ~ (eState[s] \in {"FILLING", "READY", "IN_USE"} /\ eData[s] # NoBuffer)
  <2>1. use' = use BY <1>3 DEF E!ClearBinding
  <2> QED BY <1>1, <1>3, <2>1, DataLoaderAssumption DEF Handed, SameStep, Owner, Uses, LoaderOK
<1> QED BY <1>2, <1>3

\* What keeps the ring with the batches.
LEMMA TrainShares ==
  ASSUME Shared, Handed(Slot, state, state', data, data', use, use'), UNCHANGED <<eState, eData>>
  PROVE  Shared'
BY DEF Shared, Handed, Owner

\* The same, the other loader at rest.
LEMMA EvalShares ==
  ASSUME Shared, Handed(E!Slot, eState, eState', eData, eData', use, use'), UNCHANGED <<state, data>>
  PROVE  Shared'
BY DEF Shared, Handed, Owner

\* The step stays open, or closed, with the slot it has.
LEMMA StillOneStep ==
  ASSUME OneStep, SameStep(use, use'),
         (open # "none" \/ pc = "begun") <=> (open' # "none" \/ pc' = "begun")
  PROVE  OneStep'
BY DEF OneStep, SameStep

\* Nothing new has a number.
LEMMA StillNumbered ==
  ASSUME OneNumber, nextSeq' = nextSeq, DOMAIN seq' = Slot,
         \A s \in Slot : state'[s] \in {"FILLING", "READY"} =>
           state[s] \in {"FILLING", "READY"} /\ seq'[s] = seq[s]
  PROVE  OneNumber'
BY DEF OneNumber

----------------------------------------------------------------------------
(* The other threads and the device.                                       *)

\* A worker gives a batch the next number (gd_dataloader_assign_batch_locked).
LEMMA WorkerNumbers ==
  ASSUME LoaderOK(Slot, Workers, state, data, wpc, wslot), OneNumber, NEW w \in Workers, Worker(w)
  PROVE  OneNumber'
<1>1. CASE Take(w)
  <2>1. PICK s \in Slot : /\ state[s] = "FREE" /\ state' = [state EXCEPT ![s] = "FILLING"]
                         /\ seq' = [seq EXCEPT ![s] = nextSeq] /\ nextSeq' = nextSeq + 1
    BY <1>1 DEF Take, FirstFree
  <2>2. state \in [Slot -> BatchState] BY DEF LoaderOK
  <2>3. nextSeq' \in Nat /\ DOMAIN seq' = Slot BY <2>1 DEF OneNumber
  <2>4. ASSUME NEW r \in Slot, state'[r] \in {"FILLING", "READY"}
        PROVE  /\ seq'[r] \in Nat /\ seq'[r] < nextSeq'
               /\ r = s => seq'[r] = nextSeq
               /\ r # s => /\ state[r] \in {"FILLING", "READY"} /\ seq'[r] = seq[r]
                           /\ seq[r] \in Nat /\ seq[r] < nextSeq
    BY <2>1, <2>2, <2>4 DEF OneNumber
  <2>5. ASSUME NEW q \in Slot, NEW r \in Slot, q # r, {state'[q], state'[r]} \subseteq {"FILLING", "READY"}
        PROVE  seq'[q] # seq'[r]
    <3>1. nextSeq \in Nat BY DEF OneNumber
    <3>2. CASE q = s BY <2>4, <2>5, <3>1, <3>2
    <3>3. CASE r = s BY <2>4, <2>5, <3>1, <3>3
    <3>4. CASE q # s /\ r # s BY <2>4, <2>5, <3>4 DEF OneNumber
    <3> QED BY <3>2, <3>3, <3>4
  <2> QED BY <2>3, <2>4, <2>5 DEF OneNumber
<1>2. CASE Park(w) \/ Exit(w) \/ Fill(w)
  <2>1. UNCHANGED <<state, seq, nextSeq>>
    BY <1>2 DEF Park, Exit, Fill, Collate, Acquire, Reclaim, ReclaimFails, Publish, CopyFails,
      batchVars, queueVars
  <2> QED BY <2>1 DEF OneNumber
<1>3. CASE FillDone(w) \/ FillFailed(w)
  <2>1. /\ seq' = seq /\ nextSeq' = nextSeq /\ HasBatch(wpc[w])
        /\ \E x \in {"READY", "FREE"} : state' = [state EXCEPT ![wslot[w]] = x]
    BY <1>3 DEF FillDone, FillFailed, queueVars, HasBatch
  <2>2. wslot[w] \in Slot /\ state[wslot[w]] = "FILLING" BY <2>1 DEF LoaderOK
  <2>3. \A s \in Slot : state'[s] \in {"FILLING", "READY"} => state[s] \in {"FILLING", "READY"}
    BY <2>1, <2>2 DEF LoaderOK
  <2>4. DOMAIN seq' = Slot BY <2>1 DEF OneNumber
  <2> QED BY <2>1, <2>3, <2>4, StillNumbered
<1> QED BY <1>1, <1>2, <1>3 DEF Worker

\* The workers of either loader preserve the invariant.
LEMMA TrainWorkerInv ==
  ASSUME TrainerInv, NEW w \in Workers, TrainWorker(w) PROVE TrainerInv'
<1> USE DEF TrainerInv
<1>1. Worker(w) /\ UNCHANGED <<eState, eData, eWpc, eWslot, eCpc>>
      /\ UNCHANGED <<pc, call, batch, left, asked, open, refused>>
  BY DEF TrainWorker, evalLoader, evalQueue, thread
<1>2. /\ LoaderOK(Slot, Workers, state', data', wpc', wslot')
      /\ Handed(Slot, state, state', data, data', use, use')
      /\ SameStep(use, use') /\ Background(Slot, state, state')
  BY <1>1, WorkerKeeps DEF Loaders, Shared
<1>3. Loaders' BY <1>1, <1>2 DEF Loaders
<1>4. Control' BY <1>1 DEF Control
<1>5. OneHanded'
  <2>1. \A s \in Slot : \A x \in {"IN_USE", "IN_STEP", "RETIRED"} : state'[s] = x <=> state[s] = x
    BY <1>2 DEF Background
  <2>2. pc = "begun" /\ call = "train" => batch \in Slot BY DEF Control, InHand
  <2> QED BY <1>1, <2>1, <2>2 DEF OneHanded
<1>6. OneNumber' BY <1>1, WorkerNumbers DEF Loaders
<1>7. EvalOnly' BY <1>1 DEF EvalOnly
<1>8. Shared' BY <1>1, <1>2, TrainShares
<1>9. OneStep' BY <1>1, <1>2, StillOneStep
<1> QED BY <1>3, <1>4, <1>5, <1>6, <1>7, <1>8, <1>9

\* The same for those of an evaluation.
LEMMA EvalWorkerInv ==
  ASSUME TrainerInv, NEW w \in EvalWorkers, EvalWorker(w) PROVE TrainerInv'
<1> USE DEF TrainerInv
<1>1. E!Worker(w) /\ UNCHANGED <<state, seq, data, nextSeq, wpc, wslot>>
      /\ UNCHANGED <<pc, call, batch, left, asked, open, refused>>
  BY DEF EvalWorker, trainLoader, batchVars, queueVars, workerVars, thread
<1>2. /\ LoaderOK(E!Slot, EvalWorkers, eState', eData', eWpc', eWslot')
      /\ Handed(E!Slot, eState, eState', eData, eData', use, use')
      /\ SameStep(use, use')
  BY <1>1, EvalWorkerKeeps DEF Loaders, Shared
<1>3. eWpc[w] # "exited" /\ eCpc' \in {eCpc, "next"}
  BY <1>1 DEF E!Worker, E!Fill, E!Take, E!Park, E!Exit, E!Collate, E!Acquire, E!Reclaim,
    E!ReclaimFails, E!Publish, E!CopyFails, E!FillDone, E!FillFailed, E!WakeConsumer
<1>4. Loaders' BY <1>1, <1>2 DEF Loaders
<1>5. Control' BY <1>1 DEF Control
<1>6. OneHanded' BY <1>1 DEF OneHanded
<1>7. OneNumber' BY <1>1 DEF OneNumber
<1>8. EvalOnly' BY <1>1, <1>3 DEF EvalOnly
<1>9. Shared' BY <1>1, <1>2, EvalShares
<1>10. OneStep' BY <1>1, <1>2, StillOneStep
<1> QED BY <1>4, <1>5, <1>6, <1>7, <1>8, <1>9, <1>10

\* The batches rest: at most a worker is woken.
Resting ==
  /\ UNCHANGED <<state, seq, data, nextSeq, wslot, eState, eData, eWslot>>
  /\ OnlyWoken(Workers, wpc, wpc') /\ OnlyWoken(EvalWorkers, eWpc, eWpc')

\* A loader left alone is at rest.
LEMMA AsleepIsWoken ==
  ASSUME Loaders
  PROVE  /\ wpc' = wpc => OnlyWoken(Workers, wpc, wpc')
         /\ eWpc' = eWpc => OnlyWoken(EvalWorkers, eWpc, eWpc')
BY DEF Loaders, LoaderOK, OnlyWoken

\* At rest, both loaders stay in order ...
LEMMA RestingKeeps ==
  ASSUME Loaders, OneNumber, Resting PROVE Loaders' /\ OneNumber'
<1>1. Loaders' BY WokenOK DEF Loaders, Resting
<1>2. OneNumber' BY DEF OneNumber, Resting
<1> QED BY <1>1, <1>2

\* ... and the ring stays with their batches.
LEMMA RestingShares ==
  ASSUME Shared, Resting, use' = use PROVE Shared' /\ SameStep(use, use')
BY DEF Shared, Resting, Owner, SameStep

\* The device frees only what has been submitted.
LEMMA DeviceInv == ASSUME TrainerInv, Device \/ UNCHANGED allVars PROVE TrainerInv'
<1> USE DEF TrainerInv
<1>1. CASE Device
  <2>1. UNCHANGED <<state, seq, data, nextSeq, wslot, wpc, cpc>> /\ \E b \in Buffers : Ring!Finish(b)
    BY <1>1 DEF Device, DeviceFinish, batchVars, queueVars, workerVars
  <2>2. UNCHANGED <<eState, eData, eWslot, eWpc, eCpc>>
        /\ UNCHANGED <<pc, call, batch, left, asked, open, refused>>
    BY <1>1 DEF Device, evalLoader, evalQueue, thread
  <2>3. Resting BY <2>1, <2>2, AsleepIsWoken DEF Resting
  <2>4. Loaders' /\ OneNumber' BY <2>3, RestingKeeps
  <2>5. Handed(Slot, state, state', data, data', use, use') /\ SameStep(use, use')
    BY <2>1 DEF Ring!Finish, Ring!Move, Handed, SameStep, Shared, Uses, Owner
  <2>6. Shared' /\ OneStep' BY <2>2, <2>5, TrainShares, StillOneStep
  <2> QED BY <2>1, <2>2, <2>4, <2>6 DEF Control, OneHanded, EvalOnly
<1>2. CASE UNCHANGED allVars
  <2>1. UNCHANGED <<use, state, seq, data, nextSeq, wslot, wpc, cpc>>
    BY <1>2 DEF allVars, trainLoader, batchVars, queueVars, workerVars
  <2>2. UNCHANGED <<eState, eData, eWslot, eWpc, eCpc>>
        /\ UNCHANGED <<pc, call, batch, left, asked, open, refused>>
    BY <1>2 DEF allVars, evalLoader, evalQueue, thread
  <2>3. Resting BY <2>1, <2>2, AsleepIsWoken DEF Resting
  <2>4. Loaders' /\ OneNumber' BY <2>3, RestingKeeps
  <2>5. Shared' /\ SameStep(use, use') BY <2>1, <2>3, RestingShares
  <2>6. OneStep' BY <2>2, <2>5, StillOneStep
  <2> QED BY <2>1, <2>2, <2>4, <2>5, <2>6 DEF Control, OneHanded, EvalOnly
<1> QED BY <1>1, <1>2

----------------------------------------------------------------------------
(* The thread, when it moves no batch.                                     *)

\* A step has a slot of the ring.
Opened == open # "none" \/ pc = "begun"

\* With the loaders at rest only the thread is left to look at.
LEMMA RestingInv ==
  ASSUME TrainerInv, Resting, use' = use, Control', OneHanded', EvalOnly', Opened' <=> Opened
  PROVE  TrainerInv'
<1>1. Loaders' /\ OneNumber' BY RestingKeeps DEF TrainerInv
<1>2. Shared' /\ SameStep(use, use') BY RestingShares DEF TrainerInv
<1>3. OneStep' BY <1>2, StillOneStep DEF TrainerInv, Opened
<1> QED BY <1>1, <1>2, <1>3 DEF TrainerInv

\* The calls of the training loader that move no batch leave it at rest ...
LEMMA TrainRests ==
  ASSUME Loaders, Prefetch \/ CallNext \/ NextFails \/ NextWaits \/ StepBegun
  PROVE  UNCHANGED <<use, state, seq, data, nextSeq, wslot>> /\ OnlyWoken(Workers, wpc, wpc')
<1>1. UNCHANGED <<use, state, seq, data, nextSeq, wslot>> /\ (Signal \/ wpc' = wpc)
  BY DEF Prefetch, Request, CallNext, NextFails, NextWaits, StepBegun, batchVars, queueVars, workerVars
<1> QED BY <1>1, Wakes DEF Loaders

\* ... and so do those of the other.
LEMMA EvalRests ==
  ASSUME Loaders, E!Prefetch \/ E!CallNext \/ E!NextFails \/ E!NextWaits \/ E!StepBegun
  PROVE  /\ UNCHANGED <<use, eState, eData, eWslot>> /\ OnlyWoken(EvalWorkers, eWpc, eWpc')
         /\ eCpc' # "destroying"
<1>1. UNCHANGED <<use, eState, eData, eWslot>> /\ (E!Signal \/ eWpc' = eWpc)
      /\ eCpc' # "destroying"
  BY DEF E!Prefetch, E!Request, E!CallNext, E!NextFails, E!NextWaits, E!StepBegun, E!batchVars,
         E!queueVars, E!workerVars
<1> QED BY <1>1, EvalWakes DEF Loaders

\* A call of either loader that moves no batch.
LEMMA CallRests ==
  ASSUME Loaders, EvalOnly,
         On(Prefetch \/ CallNext \/ NextFails \/ NextWaits \/ StepBegun,
            E!Prefetch \/ E!CallNext \/ E!NextFails \/ E!NextWaits \/ E!StepBegun)
         \/ NoLoader
  PROVE  /\ Resting /\ use' = use
         /\ \/ UNCHANGED <<eWpc, eCpc>>
            \/ call = "eval" /\ eCpc' # "destroying"
<1>1. CASE NoLoader
  <2>1. UNCHANGED <<use, state, seq, data, nextSeq, wslot, wpc>>
        /\ UNCHANGED <<eState, eData, eWslot, eWpc, eCpc>>
    BY <1>1 DEF NoLoader, trainLoader, batchVars, queueVars, workerVars, evalLoader, evalQueue
  <2> QED BY <2>1, AsleepIsWoken DEF Resting
<1>2. CASE ~ NoLoader /\ call = "train"
  <2>1. Prefetch \/ CallNext \/ NextFails \/ NextWaits \/ StepBegun BY <1>2 DEF On
  <2>2. UNCHANGED <<eState, eData, eWslot, eWpc, eCpc>> BY <1>2 DEF On, evalLoader, evalQueue
  <2> QED BY <2>1, <2>2, TrainRests, AsleepIsWoken DEF Resting
<1>3. CASE ~ NoLoader /\ call = "eval"
  <2>1. E!Prefetch \/ E!CallNext \/ E!NextFails \/ E!NextWaits \/ E!StepBegun BY <1>3 DEF On
  <2>2. UNCHANGED <<state, seq, data, nextSeq, wslot, wpc>>
    BY <1>3 DEF On, trainLoader, batchVars, queueVars, workerVars
  <2> QED BY <1>3, <2>1, <2>2, EvalRests, AsleepIsWoken DEF Resting
<1>4. CASE ~ NoLoader /\ call \notin {"train", "eval"} BY <1>4 DEF On
<1> QED BY <1>1, <1>2, <1>3, <1>4

\* The parts of the invariant that follow from where the thread goes.
LEMMA WaitsInv ==
  ASSUME TrainerInv, PrefetchNext \/ EvalNext \/ Waits \/ NextFailed \/ BeginRefused \/ Run
  PROVE  TrainerInv'
<1> USE DEF TrainerInv
<1>1. /\ Resting /\ use' = use
      /\ UNCHANGED <<eWpc, eCpc>> \/ (call = "eval" /\ eCpc' # "destroying")
  <2>1. CASE PrefetchNext BY <2>1, CallRests DEF PrefetchNext, On
  <2>2. CASE EvalNext
    <3>1. On(FALSE, E!CallNext) BY <2>2 DEF EvalNext, On
    <3> QED BY <3>1, CallRests DEF On
  <2>3. CASE Waits BY <2>3, CallRests DEF Waits, On
  <2>4. CASE NextFailed BY <2>4, CallRests DEF NextFailed, On
  <2>5. CASE BeginRefused \/ Run BY <2>5, CallRests DEF BeginRefused, Run
  <2> QED BY <2>1, <2>2, <2>3, <2>4, <2>5
<1>2. UNCHANGED <<open, refused>>
  BY DEF PrefetchNext, EvalNext, Waits, NextFailed, BeginRefused, Run, thread
<1>3. \/ pc = "prefetch" /\ pc' = (IF call = "train" THEN "idle" ELSE "next")
      \/ pc = "prefetch" /\ call = "eval" /\ pc' = "destroy"
      \/ pc = "next" /\ pc' \in {"next", IF call = "train" THEN "idle" ELSE "destroy"}
      \/ pc = "begin" /\ pc' = "cleanup"
      \/ pc = "run" /\ pc' \in {"end", "drop"}
  BY DEF PrefetchNext, EvalNext, Waits, NextFailed, BeginRefused, Run, thread, Goto, Leave
<1>4. IF pc' = "idle" THEN call' = "none" ELSE UNCHANGED <<call, batch>>
  BY DEF PrefetchNext, EvalNext, Waits, NextFailed, BeginRefused, Run, thread, Goto, Leave, Control
<1>5. Control' BY <1>2, <1>3, <1>4 DEF Control, TrainerPC, InHand, Calls
<1>6. OneHanded' BY <1>1, <1>2, <1>3, <1>4 DEF OneHanded, Control, Resting, InHand
<1>7. EvalOnly' BY <1>1, <1>3, <1>4 DEF EvalOnly, Control, Resting
<1>8. Opened' <=> Opened BY <1>2, <1>3 DEF Opened
<1> QED BY <1>1, <1>5, <1>6, <1>7, <1>8, RestingInv

\* The beginning of a call, gd_begin_step that succeeds, gd_end_step that fails.
LEMMA CallsInv ==
  ASSUME TrainerInv, UserPrefetch \/ CallTrain \/ Begun \/ EndFails PROVE TrainerInv'
<1> USE DEF TrainerInv
<1>1. CASE UserPrefetch
  <2>1. Prefetch /\ UNCHANGED <<eState, eData, eWslot, eWpc, eCpc>>
        /\ UNCHANGED <<pc, call, batch, left, asked, open, refused>>
    BY <1>1 DEF UserPrefetch, evalLoader, evalQueue, thread
  <2>2. Resting /\ use' = use BY <2>1, TrainRests, AsleepIsWoken DEF Resting
  <2>3. Control' /\ OneHanded' /\ EvalOnly' /\ (Opened' <=> Opened)
    BY <2>1, <2>2 DEF Control, OneHanded, EvalOnly, Resting, Opened
  <2> QED BY <2>2, <2>3, RestingInv
<1>2. CASE CallTrain
  <2>1. CallNext /\ UNCHANGED <<eState, eData, eWslot, eWpc, eCpc>>
        /\ UNCHANGED <<batch, left, asked, open, refused>>
        /\ pc = "idle" /\ call' = "train" /\ pc' = "next"
    BY <1>2 DEF CallTrain, evalLoader, evalQueue
  <2>2. Resting /\ use' = use BY <2>1, TrainRests, AsleepIsWoken DEF Resting
  <2>3. Control' BY <2>1 DEF Control, TrainerPC, InHand, Calls
  <2>4. OneHanded' BY <2>1, <2>2 DEF Control, OneHanded, Resting
  <2>5. EvalOnly' /\ (Opened' <=> Opened) BY <2>1, <2>2 DEF Control, EvalOnly, Resting, Opened
  <2> QED BY <2>2, <2>3, <2>4, <2>5, RestingInv
<1>3. CASE Begun
  <2>1. Resting /\ use' = use /\ (UNCHANGED <<eWpc, eCpc>> \/ (call = "eval" /\ eCpc' # "destroying"))
    BY <1>3, CallRests DEF Begun, On
  <2>2. /\ pc = "begun" /\ open' = call /\ pc' = "run" /\ UNCHANGED <<call, batch, left, asked, refused>>
        /\ call \in {"train", "eval"}
    BY <1>3 DEF Begun, Goto, On
  <2>3. Control' BY <2>2 DEF Control, TrainerPC, InHand, Calls
  <2>4. OneHanded' BY <2>1, <2>2 DEF Control, InHand, OneHanded, Resting
  <2>5. EvalOnly' /\ (Opened' <=> Opened) BY <2>1, <2>2 DEF Control, EvalOnly, Resting, Opened
  <2> QED BY <2>1, <2>3, <2>4, <2>5, RestingInv
<1>4. CASE EndFails
  <2>1. Resting /\ use' = use /\ (UNCHANGED <<eWpc, eCpc>> \/ (call = "eval" /\ eCpc' # "destroying"))
    BY <1>4, CallRests DEF EndFails
  <2>2. /\ pc \in {"end", "drop"} /\ refused' = TRUE /\ open' = open /\ open = call
        /\ pc' = (IF pc = "end" /\ call = "train" THEN "idle" ELSE "cleanup")
        /\ IF pc' = "idle" THEN call' = "none" ELSE UNCHANGED <<call, batch>>
    BY <1>4 DEF EndFails, Goto, Control
  <2>3. Control' BY <2>2 DEF Control, TrainerPC, InHand, Calls
  <2>4. OneHanded' BY <2>1, <2>2 DEF Control, InHand, OneHanded, Resting
  <2>5. EvalOnly' /\ (Opened' <=> Opened) BY <2>1, <2>2 DEF Control, EvalOnly, Resting, Opened
  <2> QED BY <2>1, <2>3, <2>4, <2>5, RestingInv
<1> QED BY <1>1, <1>2, <1>3, <1>4

\* The loader of an evaluation, new or freed.
LEMMA AnewOK ==
  ASSUME NEW worker \in {"check", "exited"}, NEW consumer, Anew(worker, consumer)
  PROVE  /\ LoaderOK(E!Slot, EvalWorkers, eState', eData', eWpc', eWslot')
         /\ \A s \in E!Slot : eState'[s] = "FREE" /\ eData'[s] = NoBuffer
         /\ \A w \in EvalWorkers : eWpc'[w] = worker
         /\ eCpc' = consumer
<1>1. /\ eState' = [s \in E!Slot |-> "FREE"] /\ eData' = [s \in E!Slot |-> NoBuffer]
      /\ eWpc' = [w \in EvalWorkers |-> worker] /\ eWslot' = [w \in EvalWorkers |-> 0]
      /\ eCpc' = consumer
  BY DEF Anew
<1> QED BY <1>1 DEF LoaderOK, BatchState, WorkerPC, HasBatch

\* gd_eval_mean_loss creates its loader, and frees it.
LEMMA EvalEndsInv ==
  ASSUME TrainerInv, CallEval \/ EvalReturns PROVE TrainerInv'
<1> USE DEF TrainerInv
<1>1. UNCHANGED <<use, state, seq, data, nextSeq, wpc, wslot, open, refused>>
  BY DEF CallEval, EvalReturns, trainLoader, batchVars, queueVars, workerVars
<1>2. \/ /\ pc = "idle" /\ Anew("check", "idle") /\ call' = "eval" /\ pc' = "prefetch"
         /\ batch' = batch
      \/ /\ pc = "destroy" /\ E!InState("FREE") = E!Slot /\ Anew("exited", "gone")
         /\ pc' = "idle" /\ call' = "none"
  BY DEF CallEval, EvalReturns, Goto
<1>3. /\ LoaderOK(E!Slot, EvalWorkers, eState', eData', eWpc', eWslot')
      /\ \A s \in E!Slot : eState'[s] = "FREE" /\ eData'[s] = NoBuffer
      /\ call' # "eval" => \A w \in EvalWorkers : eWpc'[w] = "exited"
      /\ eCpc' # "destroying"
  <2>1. CASE Anew("check", "idle") /\ call' = "eval" BY <2>1, AnewOK
  <2>2. CASE Anew("exited", "gone") BY <2>2, AnewOK
  <2> QED BY <1>2, <2>1, <2>2
<1>4. \A s \in E!Slot : eState[s] = "FREE" BY <1>2 DEF EvalOnly, Control, E!InState
<1>5. Loaders' BY <1>1, <1>3 DEF Loaders
<1>6. Control' BY <1>1, <1>2 DEF Control, TrainerPC, InHand, Calls
<1>7. OneHanded' BY <1>1, <1>2 DEF OneHanded, Control
<1>8. OneNumber' BY <1>1 DEF OneNumber
<1>9. EvalOnly' BY <1>2, <1>3 DEF EvalOnly
<1>10. Shared' BY <1>1, <1>4 DEF Shared, Owner
<1>11. OneStep' BY <1>1, <1>2 DEF OneStep
<1> QED BY <1>5, <1>6, <1>7, <1>8, <1>9, <1>10, <1>11

\* gd_dataloader_destroy inside gd_eval_mean_loss, batch by batch.
LEMMA DestroyInv ==
  ASSUME TrainerInv, DestroyEval \/ DestroyingEval PROVE TrainerInv'
<1> USE DEF TrainerInv
<1>1. /\ pc = "destroy" /\ UNCHANGED <<pc, call, batch, left, asked, open, refused>>
      /\ UNCHANGED <<state, seq, data, nextSeq, wpc, wslot>>
  BY DEF DestroyEval, DestroyingEval, thread, trainLoader, batchVars, queueVars, workerVars
<1>2. Control' /\ OneHanded' /\ OneNumber' BY <1>1 DEF Control, OneHanded, OneNumber
<1>3. call = "eval" BY <1>1 DEF Control
<1>4. CASE DestroyEval \/ E!Joined
  <2>1. UNCHANGED <<use, eState, eData, eWslot>> /\ (E!Broadcast \/ eWpc' = eWpc)
        /\ (eCpc' = "joining" \/ \A w \in EvalWorkers : eWpc[w] = "exited" /\ eWpc' = eWpc)
    BY <1>4 DEF DestroyEval, E!Joined, evalQueue, E!batchVars, E!queueVars, E!workerVars
  <2>2. Resting BY <1>1, <2>1, EvalWakes, AsleepIsWoken DEF Loaders, Resting
  <2>3. EvalOnly' BY <1>1, <1>3, <2>1 DEF EvalOnly
  <2> QED BY <1>1, <1>2, <2>1, <2>2, <2>3, RestingInv DEF Opened
<1>5. ASSUME NEW s \in E!Slot, E!DestroySlot(s) PROVE TrainerInv'
  <2>1. /\ eCpc = "destroying" /\ eState' = [eState EXCEPT ![s] = "FREE"] /\ E!ClearBinding(s)
        /\ UNCHANGED <<eWpc, eWslot, eCpc>>
    BY <1>5 DEF E!DestroySlot, E!workerVars
  <2>2. /\ Handed(E!Slot, eState, eState', eData, eData', use, use') /\ SameStep(use, use')
        /\ eData' = [eData EXCEPT ![s] = NoBuffer]
    BY <2>1, EvalClearingHands DEF Loaders, Shared
  <2>3. \A w \in EvalWorkers : eWpc[w] = "exited" BY <2>1 DEF EvalOnly
  <2>4. LoaderOK(E!Slot, EvalWorkers, eState', eData', eWpc', eWslot')
    BY <2>1, <2>2, <2>3, FreedOK DEF Loaders
  <2>5. Loaders' BY <1>1, <2>4 DEF Loaders
  <2>6. EvalOnly' BY <1>1, <1>3, <2>1, <2>3 DEF EvalOnly
  <2>7. Shared' /\ OneStep' BY <1>1, <2>2, EvalShares, StillOneStep
  <2> QED BY <1>2, <2>5, <2>6, <2>7
<1> QED BY <1>4, <1>5 DEF DestroyingEval

----------------------------------------------------------------------------
(* The thread, when it moves a batch.                                      *)

\* The slot of the ring goes with its batch.
LEMMA MoveHands ==
  ASSUME NEW slots, NEW workers, NEW st, NEW d, NEW at, NEW of, NEW s \in slots,
         LoaderOK(slots, workers, st, d, at, of), NEW u \in [Buffers -> Uses],
         st[s] \in {"IN_USE", "IN_STEP"}, NEW x, NEW to \in Uses,
         to \in {"host", "full"} => x = "IN_USE"
  PROVE  Handed(slots, st, [st EXCEPT ![s] = x], d, d, u, [u EXCEPT ![d[s]] = to])
<1> DEFINE stN == [st EXCEPT ![s] = x]
<1> DEFINE uN == [u EXCEPT ![d[s]] = to]
<1>1. st \in [slots -> BatchState] BY DEF LoaderOK
<1>2. uN \in [Buffers -> Uses] OBVIOUS
<1>3. ASSUME NEW b \in Buffers, uN[b] \in {"host", "full"}
      PROVE  Owner(slots, stN, d, b) \/ (u[b] \in {"host", "full"} /\ ~ Owner(slots, st, d, b))
  <2>1. CASE b = d[s]
    <3>1. x = "IN_USE" BY <1>3, <2>1
    <3> QED BY <1>1, <2>1, <3>1 DEF Owner
  <2>2. CASE b # d[s]
    <3>1. \A r \in slots : r # s => stN[r] = st[r] BY <1>1
    <3> QED BY <1>3, <2>2, <3>1 DEF Owner
  <2> QED BY <2>1, <2>2
<1> QED BY <1>2, <1>3 DEF Handed

\* The batch in hand, of either loader, changes state, and its slot changes use.
TrainPassed(x, from, to) ==
  /\ call = "train" /\ batch \in Slot /\ state[batch] \in {"IN_USE", "IN_STEP"}
  /\ state' = [state EXCEPT ![batch] = x] /\ Ring!Move(data[batch], from, to)
  /\ UNCHANGED <<seq, data, nextSeq, wpc, wslot, eState, eData, eWpc, eWslot, eCpc>>

EvalPassed(x, from, to) ==
  /\ call = "eval" /\ batch \in E!Slot /\ eState[batch] \in {"IN_USE", "IN_STEP"}
  /\ eState' = [eState EXCEPT ![batch] = x] /\ Ring!Move(eData[batch], from, to)
  /\ UNCHANGED <<state, seq, data, nextSeq, wpc, wslot, eData, eWpc, eWslot>> /\ eCpc' # "destroying"

\* The batch in hand goes from one state to the next with its slot.
LEMMA PassedKeeps ==
  ASSUME TrainerInv, NEW x \in {"IN_USE", "IN_STEP", "RETIRED"}, NEW from, NEW to \in Uses,
         to \in {"host", "full"} => x = "IN_USE",
         TrainPassed(x, from, to) \/ EvalPassed(x, from, to), call' = call
  PROVE  Loaders' /\ OneNumber' /\ Shared' /\ EvalOnly' /\ \E b \in Buffers : Ring!Move(b, from, to)
<1> USE DEF TrainerInv
<1>1. CASE TrainPassed(x, from, to)
  <2> USE <1>1 DEF TrainPassed
  <2>1. LoaderOK(Slot, Workers, state', data', wpc', wslot')
    BY HandedOK DEF Loaders
  <2>2. Loaders' BY <2>1 DEF Loaders
  <2>3. state \in [Slot -> BatchState] /\ data[batch] \in Buffers
    BY DEF Loaders, LoaderOK
  <2>4. OneNumber'
    <3>1. DOMAIN seq' = Slot BY DEF OneNumber
    <3>2. \A s \in Slot : state'[s] \in {"FILLING", "READY"} => state[s] \in {"FILLING", "READY"}
      BY <2>3
    <3> QED BY <3>1, <3>2, StillNumbered
  <2>5. use \in [Buffers -> Uses] BY DEF Shared
  <2>6. use' = [use EXCEPT ![data[batch]] = to] BY DEF Ring!Move
  <2>7. Handed(Slot, state, state', data, data', use, use')
    BY <2>5, <2>6, MoveHands DEF Loaders
  <2>8. Shared' BY <2>7, TrainShares
  <2>9. EvalOnly' BY DEF EvalOnly
  <2> QED BY <2>2, <2>3, <2>4, <2>8, <2>9
<1>2. CASE EvalPassed(x, from, to)
  <2> USE <1>2 DEF EvalPassed
  <2>1. LoaderOK(E!Slot, EvalWorkers, eState', eData', eWpc', eWslot')
    BY HandedOK DEF Loaders
  <2>2. Loaders' BY <2>1 DEF Loaders
  <2>3. eState \in [E!Slot -> BatchState] /\ eData[batch] \in Buffers
    BY DEF Loaders, LoaderOK
  <2>4. OneNumber' BY DEF OneNumber
  <2>5. use \in [Buffers -> Uses] BY DEF Shared
  <2>6. use' = [use EXCEPT ![eData[batch]] = to] BY DEF Ring!Move
  <2>7. Handed(E!Slot, eState, eState', eData, eData', use, use')
    BY <2>5, <2>6, MoveHands DEF Loaders
  <2>8. Shared' BY <2>7, EvalShares
  <2>9. EvalOnly' BY DEF EvalOnly
  <2> QED BY <2>2, <2>3, <2>4, <2>8, <2>9
<1> QED BY <1>1, <1>2

\* gd_begin_step takes the slot of the batch into the step.
LEMMA BeginInv == ASSUME TrainerInv, Begin PROVE TrainerInv'
<1> USE DEF TrainerInv
<1>1. /\ pc = "begin" /\ open = "none" /\ pc' = "begun"
      /\ UNCHANGED <<call, batch, left, asked, open, refused>>
  BY DEF Begin, Goto
<1>2. \/ TrainPassed("IN_STEP", "full", "step") /\ state[batch] = "IN_USE"
         /\ \A s \in Slot : state[s] # "IN_STEP"
      \/ EvalPassed("IN_STEP", "full", "step")
  <2>1. CASE call = "train"
    <3>1. BeginStep(batch) /\ UNCHANGED evalLoader BY <2>1 DEF Begin, On
    <3>2. batch \in Slot BY <1>1, <2>1 DEF Control, InHand
    <3> QED BY <2>1, <3>1, <3>2
      DEF BeginStep, InState, evalLoader, evalQueue, queueVars, workerVars, TrainPassed, Ring!Open
  <2>2. CASE call = "eval"
    <3>1. E!BeginStep(batch) /\ UNCHANGED trainLoader BY <2>2 DEF Begin, On
    <3>2. batch \in E!Slot BY <1>1, <2>2 DEF Control, InHand
    <3> QED BY <2>2, <3>1, <3>2
      DEF E!BeginStep, trainLoader, batchVars, queueVars, workerVars, E!queueVars, E!workerVars,
          EvalPassed, E!Ring!Open, E!Ring!Move, Ring!Move
  <2> QED BY <2>1, <2>2 DEF Begin, On
<1>3. Loaders' /\ OneNumber' /\ Shared' /\ EvalOnly' /\ \E b \in Buffers : Ring!Move(b, "full", "step")
  BY <1>1, <1>2, PassedKeeps DEF Uses
<1>4. Control' BY <1>1, <1>2 DEF Control, TrainerPC, InHand, TrainPassed, EvalPassed
<1>5. OneHanded'
  <2>1. CASE TrainPassed("IN_STEP", "full", "step") /\ \A s \in Slot : state[s] # "IN_STEP"
    <3>1. state \in [Slot -> BatchState] BY DEF Loaders, LoaderOK
    <3> QED BY <1>1, <2>1, <3>1 DEF OneHanded, TrainPassed
  <2>2. CASE EvalPassed("IN_STEP", "full", "step")
    BY <1>1, <2>2 DEF OneHanded, EvalPassed
  <2> QED BY <1>2, <2>1, <2>2
<1>6. OneStep' BY <1>1, <1>3 DEF OneStep, Shared, Ring!Move
<1> QED BY <1>3, <1>4, <1>5, <1>6

\* gd_begin_step backs out.
LEMMA BeginFailedInv == ASSUME TrainerInv, BeginFailed PROVE TrainerInv'
<1> USE DEF TrainerInv
<1>1. /\ pc = "begun" /\ open = "none" /\ pc' = "cleanup"
      /\ UNCHANGED <<call, batch, left, asked, open, refused>>
  BY DEF BeginFailed, Goto, Control
<1>2. \/ TrainPassed("IN_USE", "step", "full") /\ state[batch] = "IN_STEP"
      \/ EvalPassed("IN_USE", "step", "full")
  <2>1. CASE call = "train"
    <3>1. AbortBegin(batch) /\ UNCHANGED evalLoader BY <2>1 DEF BeginFailed, On
    <3>2. batch \in Slot BY <1>1, <2>1 DEF Control, InHand
    <3> QED BY <2>1, <3>1, <3>2
      DEF AbortBegin, evalLoader, evalQueue, queueVars, workerVars, TrainPassed
  <2>2. CASE call = "eval"
    <3>1. E!AbortBegin(batch) /\ UNCHANGED trainLoader BY <2>2 DEF BeginFailed, On
    <3>2. batch \in E!Slot BY <1>1, <2>2 DEF Control, InHand
    <3> QED BY <2>2, <3>1, <3>2
      DEF E!AbortBegin, trainLoader, batchVars, queueVars, workerVars, E!queueVars, E!workerVars,
          EvalPassed, E!Ring!Move, Ring!Move
  <2> QED BY <2>1, <2>2 DEF BeginFailed, On
<1>3. Loaders' /\ OneNumber' /\ Shared' /\ EvalOnly' /\ \E b \in Buffers : Ring!Move(b, "step", "full")
  BY <1>1, <1>2, PassedKeeps DEF Uses
<1>4. Control' BY <1>1, <1>2 DEF Control, TrainerPC, InHand, TrainPassed, EvalPassed
<1>5. OneHanded'
  <2>1. CASE TrainPassed("IN_USE", "step", "full") /\ state[batch] = "IN_STEP"
    <3>1. state \in [Slot -> BatchState] BY DEF Loaders, LoaderOK
    <3> QED BY <1>1, <2>1, <3>1 DEF OneHanded, TrainPassed
  <2>2. CASE EvalPassed("IN_USE", "step", "full")
    BY <1>1, <2>2 DEF OneHanded, EvalPassed
  <2> QED BY <1>2, <2>1, <2>2
<1>6. OneStep' BY <1>1, <1>3 DEF OneStep, Shared, Ring!Move
<1> QED BY <1>3, <1>4, <1>5, <1>6

\* gd_end_step hands the slot to the device.
LEMMA EndInv == ASSUME TrainerInv, End PROVE TrainerInv'
<1> USE DEF TrainerInv
<1>1. /\ pc \in {"end", "drop"} /\ open = call /\ pc' = (IF pc = "end" THEN "release" ELSE "cleanup")
      /\ open' = "none" /\ UNCHANGED <<call, batch, left, asked, refused>>
  BY DEF End, Goto, Control
<1>2. \/ TrainPassed("RETIRED", "step", "device") /\ state[batch] = "IN_STEP"
      \/ EvalPassed("RETIRED", "step", "device")
  <2>1. CASE call = "train"
    <3>1. EndStep(batch) /\ UNCHANGED evalLoader BY <2>1 DEF End, On
    <3>2. batch \in Slot BY <1>1, <2>1 DEF Control, InHand
    <3> QED BY <2>1, <3>1, <3>2
      DEF EndStep, evalLoader, evalQueue, queueVars, workerVars, TrainPassed, Ring!Submit
  <2>2. CASE call = "eval"
    <3>1. E!EndStep(batch) /\ UNCHANGED trainLoader BY <2>2 DEF End, On
    <3>2. batch \in E!Slot BY <1>1, <2>2 DEF Control, InHand
    <3> QED BY <2>2, <3>1, <3>2
      DEF E!EndStep, trainLoader, batchVars, queueVars, workerVars, E!queueVars, E!workerVars,
          EvalPassed, E!Ring!Submit, E!Ring!Move, Ring!Move
  <2> QED BY <2>1, <2>2 DEF End, On
<1>3. Loaders' /\ OneNumber' /\ Shared' /\ EvalOnly' /\ \E b \in Buffers : Ring!Move(b, "step", "device")
  BY <1>1, <1>2, PassedKeeps DEF Uses
<1>4. Control' BY <1>1, <1>2 DEF Control, TrainerPC, InHand, TrainPassed, EvalPassed, Calls
<1>5. OneHanded'
  <2>1. CASE TrainPassed("RETIRED", "step", "device") /\ state[batch] = "IN_STEP"
    <3>1. state \in [Slot -> BatchState] BY DEF Loaders, LoaderOK
    <3> QED BY <1>1, <2>1, <3>1 DEF OneHanded, TrainPassed
  <2>2. CASE EvalPassed("RETIRED", "step", "device")
    BY <1>1, <2>2 DEF OneHanded, EvalPassed
  <2> QED BY <1>2, <2>1, <2>2
<1>6. OneStep'
  <2>1. open # "none" BY <1>1, <1>2 DEF TrainPassed, EvalPassed
  <2> QED BY <1>1, <1>3, <2>1 DEF OneStep, Shared, Ring!Move
<1> QED BY <1>3, <1>4, <1>5, <1>6

\* gd_dataloader_next delivers the only batch with the due number.
LEMMA DeliveredInv == ASSUME TrainerInv, Delivered PROVE TrainerInv'
<1> USE DEF TrainerInv
<1>1. pc = "next" /\ pc' = "begin" /\ UNCHANGED <<call, left, asked, open, refused>>
  BY DEF Delivered
<1>2. CASE call = "train"
  <2>1. PICK s \in Slot : Due(s) /\ Deliver /\ UNCHANGED evalLoader /\ batch' = s
    BY <1>2 DEF Delivered, On
  <2>2. PICK r \in Slot : Due(r) /\ state' = [state EXCEPT ![r] = "IN_USE"]
    BY <2>1 DEF Deliver
  <2>3. r = s BY <2>1, <2>2 DEF OneNumber, Due
  <2>4. /\ UNCHANGED <<use, seq, data, nextSeq, wpc, wslot, eState, eData, eWpc, eWslot, eCpc>>
        /\ state[s] = "READY" /\ state' = [state EXCEPT ![s] = "IN_USE"]
    BY <2>1, <2>2, <2>3 DEF Deliver, Due, evalLoader, evalQueue, workerVars
  <2>5. state \in [Slot -> BatchState] BY DEF Loaders, LoaderOK
  <2>6. LoaderOK(Slot, Workers, state', data', wpc', wslot')
    BY <2>4, HandedOK DEF Loaders
  <2>7. Loaders' BY <2>4, <2>6 DEF Loaders
  <2>8. Control' BY <1>1, <1>2, <2>1 DEF Control, TrainerPC, InHand
  <2>9. OneHanded' BY <1>1, <1>2, <2>1, <2>4, <2>5 DEF OneHanded, Control
  <2>10. OneNumber'
    <3>1. DOMAIN seq' = Slot BY <2>4 DEF OneNumber
    <3>2. \A q \in Slot : state'[q] \in {"FILLING", "READY"} => state[q] \in {"FILLING", "READY"}
      BY <2>4, <2>5
    <3> QED BY <2>4, <3>1, <3>2, StillNumbered
  <2>11. EvalOnly' BY <1>1, <2>4 DEF EvalOnly
  <2>12. Handed(Slot, state, state', data, data', use, use') /\ SameStep(use, use')
    BY <2>4, <2>5 DEF Handed, SameStep, Shared, Owner
  <2>13. Shared' /\ OneStep' BY <1>1, <2>4, <2>12, TrainShares, StillOneStep
  <2> QED BY <2>7, <2>8, <2>9, <2>10, <2>11, <2>13
<1>3. CASE call = "eval"
  <2>1. PICK s \in E!Slot : E!Due(s) /\ E!Deliver /\ UNCHANGED trainLoader /\ batch' = s
    BY <1>3 DEF Delivered, On
  <2>2. PICK r \in E!Slot : E!Due(r) /\ eState' = [eState EXCEPT ![r] = "IN_USE"]
    BY <2>1 DEF E!Deliver
  <2>3. /\ UNCHANGED <<use, state, seq, data, nextSeq, wpc, wslot, eData, eWpc, eWslot>>
        /\ eState[r] = "READY" /\ eCpc' = "idle"
    BY <2>1, <2>2 DEF E!Deliver, E!Due, trainLoader, batchVars, queueVars, workerVars, E!workerVars
  <2>4. eState \in [E!Slot -> BatchState] BY DEF Loaders, LoaderOK
  <2>5. LoaderOK(E!Slot, EvalWorkers, eState', eData', eWpc', eWslot')
    BY <2>2, <2>3, HandedOK DEF Loaders
  <2>6. Loaders' BY <2>3, <2>5 DEF Loaders
  <2>7. Control' BY <1>1, <1>3, <2>1 DEF Control, TrainerPC, InHand
  <2>8. OneHanded' BY <1>1, <1>3, <2>3 DEF OneHanded
  <2>9. OneNumber' BY <2>3 DEF OneNumber
  <2>10. EvalOnly' BY <1>1, <1>3, <2>3 DEF EvalOnly
  <2>11. Handed(E!Slot, eState, eState', eData, eData', use, use') /\ SameStep(use, use')
    BY <2>2, <2>3, <2>4 DEF Handed, SameStep, Shared, Owner
  <2>12. Shared' /\ OneStep' BY <1>1, <2>3, <2>11, EvalShares, StillOneStep
  <2> QED BY <2>6, <2>7, <2>8, <2>9, <2>10, <2>12
<1> QED BY <1>2, <1>3 DEF Delivered, On

\* gd_dataloader_release: the batch in hand is free.
LEMMA ReleasedKeeps ==
  ASSUME TrainerInv, pc \in InHand, On(Release(batch), E!Release(batch)),
         call' = call \/ (call = "train" /\ call' = "none")
  PROVE  /\ Loaders' /\ OneNumber' /\ Shared' /\ EvalOnly' /\ SameStep(use, use')
         /\ IF call = "train"
            THEN /\ batch \in Slot /\ state[batch] \in {"IN_USE", "RETIRED"}
                 /\ state' = [state EXCEPT ![batch] = "FREE"]
            ELSE state' = state
<1> USE DEF TrainerInv
<1>1. CASE call = "train"
  <2>1. Release(batch) /\ UNCHANGED <<eState, eData, eWpc, eWslot, eCpc>>
    BY <1>1 DEF On, evalLoader, evalQueue
  <2>2. batch \in Slot BY <1>1 DEF Control
  <2>3. /\ state[batch] \in {"IN_USE", "RETIRED"} /\ state' = [state EXCEPT ![batch] = "FREE"]
        /\ ClearBinding(batch) /\ seq' = [seq EXCEPT ![batch] = 0] /\ Signal
        /\ UNCHANGED <<nextSeq, wslot>>
    BY <2>1 DEF Release, queueVars
  <2>4. /\ Handed(Slot, state, state', data, data', use, use') /\ SameStep(use, use')
        /\ data' = [data EXCEPT ![batch] = NoBuffer]
    BY <2>2, <2>3, ClearingHands DEF Loaders, Shared
  <2>5. LoaderOK(Slot, Workers, state', data', wpc, wslot)
    BY <2>2, <2>3, <2>4, FreedOK DEF Loaders
  <2>6. LoaderOK(Slot, Workers, state', data', wpc', wslot')
    <3>1. OnlyWoken(Workers, wpc, wpc') BY <2>3, Wakes DEF Loaders
    <3> QED BY <2>3, <2>5, <3>1, WokenOK
  <2>7. Loaders' BY <2>1, <2>6 DEF Loaders
  <2>8. state \in [Slot -> BatchState] BY DEF Loaders, LoaderOK
  <2>9. OneNumber'
    <3>1. DOMAIN seq' = Slot BY <2>3 DEF OneNumber
    <3>2. \A q \in Slot : state'[q] \in {"FILLING", "READY"} =>
            state[q] \in {"FILLING", "READY"} /\ seq'[q] = seq[q]
      BY <2>3, <2>8 DEF OneNumber
    <3> QED BY <2>3, <3>1, <3>2, StillNumbered
  <2>10. Shared' BY <2>1, <2>4, TrainShares
  <2>11. EvalOnly' BY <2>1 DEF EvalOnly
  <2> QED BY <1>1, <2>2, <2>3, <2>4, <2>7, <2>9, <2>10, <2>11
<1>2. CASE call = "eval"
  <2>1. E!Release(batch) /\ UNCHANGED <<state, seq, data, nextSeq, wpc, wslot>>
    BY <1>2 DEF On, trainLoader, batchVars, queueVars, workerVars
  <2>2. batch \in E!Slot BY <1>2 DEF Control
  <2>3. /\ eState[batch] \in {"IN_USE", "RETIRED"} /\ eState' = [eState EXCEPT ![batch] = "FREE"]
        /\ E!ClearBinding(batch) /\ E!Signal /\ eWslot' = eWslot /\ eCpc' = "idle"
    BY <2>1 DEF E!Release
  <2>4. /\ Handed(E!Slot, eState, eState', eData, eData', use, use') /\ SameStep(use, use')
        /\ eData' = [eData EXCEPT ![batch] = NoBuffer]
    BY <2>2, <2>3, EvalClearingHands DEF Loaders, Shared
  <2>5. LoaderOK(E!Slot, EvalWorkers, eState', eData', eWpc, eWslot)
    BY <2>2, <2>3, <2>4, FreedOK DEF Loaders
  <2>6. LoaderOK(E!Slot, EvalWorkers, eState', eData', eWpc', eWslot')
    <3>1. OnlyWoken(EvalWorkers, eWpc, eWpc') BY <2>3, EvalWakes DEF Loaders
    <3> QED BY <2>3, <2>5, <3>1, WokenOK
  <2>7. Loaders' BY <2>1, <2>6 DEF Loaders
  <2>8. OneNumber' BY <2>1 DEF OneNumber
  <2>9. Shared' BY <2>1, <2>4, EvalShares
  <2>10. EvalOnly' BY <1>2, <2>3 DEF EvalOnly
  <2> QED BY <1>2, <2>1, <2>4, <2>7, <2>8, <2>9, <2>10
<1> QED BY <1>1, <1>2 DEF On

\* The batch is given back after its step ...
LEMMA GiveBackInv == ASSUME TrainerInv, GiveBack PROVE TrainerInv'
<1> USE DEF TrainerInv
<1>1. /\ pc = "release" /\ On(Release(batch), E!Release(batch))
      /\ pc' \in {IF call = "eval" THEN "destroy" ELSE "prefetch", "prefetch"}
      /\ UNCHANGED <<call, asked, open, refused>>
  BY DEF GiveBack
<1>2. /\ Loaders' /\ OneNumber' /\ Shared' /\ EvalOnly' /\ SameStep(use, use')
      /\ IF call = "train"
         THEN /\ batch \in Slot /\ state[batch] \in {"IN_USE", "RETIRED"}
              /\ state' = [state EXCEPT ![batch] = "FREE"]
         ELSE state' = state
  BY <1>1, ReleasedKeeps DEF InHand
<1>3. Control' BY <1>1 DEF Control, TrainerPC, InHand, Calls
<1>4. OneHanded'
  <2>1. state \in [Slot -> BatchState] BY DEF Loaders, LoaderOK
  <2> QED BY <1>1, <1>2, <2>1 DEF OneHanded
<1>5. OneStep' BY <1>1, <1>2, StillOneStep
<1> QED BY <1>2, <1>3, <1>4, <1>5

\* ... or after an error, unless its step is still open.
LEMMA CleanupInv == ASSUME TrainerInv, Cleanup PROVE TrainerInv'
<1> USE DEF TrainerInv
<1>1. /\ pc = "cleanup" /\ UNCHANGED <<left, asked, open, refused>>
      /\ IF call = "train" THEN pc' = "idle" /\ call' = "none"
                           ELSE pc' = "destroy" /\ UNCHANGED <<call, batch>>
  BY DEF Cleanup, Leave, Goto
<1>2. call \in {"train", "eval"} BY <1>1 DEF Control, Calls, Cleanup, On
<1>3. Control' BY <1>1, <1>2 DEF Control, TrainerPC, InHand, Calls
<1>4. CASE HandState = "IN_STEP" /\ NoLoader
  <2>1. Resting /\ use' = use /\ UNCHANGED <<eWpc, eCpc>>
    BY <1>4, AsleepIsWoken
    DEF Resting, NoLoader, trainLoader, batchVars, queueVars, workerVars, evalLoader, evalQueue
  <2>2. OneHanded' BY <1>1, <1>2, <1>4, <2>1 DEF OneHanded, Resting, HandState
  <2>3. EvalOnly' BY <1>1, <1>2, <2>1 DEF EvalOnly, Resting
  <2>4. Opened' <=> Opened BY <1>1, <1>2 DEF Opened
  <2> QED BY <1>3, <2>1, <2>2, <2>3, <2>4, RestingInv
<1>5. CASE On(Release(batch), E!Release(batch))
  <2>1. /\ Loaders' /\ OneNumber' /\ Shared' /\ EvalOnly' /\ SameStep(use, use')
        /\ IF call = "train"
           THEN /\ batch \in Slot /\ state[batch] \in {"IN_USE", "RETIRED"}
                /\ state' = [state EXCEPT ![batch] = "FREE"]
           ELSE state' = state
    BY <1>1, <1>2, <1>5, ReleasedKeeps DEF InHand
  <2>2. state \in [Slot -> BatchState] BY DEF Loaders, LoaderOK
  <2>3. OneHanded' BY <1>1, <1>2, <2>1, <2>2 DEF OneHanded
  <2>4. OneStep' BY <1>1, <1>2, <2>1, StillOneStep
  <2> QED BY <1>3, <2>1, <2>3, <2>4
<1> QED BY <1>4, <1>5 DEF Cleanup

----------------------------------------------------------------------------
(* The theorems.                                                           *)

\* The program starts with the invariant ...
LEMMA InitInv == ASSUME TrainerInit PROVE TrainerInv
<1>1. /\ use = [b \in Buffers |-> "free"]
      /\ state = [s \in Slot |-> "FREE"] /\ seq = [s \in Slot |-> 0]
      /\ data = [s \in Slot |-> NoBuffer] /\ nextSeq = 0
      /\ wpc = [w \in Workers |-> "check"] /\ wslot = [w \in Workers |-> 0]
  BY DEF TrainerInit, Init
<1>2. /\ eState = [s \in E!Slot |-> "FREE"] /\ eData = [s \in E!Slot |-> NoBuffer]
      /\ eWpc = [w \in EvalWorkers |-> "exited"] /\ eWslot = [w \in EvalWorkers |-> 0]
      /\ pc = "idle" /\ call = "none" /\ open = "none" /\ refused = FALSE
  BY DEF TrainerInit
<1>3. Loaders BY <1>1, <1>2 DEF Loaders, LoaderOK, HasBatch, BatchState, WorkerPC
<1>4. Control BY <1>2 DEF Control, TrainerPC, Calls, InHand
<1>5. OneHanded BY <1>1, <1>2 DEF OneHanded
<1>6. OneNumber BY <1>1 DEF OneNumber
<1>7. EvalOnly BY <1>2 DEF EvalOnly
<1>8. Shared /\ OneStep BY <1>1, <1>2 DEF Shared, OneStep, Uses
<1> QED BY <1>3, <1>4, <1>5, <1>6, <1>7, <1>8 DEF TrainerInv

\* ... and every step preserves it.
LEMMA StepInv == ASSUME TrainerInv, [TrainerNext]_allVars PROVE TrainerInv'
<1>1. CASE InCall
  BY <1>1, WaitsInv, CallsInv, DeliveredInv, BeginInv, BeginFailedInv, EndInv, GiveBackInv,
     CleanupInv, DestroyInv, EvalEndsInv
  DEF InCall
<1>2. CASE UserPrefetch \/ CallTrain \/ CallEval BY <1>2, CallsInv, EvalEndsInv
<1>3. CASE \E w \in Workers : TrainWorker(w) BY <1>3, TrainWorkerInv
<1>4. CASE \E w \in EvalWorkers : EvalWorker(w) BY <1>4, EvalWorkerInv
<1>5. CASE Device \/ UNCHANGED allVars BY <1>5, DeviceInv
<1> QED BY <1>1, <1>2, <1>3, <1>4, <1>5 DEF TrainerNext

\* At every moment of every run each slot of the ring that the host holds is a
\* batch's of one loader or the other, at most one batch is in hand and at most
\* one slot in a step, whatever gd_train_batch and gd_eval_mean_loss have failed
\* at.
THEOREM TrainerInvariance == TrainerSpec => []TrainerInv
<1>1. TrainerInit => TrainerInv BY InitInv
<1>2. TrainerInv /\ [TrainerNext]_allVars => TrainerInv' BY StepInv
<1> QED BY <1>1, <1>2, PTL DEF TrainerSpec

\* Between two calls the invariant is CallsClean.
LEMMA CleanBetween == ASSUME TrainerInv PROVE CallsClean
<1> USE DEF TrainerInv
<1> SUFFICES ASSUME pc = "idle"
             PROVE  /\ InState("IN_USE") \cup InState("RETIRED") = {}
                    /\ InState("IN_STEP") # {} <=> open = "train"
                    /\ E!InState("FREE") = E!Slot
                    /\ \A b \in Buffers : use[b] \in {"host", "full"} =>
                         \E s \in InState("FILLING") \cup InState("READY") : data[s] = b
                    /\ Cardinality({b \in Buffers : use[b] = "step"}) = IF open = "none" THEN 0 ELSE 1
                    /\ open # "none" => refused
  BY DEF CallsClean
<1>1. call = "none" BY DEF Control
<1>2. InState("IN_USE") \cup InState("RETIRED") = {} BY <1>1 DEF OneHanded, InState
<1>3. InState("IN_STEP") # {} <=> open = "train" BY <1>1 DEF OneHanded, InState
<1>4. \A s \in E!Slot : eState[s] = "FREE" BY <1>1 DEF EvalOnly
<1>5. E!InState("FREE") = E!Slot BY <1>4 DEF E!InState
<1>6. ASSUME NEW b \in Buffers, use[b] \in {"host", "full"}
      PROVE  \E s \in InState("FILLING") \cup InState("READY") : data[s] = b
  <2>1. PICK s \in Slot : state[s] \in {"FILLING", "READY", "IN_USE"} /\ data[s] = b
    BY <1>4, <1>6 DEF Shared, Owner
  <2>2. state[s] # "IN_USE" BY <1>1 DEF OneHanded
  <2> QED BY <2>1, <2>2 DEF InState
<1>7. Cardinality({b \in Buffers : use[b] = "step"}) = IF open = "none" THEN 0 ELSE 1
  <2>1. CASE open = "none"
    <3>1. {b \in Buffers : use[b] = "step"} = {} BY <2>1 DEF OneStep
    <3> QED BY <2>1, <3>1, FS_EmptySet
  <2>2. CASE open # "none"
    <3>1. PICK b \in Buffers : \A c \in Buffers : use[c] = "step" <=> c = b
      BY <2>2 DEF OneStep
    <3>2. {c \in Buffers : use[c] = "step"} = {b} BY <3>1
    <3> QED BY <2>2, <3>2, FS_Singleton
  <2> QED BY <2>1, <2>2
<1>8. open # "none" => refused BY DEF Control
<1> QED BY <1>2, <1>3, <1>5, <1>6, <1>7, <1>8

\* Whatever failed in gd_train_batch and gd_eval_mean_loss (trainer.c), between
\* two calls nothing is left in hand: no batch, no slot of the ring, no loader
\* of an evaluation, and a step is open only if it could not be ended.
THEOREM AlwaysClean == TrainerSpec => []CallsClean
BY TrainerInvariance, CleanBetween, PTL
=============================================================================
