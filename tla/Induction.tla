------------------------------ MODULE Induction ------------------------------
(***************************************************************************)
(* What the proofs share: induction over the natural numbers and over      *)
(* finite sets, and functions defined by recursion, stated with sets and   *)
(* functions where the library has operators as parameters, resting on the *)
(* well-foundedness of < alone; powers of two; and quotients.              *)
(***************************************************************************)
EXTENDS Integers, WellFoundedInduction, FiniteSetTheorems, FunctionTheorems, TLAPS

(* A set of numbers that is not empty has a least element. *)
LEMMA LeastNumber ==
  ASSUME NEW S, S \subseteq Nat, S # {}
  PROVE  \E m \in S : \A k \in S : m <= k
<1> DEFINE Less == {ss \in Nat \X Nat : ss[1] < ss[2]}
<1>1. IsWellFoundedOn(Less, Nat)
  BY NatLessThanWellFounded DEF OpToRel
<1>2. PICK m \in S : \A k \in S : ~(<<k, m>> \in Less)
  <2> HIDE DEF Less
  <2> QED BY <1>1, WFMin
<1>3. \A k \in S : ~(k < m)
  BY <1>2
<1> QED BY <1>3

(* Induction, over the numbers that have the property. *)
LEMMA Induct ==
  ASSUME NEW S, 0 \in S, \A k \in Nat : k \in S => k + 1 \in S
  PROVE  \A k \in Nat : k \in S
<1> SUFFICES ASSUME Nat \ S # {} PROVE FALSE
  OBVIOUS
<1>1. PICK m \in Nat \ S : \A k \in Nat \ S : m <= k
  BY LeastNumber
<1>2. m - 1 \in Nat /\ m - 1 \in S /\ (m - 1) + 1 = m
  BY <1>1
<1> QED BY <1>1, <1>2

(* The same up to a bound. *)
LEMMA InductTo ==
  ASSUME NEW N \in Nat, NEW S, 0 \in S, \A k \in 0 .. N - 1 : k \in S => k + 1 \in S
  PROVE  \A k \in 0 .. N : k \in S
<1> DEFINE Yes == {k \in Nat : k \in 0 .. N => k \in S}
<1>1. 0 \in Yes
  OBVIOUS
<1>2. ASSUME NEW k \in Nat, k \in Yes PROVE k + 1 \in Yes
  BY <1>2
<1>3. \A k \in Nat : k \in Yes
  <2> HIDE DEF Yes
  <2> QED BY <1>1, <1>2, Induct
<1> QED BY <1>3

(* Induction over the subsets of a finite set, element by element. *)
LEMMA InductSets ==
  ASSUME NEW S, IsFiniteSet(S), NEW Yes, {} \in Yes,
         \A T \in SUBSET S : \A a \in S \ T : T \in Yes => T \cup {a} \in Yes
  PROVE  \A T \in SUBSET S : T \in Yes
<1> DEFINE Sizes == {k \in Nat : \A T \in SUBSET S : Cardinality(T) = k => T \in Yes}
<1>1. 0 \in Sizes
  BY FS_EmptySet, FS_Subset
<1>2. ASSUME NEW k \in Nat, k \in Sizes PROVE k + 1 \in Sizes
  <2> SUFFICES ASSUME NEW T \in SUBSET S, Cardinality(T) = k + 1 PROVE T \in Yes
    OBVIOUS
  <2>1. IsFiniteSet(T)
    BY FS_Subset
  <2>2. PICK a : a \in T
    BY <2>1, FS_EmptySet
  <2>3. T \ {a} \in SUBSET S /\ Cardinality(T \ {a}) = k
    <3>1. Cardinality(T \ {a}) = Cardinality(T) - 1
      BY <2>1, <2>2, FS_RemoveElement
    <3> QED BY <3>1
  <2>4. T \ {a} \in Yes
    BY <1>2, <2>3
  <2>5. (T \ {a}) \cup {a} = T /\ a \in S \ (T \ {a})
    BY <2>2
  <2> QED BY <2>3, <2>4, <2>5
<1>3. \A k \in Nat : k \in Sizes
  <2> HIDE DEF Sizes
  <2> QED BY <1>1, <1>2, Induct
<1> QED BY <1>3, FS_Subset, FS_CardinalityType

(* A definition by recursion: a step from each value to the next one, and  *)
(* a function with a value at 0 that goes on with it.                      *)
IsStep(step, V)          == step \in [Nat \X V -> V]
Recurses(f, V, c, step) == /\ f \in [Nat -> V] /\ f[0] = c
                           /\ \A n \in Nat : f[n + 1] = step[<<n, f[n]>>]

(* There is such a function. *)
LEMMA Recursion ==
  ASSUME NEW V, NEW c, NEW step, c \in V, IsStep(step, V)
  PROVE  \E f : Recurses(f, V, c, step)
<1>0. step \in [Nat \X V -> V] /\ c \in V
  BY DEF IsStep
<1> DEFINE Upto(f, N) == /\ f \in [0 .. N -> V] /\ f[0] = c
                         /\ \A n \in 0 .. N - 1 : f[n + 1] = step[<<n, f[n]>>]
           Agree == {N \in Nat : \A f, g : Upto(f, N) /\ Upto(g, N) => f[N] = g[N]}
           Have  == {N \in Nat : \E f : Upto(f, N)}
<1>1. \A N \in Nat : N \in Have
  <2>1. 0 \in Have
    <3>1. Upto([n \in 0 .. 0 |-> c], 0)
      BY <1>0
    <3> QED BY <3>1
  <2>2. ASSUME NEW N \in Nat, N \in Have PROVE N + 1 \in Have
    <3>1. PICK f : Upto(f, N)
      BY <2>2
    <3> DEFINE g == [n \in 0 .. N + 1 |-> IF n = N + 1 THEN step[<<N, f[N]>>] ELSE f[n]]
    <3>2. f[N] \in V /\ step[<<N, f[N]>>] \in V
      BY <3>1, <1>0
    <3>3. g \in [0 .. N + 1 -> V] /\ g[0] = c
      BY <3>1, <3>2
    <3>4. ASSUME NEW n \in 0 .. (N + 1) - 1 PROVE g[n + 1] = step[<<n, g[n]>>]
      <4>1. CASE n = N
        <5>1. N \in 0 .. N + 1 /\ N + 1 \in 0 .. N + 1 /\ N # N + 1
          OBVIOUS
        <5>2. g[N] = f[N] /\ g[N + 1] = step[<<N, f[N]>>]
          BY <5>1
        <5> QED BY <4>1, <5>2
      <4>2. CASE n # N
        <5>1. n \in 0 .. N - 1 /\ n + 1 \in 0 .. N + 1 /\ n + 1 # N + 1 /\ n \in 0 .. N + 1 /\ n # N + 1
          BY <4>2
        <5>2. f[n + 1] = step[<<n, f[n]>>]
          BY <3>1, <5>1
        <5>3. g[n + 1] = f[n + 1] /\ g[n] = f[n]
          BY <5>1
        <5> QED BY <5>2, <5>3
      <4> QED BY <4>1, <4>2
    <3>5. Upto(g, N + 1)
      <4> HIDE DEF g
      <4> QED BY <3>3, <3>4
    <3> HIDE DEF g, Upto
    <3> QED BY <3>5
  <2> HIDE DEF Have
  <2> QED BY <2>1, <2>2, Induct
<1>2. \A N \in Nat : N \in Agree
  <2>1. 0 \in Agree
    OBVIOUS
  <2>2. ASSUME NEW N \in Nat, N \in Agree PROVE N + 1 \in Agree
    <3> SUFFICES ASSUME NEW f, NEW g, Upto(f, N + 1), Upto(g, N + 1) PROVE f[N + 1] = g[N + 1]
      OBVIOUS
    <3> DEFINE a == [n \in 0 .. N |-> f[n]]
               b == [n \in 0 .. N |-> g[n]]
    <3>1. Upto(a, N) /\ Upto(b, N)
      OBVIOUS
    <3>2. a[N] = f[N] /\ b[N] = g[N]
      OBVIOUS
    <3>3. a[N] = b[N]
      <4> HIDE DEF Upto, a, b
      <4> QED BY <2>2, <3>1
    <3>4. f[N] = g[N]
      BY <3>2, <3>3
    <3>5. N \in 0 .. (N + 1) - 1
      OBVIOUS
    <3>6. f[N + 1] = step[<<N, f[N]>>] /\ g[N + 1] = step[<<N, g[N]>>]
      BY <3>5
    <3> QED BY <3>4, <3>6
  <2> HIDE DEF Agree
  <2> QED BY <2>1, <2>2, Induct
<1> DEFINE F(N) == CHOOSE f : Upto(f, N)
           h == [N \in Nat |-> F(N)[N]]
<1>3. ASSUME NEW N \in Nat PROVE Upto(F(N), N)
  <2>1. \E f : Upto(f, N)
    BY <1>1
  <2> HIDE DEF Upto
  <2> QED BY <2>1
<1>4. \A N \in Nat : h[N] = F(N)[N]
  OBVIOUS
<1>5. h \in [Nat -> V]
  <2>1. ASSUME NEW N \in Nat PROVE F(N)[N] \in V
    <3>1. F(N) \in [0 .. N -> V]
      BY <1>3
    <3> HIDE DEF F
    <3> QED BY <3>1
  <2> HIDE DEF F
  <2> QED BY <2>1
<1>6. h[0] = c
  <2>1. F(0)[0] = c
    BY <1>3
  <2> HIDE DEF F, h
  <2> QED BY <2>1, <1>4
<1>7. ASSUME NEW N \in Nat PROVE h[N + 1] = step[<<N, h[N]>>]
  <2>1. PICK f : f = F(N + 1)
    OBVIOUS
  <2>2. PICK g : g = F(N)
    OBVIOUS
  <2>3. Upto(f, N + 1) /\ Upto(g, N)
    <3> HIDE DEF F, Upto
    <3>1. Upto(F(N), N)
      BY <1>3
    <3>2. PICK K \in Nat : K = N + 1
      OBVIOUS
    <3>3. Upto(F(K), K)
      BY ONLY <1>3
    <3> QED BY ONLY <3>1, <3>2, <3>3, <2>1, <2>2
  <2> HIDE DEF F
  <2> DEFINE a == [n \in 0 .. N |-> f[n]]
  <2>4. Upto(a, N) /\ a[N] = f[N]
    <3>1. /\ f \in [0 .. N + 1 -> V] /\ f[0] = c
          /\ \A n \in 0 .. (N + 1) - 1 : f[n + 1] = step[<<n, f[n]>>]
      BY <2>3
    <3>2. \A n \in 0 .. N : n \in 0 .. N + 1
      OBVIOUS
    <3>3. a \in [0 .. N -> V]
      BY ONLY <3>1, <3>2 DEF a
    <3>4. 0 \in 0 .. N /\ N \in 0 .. N
      OBVIOUS
    <3>5. \A n \in 0 .. N - 1 : n \in 0 .. N /\ n + 1 \in 0 .. N /\ n \in 0 .. (N + 1) - 1
      OBVIOUS
    <3>6. \A n \in 0 .. N - 1 : a[n + 1] = step[<<n, a[n]>>]
      BY ONLY <3>1, <3>5 DEF a
    <3>7. a[0] = c /\ a[N] = f[N]
      BY ONLY <3>1, <3>4 DEF a
    <3> QED BY ONLY <3>3, <3>6, <3>7 DEF Upto
  <2>5. a[N] = g[N]
    <3> HIDE DEF Upto, a
    <3>1. N \in Agree
      BY <1>2
    <3> QED BY <3>1, <2>3, <2>4
  <2>6. N \in 0 .. (N + 1) - 1
    OBVIOUS
  <2>7. f[N + 1] = step[<<N, f[N]>>]
    BY <2>3, <2>6
  <2>8. h[N] = g[N] /\ h[N + 1] = f[N + 1]
    BY <1>4, <2>1, <2>2
  <2> QED BY <2>4, <2>5, <2>7, <2>8
<1> HIDE DEF h
<1> QED BY <1>5, <1>6, <1>7 DEF Recurses

(* A function defined by recursion up to a bound. *)
RecursesTo(f, N, V, c, step) ==
  f \in [0 .. N -> V] /\ f[0] = c /\ \A k \in 0 .. N - 1 : f[k + 1] = step[f[k]]

LEMMA RecursionTo ==
  ASSUME NEW V, NEW c \in V, NEW step \in [V -> V], NEW N \in Nat
  PROVE  \E f : RecursesTo(f, N, V, c, step)
<1> DEFINE Have == {m \in Nat : \E f : RecursesTo(f, m, V, c, step)}
<1>1. 0 \in Have
  <2>1. RecursesTo([k \in 0 .. 0 |-> c], 0, V, c, step)
    BY DEF RecursesTo
  <2> QED BY <2>1
<1>2. ASSUME NEW m \in Nat, m \in Have PROVE m + 1 \in Have
  <2>1. PICK f : RecursesTo(f, m, V, c, step)
    BY <1>2
  <2>2. f \in [0 .. m -> V] /\ f[0] = c /\ \A k \in 0 .. m - 1 : f[k + 1] = step[f[k]]
    BY <2>1 DEF RecursesTo
  <2> DEFINE g == [k \in 0 .. m + 1 |-> IF k = m + 1 THEN step[f[m]] ELSE f[k]]
  <2>3. g \in [0 .. m + 1 -> V] /\ g[0] = c
    BY <2>2
  <2>4. ASSUME NEW k \in 0 .. (m + 1) - 1 PROVE g[k + 1] = step[g[k]]
    <3>1. CASE k = m
      <4>1. g[m] = f[m] /\ g[m + 1] = step[f[m]]
        OBVIOUS
      <4> QED BY <3>1, <4>1
    <3>2. CASE k # m
      <4>1. k \in 0 .. m - 1 /\ k \in 0 .. m + 1 /\ k + 1 \in 0 .. m + 1 /\ k # m + 1 /\ k + 1 # m + 1
        BY <3>2
      <4>2. g[k] = f[k] /\ g[k + 1] = f[k + 1]
        BY <4>1
      <4>3. f[k + 1] = step[f[k]]
        BY <2>2, <4>1
      <4> QED BY <4>2, <4>3
    <3> QED BY <3>1, <3>2
  <2>5. RecursesTo(g, m + 1, V, c, step)
    <3> HIDE DEF g
    <3> QED BY <2>3, <2>4 DEF RecursesTo
  <2> HIDE DEF g
  <2> QED BY <2>5
<1>3. \A m \in Nat : m \in Have
  <2> HIDE DEF Have
  <2> QED BY <1>1, <1>2, Induct
<1> QED BY <1>3

(* A loop, up from 0 and down to 1, with a step that depends on where it   *)
(* is.                                                                     *)
LoopsTo(f, N, V, c, step)   == /\ f \in [0 .. N -> V] /\ f[0] = c
                               /\ \A k \in 0 .. N - 1 : f[k + 1] = step[<<k, f[k]>>]
LoopsFrom(f, N, V, c, step) == /\ f \in [1 .. N + 1 -> V] /\ f[N + 1] = c
                               /\ \A k \in 1 .. N : f[k] = step[<<k, f[k + 1]>>]

LEMMA Loops ==
  ASSUME NEW N \in Nat, NEW V, NEW c \in V, NEW step \in [(0 .. N - 1) \X V -> V]
  PROVE  \E f : LoopsTo(f, N, V, c, step)
<1> DEFINE all == [p \in Nat \X V |-> IF p[1] \in 0 .. N - 1 THEN step[p] ELSE p[2]]
<1>1. IsStep(all, V)
  <2>1. ASSUME NEW k \in Nat, NEW v \in V PROVE (IF k \in 0 .. N - 1 THEN step[<<k, v>>] ELSE v) \in V
    OBVIOUS
  <2>2. ASSUME NEW p \in Nat \X V PROVE (IF p[1] \in 0 .. N - 1 THEN step[p] ELSE p[2]) \in V
    <3>1. PICK k \in Nat, v \in V : p = <<k, v>>
      OBVIOUS
    <3> QED BY <3>1, <2>1
  <2> QED BY <2>2 DEF IsStep
<1>2. PICK f : Recurses(f, V, c, all)
  <2> HIDE DEF all
  <2> QED BY <1>1, Recursion
<1>3. f \in [Nat -> V] /\ f[0] = c /\ \A k \in Nat : f[k + 1] = all[<<k, f[k]>>]
  <2> HIDE DEF all
  <2> QED BY <1>2 DEF Recurses
<1>4. ASSUME NEW k \in 0 .. N - 1 PROVE f[k + 1] = step[<<k, f[k]>>]
  <2>1. f[k] \in V /\ k \in Nat
    BY <1>3
  <2>2. all[<<k, f[k]>>] = step[<<k, f[k]>>]
    BY <2>1
  <2> QED BY <1>3, <2>1, <2>2
<1> DEFINE g == [k \in 0 .. N |-> f[k]]
<1>5. g \in [0 .. N -> V] /\ g[0] = c
  BY <1>3
<1>6. ASSUME NEW k \in 0 .. N - 1 PROVE g[k + 1] = step[<<k, g[k]>>]
  BY <1>4
<1> HIDE DEF g
<1> QED BY <1>5, <1>6 DEF LoopsTo

LEMMA LoopsDown ==
  ASSUME NEW N \in Nat, NEW V, NEW c \in V, NEW step \in [(1 .. N) \X V -> V]
  PROVE  \E f : LoopsFrom(f, N, V, c, step)
<1> DEFINE up == [p \in (0 .. N - 1) \X V |-> step[<<N - p[1], p[2]>>]]
<1>1. up \in [(0 .. N - 1) \X V -> V]
  <2>1. ASSUME NEW k \in 0 .. N - 1, NEW v \in V PROVE step[<<N - k, v>>] \in V
    <3>1. N - k \in 1 .. N
      OBVIOUS
    <3> QED BY <3>1
  <2>2. ASSUME NEW p \in (0 .. N - 1) \X V PROVE step[<<N - p[1], p[2]>>] \in V
    <3>1. PICK k \in 0 .. N - 1, v \in V : p = <<k, v>>
      OBVIOUS
    <3> QED BY <3>1, <2>1
  <2> QED BY <2>2
<1>2. PICK f : LoopsTo(f, N, V, c, up)
  <2> HIDE DEF up
  <2> QED BY <1>1, Loops
<1> DEFINE g == [k \in 1 .. N + 1 |-> f[N + 1 - k]]
<1>3. g \in [1 .. N + 1 -> V]
  <2>1. ASSUME NEW k \in 1 .. N + 1 PROVE N + 1 - k \in 0 .. N
    OBVIOUS
  <2> QED BY <1>2, <2>1 DEF LoopsTo
<1>4. g[N + 1] = c
  BY <1>2 DEF LoopsTo
<1>5. ASSUME NEW k \in 1 .. N PROVE g[k] = step[<<k, g[k + 1]>>]
  <2>1. N - k \in 0 .. N - 1 /\ (N - k) + 1 = N + 1 - k /\ N - (N - k) = k /\ N + 1 - (k + 1) = N - k
        /\ k \in 1 .. N + 1 /\ k + 1 \in 1 .. N + 1 /\ N - k \in 0 .. N
    OBVIOUS
  <2>2. f[N + 1 - k] = up[<<N - k, f[N - k]>>] /\ f[N - k] \in V
    BY <1>2, <2>1 DEF LoopsTo
  <2>3. up[<<N - k, f[N - k]>>] = step[<<k, f[N - k]>>]
    BY <2>1, <2>2
  <2>4. g[k] = f[N + 1 - k] /\ g[k + 1] = f[N - k]
    BY <2>1
  <2> QED BY <2>2, <2>3, <2>4
<1> HIDE DEF g
<1> QED BY <1>3, <1>4, <1>5 DEF LoopsFrom
-------------------------------------------------------------------------------
LEMMA Counted == ASSUME NEW n \in Nat PROVE IsFiniteSet(1 .. n) /\ Cardinality(1 .. n) = n
BY FS_Interval

(* Powers of two, from the number of subsets that a set has. *)
LEMMA Subsets ==
  ASSUME NEW n \in Nat
  PROVE  IsFiniteSet(SUBSET (1 .. n)) /\ Cardinality(SUBSET (1 .. n)) = 2^n
BY Counted, FS_SUBSET

LEMMA TwoPower ==
  ASSUME NEW n \in Nat
  PROVE  2^n \in Nat /\ 2^n >= 1 /\ 2^(n + 1) = 2 * 2^n
<1>1. 2^n \in Nat /\ 2^n >= 1
  <2>1. Cardinality(SUBSET (1 .. n)) \in Nat
    BY Subsets, FS_CardinalityType
  <2>2. {} \in SUBSET (1 .. n)
    OBVIOUS
  <2>3. Cardinality(SUBSET (1 .. n)) # 0
    BY <2>2, Subsets, FS_EmptySet
  <2> QED BY <2>1, <2>3, Subsets
<1> DEFINE Old == SUBSET (1 .. n)
           New == {T \cup {n + 1} : T \in Old}
           f   == [T \in Old |-> T \cup {n + 1}]
<1>2. f \in Bijection(Old, New)
  <2>1. \A T \in Old : n + 1 \notin T
    OBVIOUS
  <2>2. \A T, U \in Old : T \cup {n + 1} = U \cup {n + 1} => T = U
    BY <2>1
  <2>3. f \in [Old -> New]
    OBVIOUS
  <2>4. \A W \in New : \E T \in Old : f[T] = W
    OBVIOUS
  <2>5. \A T, U \in Old : f[T] = f[U] => T = U
    BY <2>2
  <2> HIDE DEF f, New, Old
  <2> QED BY <2>3, <2>4, <2>5 DEF Bijection, Injection, Surjection, IsInjective
<1>3. IsFiniteSet(Old) /\ Cardinality(Old) = 2^n
  BY Subsets
<1>4. IsFiniteSet(New) /\ Cardinality(New) = 2^n
  <2>1. ExistsBijection(Old, New)
    <3> HIDE DEF f, New, Old
    <3> QED BY <1>2 DEF ExistsBijection
  <2> HIDE DEF New, Old
  <2> QED BY <2>1, <1>3, FS_Bijection
<1>5. Old \cap New = {}
  OBVIOUS
<1>6. Old \cup New = SUBSET (1 .. n + 1)
  <2>1. \A T \in SUBSET (1 .. n + 1) : n + 1 \notin T => T \in Old
    OBVIOUS
  <2>2. ASSUME NEW T \in SUBSET (1 .. n + 1), n + 1 \in T PROVE T \in New
    <3>1. T \ {n + 1} \in Old /\ (T \ {n + 1}) \cup {n + 1} = T
      BY <2>2
    <3> QED BY <3>1
  <2>3. \A T \in Old : T \in SUBSET (1 .. n + 1) /\ T \cup {n + 1} \in SUBSET (1 .. n + 1)
    OBVIOUS
  <2> HIDE DEF Old
  <2>4. New \subseteq SUBSET (1 .. n + 1)
    BY <2>3
  <2>5. SUBSET (1 .. n + 1) \subseteq Old \cup New
    BY <2>1, <2>2
  <2>6. Old \subseteq SUBSET (1 .. n + 1)
    BY <2>3
  <2> QED BY <2>4, <2>5, <2>6
<1>7. Cardinality(Old \cup New) = 2^n + 2^n
  <2> HIDE DEF New, Old
  <2>1. Cardinality(Old \cup New) = Cardinality(Old) + Cardinality(New) - Cardinality({})
    BY <1>3, <1>4, <1>5, FS_Union
  <2> QED BY <2>1, <1>1, <1>3, <1>4, FS_EmptySet
<1>8. Cardinality(SUBSET (1 .. n + 1)) = 2^(n + 1)
  <2>1. n + 1 \in Nat
    OBVIOUS
  <2> QED BY ONLY <2>1, Subsets
<1>9. 2^(n + 1) = 2^n + 2^n
  <2> HIDE DEF Old, New
  <2> QED BY <1>6, <1>7, <1>8
<1> QED BY ONLY <1>1, <1>9

LEMMA TwoToZero == 2^0 = 1
OBVIOUS

LEMMA TwoSum ==
  ASSUME NEW a \in Nat, NEW b \in Nat
  PROVE  2^(a + b) = 2^a * 2^b
<1> DEFINE Yes == {c \in Nat : 2^(a + c) = 2^a * 2^c}
<1>1. 0 \in Yes
  <2>1. a + 0 = a /\ 2^a \in Nat
    BY TwoPower
  <2> QED BY <2>1, TwoToZero
<1>2. ASSUME NEW c \in Nat, c \in Yes PROVE c + 1 \in Yes
  <2>1. 2^(a + c) = 2^a * 2^c /\ a + (c + 1) = (a + c) + 1 /\ a + c \in Nat
    BY <1>2
  <2>2. 2^((a + c) + 1) = 2 * 2^(a + c) /\ 2^(c + 1) = 2 * 2^c /\ 2^a \in Nat /\ 2^c \in Nat
    BY <2>1, TwoPower
  <2>3. 2 * (2^a * 2^c) = 2^a * (2 * 2^c)
    BY <2>2
  <2> QED BY <2>1, <2>2, <2>3
<1> HIDE DEF Yes
<1>3. \A c \in Nat : c \in Yes
  BY <1>1, <1>2, Induct
<1> QED BY <1>3 DEF Yes

LEMMA TwoGrows ==
  ASSUME NEW a \in Nat, NEW b \in Nat
  PROVE  (a <= b <=> 2^a <= 2^b) /\ (a < b <=> 2^a < 2^b)
<1>1. ASSUME NEW c \in Nat, NEW e \in Nat, c <= e PROVE 2^c <= 2^e /\ (c < e => 2^c < 2^e)
  <2>1. PICK x \in Nat : e = c + x
    <3>1. e - c \in Nat /\ e = c + (e - c)
      BY <1>1
    <3> QED BY <3>1
  <2>2. 2^e = 2^c * 2^x /\ 2^c \in Nat /\ 2^x \in Nat /\ 2^c >= 1 /\ 2^x >= 1
    BY <2>1, TwoSum, TwoPower
  <2>3. x # 0 => 2^x >= 2
    <3>1. CASE x # 0
      <4>1. x - 1 \in Nat /\ (x - 1) + 1 = x
        BY <3>1
      <4>2. 2^((x - 1) + 1) = 2 * 2^(x - 1) /\ 2^(x - 1) >= 1 /\ 2^(x - 1) \in Nat
        BY <4>1, TwoPower
      <4> QED BY <4>1, <4>2
    <3> QED BY <3>1
  <2>4. \A p, q \in Nat : (p >= 1 /\ q >= 1 => p * q >= p) /\ (p >= 1 /\ q >= 2 => p * q > p)
    OBVIOUS
  <2> QED BY <2>1, <2>2, <2>3, <2>4
<1>2. 2^a \in Nat /\ 2^b \in Nat
  BY TwoPower
<1>3. a <= b => 2^a <= 2^b
  BY <1>1
<1>4. a < b => 2^a < 2^b
  BY <1>1
<1>5. b < a => 2^b < 2^a
  BY <1>1
<1>6. b <= a => 2^b <= 2^a
  BY <1>1
<1> QED BY <1>2, <1>3, <1>4, <1>5, <1>6

(* The quotient of a number and the remainder. *)
LEMMA Quotients ==
  ASSUME NEW x \in Int, NEW k \in Nat, k >= 1
  PROVE  /\ x \div k \in Int /\ x % k \in 0 .. k - 1
         /\ x = (x \div k) * k + (x % k)
         /\ x \in Nat => x \div k \in Nat
OBVIOUS

LEMMA QuotientIs ==
  ASSUME NEW x \in Int, NEW k \in Nat, k >= 1, NEW q \in Int, NEW r \in 0 .. k - 1, x = q * k + r
  PROVE  x \div k = q /\ x % k = r
<1>1. /\ x \div k \in Int /\ x % k \in 0 .. k - 1
      /\ x = (x \div k) * k + (x % k)
  BY Quotients
<1>2. ASSUME NEW p \in Int, NEW s \in 0 .. k - 1, x = p * k + s PROVE p = q
  <2>1. (p - q) * k = r - s
    BY <1>2
  <2>2. p - q >= 1 => (p - q) * k >= k
    OBVIOUS
  <2>3. p - q <= -1 => (p - q) * k <= -k
    OBVIOUS
  <2> QED BY <2>1, <2>2, <2>3
<1>3. x \div k = q
  BY <1>1, <1>2
<1> QED BY <1>1, <1>3
==============================================================================
