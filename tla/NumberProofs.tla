---------------------------- MODULE NumberProofs ----------------------------
(***************************************************************************)
(* The operations on numbers compute what they stand for, at every width   *)
(* of a limb and every size: shifts, fields, division, and the digits in   *)
(* any base.                                                               *)
(***************************************************************************)
EXTENDS Numbers, Induction, SequenceTheorems

B == 2^LimbBits

LEMMA LimbIs ==
  /\ LimbBits \in Nat /\ LimbBits >= 1 /\ LimbBits <= 8
  /\ B \in Nat /\ B >= 2 /\ Limbs = 0 .. B - 1
<1>1. LimbBits \in Nat /\ LimbBits >= 1 /\ LimbBits <= 8
  BY LimbAssumption, NumbersAssumption
<1>2. B \in Nat /\ B >= 2
  <2>1. LimbBits - 1 \in Nat /\ (LimbBits - 1) + 1 = LimbBits
    BY <1>1
  <2>2. 2^((LimbBits - 1) + 1) = 2 * 2^(LimbBits - 1) /\ 2^(LimbBits - 1) \in Nat /\ 2^(LimbBits - 1) >= 1
    BY <2>1, TwoPower
  <2> QED BY <2>1, <2>2 DEF B
<1> QED BY <1>1, <1>2 DEF Limbs, B

(* What a place is worth: 2 to the number of bits below it. *)
Place(n) == 2^(LimbBits * n)

LEMMA Places ==
  ASSUME NEW n \in Nat
  PROVE  Place(n) \in Nat /\ Place(n) >= 1 /\ Place(n + 1) = Place(n) * B
<1>1. LimbBits * n \in Nat /\ LimbBits \in Nat
  BY LimbIs
<1>2. LimbBits * (n + 1) = LimbBits * n + LimbBits
  BY <1>1
<1>3. 2^(LimbBits * n + LimbBits) = 2^(LimbBits * n) * 2^LimbBits
  BY <1>1, TwoSum
<1> QED BY <1>1, <1>2, <1>3, TwoPower DEF Place, B

LEMMA FirstPlace == Place(0) = 1 /\ Place(1) = B /\ Place(2) = B * B
<1>1. Place(0) = 1
  <2>1. LimbBits * 0 = 0
    BY LimbIs
  <2> QED BY <2>1, TwoToZero DEF Place
<1>2. Place(0 + 1) = Place(0) * B /\ Place(1 + 1) = Place(1) * B
  BY Places
<1> QED BY <1>1, <1>2, LimbIs

-----------------------------------------------------------------------------
(* The value of the first k digits, for every k. *)
PrefixRuns(U, n, d, r) == /\ U \in [0 .. n -> Int] /\ U[0] = 0
                          /\ \A k \in 0 .. n - 1 : U[k + 1] = U[k] * r + d[k + 1]

LEMMA NumberRuns ==
  ASSUME NEW n \in Nat, NEW d \in [1 .. n -> Int], NEW r \in Int
  PROVE  \E U : PrefixRuns(U, n, d, r) /\ NumberOf(d, r) = U[n]
<1> DEFINE step == [p \in (0 .. n - 1) \X Int |-> p[2] * r + d[p[1] + 1]]
           Loop(f) == f = [k \in 0 .. Len(d) |-> IF k = 0 THEN 0 ELSE f[k - 1] * r + d[k]]
           loop == CHOOSE f : Loop(f)
<1>0. Len(d) = n
  BY LenProperties
<1>1. step \in [(0 .. n - 1) \X Int -> Int]
  <2>1. ASSUME NEW k \in 0 .. n - 1, NEW v \in Int PROVE v * r + d[k + 1] \in Int
    <3>1. k + 1 \in 1 .. n
      OBVIOUS
    <3> QED BY <3>1
  <2>2. ASSUME NEW p \in (0 .. n - 1) \X Int PROVE p[2] * r + d[p[1] + 1] \in Int
    <3>1. PICK k \in 0 .. n - 1, v \in Int : p = <<k, v>>
      OBVIOUS
    <3> QED BY <3>1, <2>1
  <2> QED BY <2>2
<1>2. PICK f : LoopsTo(f, n, Int, 0, step)
  <2> HIDE DEF step
  <2>1. 0 \in Int /\ n \in Nat
    OBVIOUS
  <2> QED BY ONLY <1>1, <2>1, Loops, Zenon
<1>3. f \in [0 .. n -> Int] /\ f[0] = 0
  BY <1>2 DEF LoopsTo
<1>4. ASSUME NEW k \in 0 .. n - 1 PROVE f[k + 1] = f[k] * r + d[k + 1]
  <2>1. f[k + 1] = step[<<k, f[k]>>]
    <3> HIDE DEF step
    <3> QED BY <1>2 DEF LoopsTo
  <2>2. f[k] \in Int
    BY <1>3
  <2> QED BY <2>1, <2>2
<1>5. Loop(f)
  <2>1. ASSUME NEW k \in 0 .. n PROVE f[k] = IF k = 0 THEN 0 ELSE f[k - 1] * r + d[k]
    <3>1. CASE k # 0
      <4>1. k - 1 \in 0 .. n - 1 /\ (k - 1) + 1 = k
        BY <3>1
      <4> QED BY <1>4, <3>1, <4>1
    <3> QED BY <3>1, <1>3
  <2> QED BY <1>0, <1>3, <2>1
<1>6. Loop(loop)
  <2> HIDE DEF Loop
  <2> QED BY <1>5
<1>7. NumberOf(d, r) = loop[Len(d)]
  BY DEF NumberOf
<1>8. \A k \in 0 .. n : loop[k] = f[k]
  <2> DEFINE Yes == {k \in 0 .. n : loop[k] = f[k]}
  <2>0. loop = [k \in 0 .. n |-> IF k = 0 THEN 0 ELSE loop[k - 1] * r + d[k]]
    BY <1>0, <1>6
  <2> HIDE DEF loop
  <2>1. 0 \in Yes
    BY <1>3, <2>0
  <2>2. ASSUME NEW k \in 0 .. n - 1, k \in Yes PROVE k + 1 \in Yes
    <3>1. k + 1 \in 0 .. n /\ (k + 1) - 1 = k /\ k + 1 # 0
      OBVIOUS
    <3>2. loop[k + 1] = loop[k] * r + d[k + 1]
      BY <2>0, <3>1
    <3> QED BY <1>4, <2>2, <3>1, <3>2
  <2>3. \A k \in 0 .. n : k \in Yes
    <3> HIDE DEF Yes
    <3> QED BY <2>1, <2>2, InductTo
  <2> QED BY <2>3
<1> HIDE DEF loop
<1>9. NumberOf(d, r) = f[n]
  BY <1>0, <1>7, <1>8
<1> QED BY <1>3, <1>4, <1>9 DEF PrefixRuns

(* There is only one. *)
LEMMA NumberIs ==
  ASSUME NEW n \in Nat, NEW d \in [1 .. n -> Int], NEW r \in Int, NEW U, PrefixRuns(U, n, d, r)
  PROVE  NumberOf(d, r) = U[n]
<1>1. PICK W : PrefixRuns(W, n, d, r) /\ NumberOf(d, r) = W[n]
  BY NumberRuns
<1> DEFINE Yes == {k \in 0 .. n : U[k] = W[k]}
<1>2. 0 \in Yes
  BY <1>1 DEF PrefixRuns
<1>3. ASSUME NEW k \in 0 .. n - 1, k \in Yes PROVE k + 1 \in Yes
  BY <1>1, <1>3 DEF PrefixRuns
<1>4. \A k \in 0 .. n : k \in Yes
  <2> HIDE DEF Yes
  <2> QED BY <1>2, <1>3, InductTo
<1> QED BY <1>1, <1>4

LEMMA NumberInt ==
  ASSUME NEW n \in Nat, NEW d \in [1 .. n -> Int], NEW r \in Int
  PROVE  NumberOf(d, r) \in Int
BY NumberRuns DEF PrefixRuns

(* r^k *)
LEMMA PowerLaws ==
  ASSUME NEW r \in Nat, NEW k \in Nat
  PROVE  Power(r, k) \in Nat /\ Power(r, 0) = 1 /\ Power(r, k + 1) = Power(r, k) * r
<1> DEFINE step == [p \in (0 .. k) \X Nat |-> p[2] * r]
           Loop(N, f) == f = [j \in 0 .. N |-> IF j = 0 THEN 1 ELSE f[j - 1] * r]
           loop(N) == CHOOSE f : Loop(N, f)
<1>1. step \in [(0 .. (k + 1) - 1) \X Nat -> Nat]
  OBVIOUS
<1>2. PICK f : LoopsTo(f, k + 1, Nat, 1, step)
  <2> HIDE DEF step
  <2>1. 1 \in Nat /\ k + 1 \in Nat
    OBVIOUS
  <2> QED BY ONLY <1>1, <2>1, Loops, Zenon
<1>3. f \in [0 .. k + 1 -> Nat] /\ f[0] = 1
  BY <1>2 DEF LoopsTo
<1>4. ASSUME NEW j \in 0 .. k PROVE f[j + 1] = f[j] * r
  <2>1. f[j + 1] = step[<<j, f[j]>>]
    <3>1. j \in 0 .. (k + 1) - 1
      OBVIOUS
    <3> HIDE DEF step
    <3> QED BY <1>2, <3>1 DEF LoopsTo
  <2>2. f[j] \in Nat
    BY <1>3
  <2> QED BY <2>1, <2>2
<1>5. ASSUME NEW N \in 0 .. k + 1 PROVE Power(r, N) = f[N]
  <2> DEFINE g == [j \in 0 .. N |-> f[j]]
  <2>1. Loop(N, g)
    <3>1. ASSUME NEW j \in 0 .. N, j # 0 PROVE f[j] = g[j - 1] * r
      <4>1. j - 1 \in 0 .. k /\ (j - 1) + 1 = j /\ j - 1 \in 0 .. N
        BY <3>1
      <4> QED BY <1>4, <4>1
    <3> HIDE DEF g
    <3>2. g = [j \in 0 .. N |-> f[j]]
      BY DEF g
    <3> QED BY <1>3, <3>1, <3>2
  <2>2. Loop(N, loop(N))
    <3> HIDE DEF Loop, g
    <3> QED BY <2>1
  <2>3. Power(r, N) = loop(N)[N]
    BY DEF Power
  <2> DEFINE Yes == {j \in 0 .. N : loop(N)[j] = f[j]}
  <2> HIDE DEF loop
  <2>4. 0 \in Yes
    BY <1>3, <2>2
  <2>5. ASSUME NEW j \in 0 .. N - 1, j \in Yes PROVE j + 1 \in Yes
    <3>1. j + 1 \in 0 .. N /\ (j + 1) - 1 = j /\ j + 1 # 0 /\ j \in 0 .. k
      OBVIOUS
    <3>2. loop(N)[j + 1] = loop(N)[j] * r
      BY <2>2, <3>1
    <3> QED BY <1>4, <2>5, <3>1, <3>2
  <2>6. \A j \in 0 .. N : j \in Yes
    <3> HIDE DEF Yes
    <3>1. N \in Nat
      OBVIOUS
    <3> QED BY ONLY <2>4, <2>5, <3>1, InductTo
  <2> QED BY <2>3, <2>6
<1>6. 0 \in 0 .. k + 1 /\ k \in 0 .. k + 1 /\ k + 1 \in 0 .. k + 1 /\ k \in 0 .. k
  OBVIOUS
<1> HIDE DEF loop
<1>7. Power(r, 0) = f[0] /\ Power(r, k) = f[k] /\ Power(r, k + 1) = f[k + 1]
  BY <1>5, <1>6
<1> QED BY <1>3, <1>4, <1>6, <1>7

(* The value is linear in the digits, which may be any numbers here. *)
LEMMA NumberAdd ==
  ASSUME NEW n \in Nat, NEW d \in [1 .. n -> Int], NEW e \in [1 .. n -> Int], NEW r \in Int
  PROVE  NumberOf([k \in 1 .. n |-> d[k] + e[k]], r) = NumberOf(d, r) + NumberOf(e, r)
<1>1. PICK U : PrefixRuns(U, n, d, r) /\ NumberOf(d, r) = U[n]
  BY NumberRuns
<1>2. PICK W : PrefixRuns(W, n, e, r) /\ NumberOf(e, r) = W[n]
  BY NumberRuns
<1> DEFINE s == [k \in 1 .. n |-> d[k] + e[k]]
           Z == [k \in 0 .. n |-> U[k] + W[k]]
<1>3. Z \in [0 .. n -> Int] /\ Z[0] = 0
  BY <1>1, <1>2 DEF PrefixRuns
<1>4. ASSUME NEW k \in 0 .. n - 1 PROVE Z[k + 1] = Z[k] * r + s[k + 1]
  <2>1. k \in 0 .. n /\ k + 1 \in 0 .. n /\ k + 1 \in 1 .. n
    OBVIOUS
  <2>2. U[k + 1] = U[k] * r + d[k + 1] /\ W[k + 1] = W[k] * r + e[k + 1] /\ U[k] \in Int /\ W[k] \in Int
    BY <1>1, <1>2, <2>1 DEF PrefixRuns
  <2>3. \A u, w, x, y \in Int : (u * r + x) + (w * r + y) = (u + w) * r + (x + y)
    OBVIOUS
  <2> QED BY <2>1, <2>2, <2>3
<1>5. PrefixRuns(Z, n, s, r)
  <2> HIDE DEF Z, s
  <2> QED BY <1>3, <1>4 DEF PrefixRuns
<1>6. s \in [1 .. n -> Int]
  OBVIOUS
<1>7. NumberOf(s, r) = Z[n]
  <2> HIDE DEF Z, s
  <2> QED BY <1>5, <1>6, NumberIs
<1> QED BY <1>1, <1>2, <1>7

LEMMA NumberScale ==
  ASSUME NEW n \in Nat, NEW d \in [1 .. n -> Int], NEW c \in Int, NEW r \in Int
  PROVE  NumberOf([k \in 1 .. n |-> d[k] * c], r) = NumberOf(d, r) * c
<1>1. PICK U : PrefixRuns(U, n, d, r) /\ NumberOf(d, r) = U[n]
  BY NumberRuns
<1> DEFINE s == [k \in 1 .. n |-> d[k] * c]
           Z == [k \in 0 .. n |-> U[k] * c]
<1>3. Z \in [0 .. n -> Int] /\ Z[0] = 0
  BY <1>1 DEF PrefixRuns
<1>4. ASSUME NEW k \in 0 .. n - 1 PROVE Z[k + 1] = Z[k] * r + s[k + 1]
  <2>1. k \in 0 .. n /\ k + 1 \in 0 .. n /\ k + 1 \in 1 .. n
    OBVIOUS
  <2>2. U[k + 1] = U[k] * r + d[k + 1] /\ U[k] \in Int
    BY <1>1, <2>1 DEF PrefixRuns
  <2>3. \A u, x \in Int : (u * r + x) * c = (u * c) * r + x * c
    OBVIOUS
  <2> QED BY <2>1, <2>2, <2>3
<1>5. PrefixRuns(Z, n, s, r)
  <2> HIDE DEF Z, s
  <2> QED BY <1>3, <1>4 DEF PrefixRuns
<1>6. s \in [1 .. n -> Int]
  OBVIOUS
<1>7. NumberOf(s, r) = Z[n]
  <2> HIDE DEF Z, s
  <2> QED BY <1>5, <1>6, NumberIs
<1> QED BY <1>1, <1>7

(* Digits make numbers below the power of the base. *)
LEMMA NumberRange ==
  ASSUME NEW n \in Nat, NEW r \in Nat, r >= 1, NEW d \in [1 .. n -> 0 .. r - 1]
  PROVE  NumberOf(d, r) \in 0 .. Power(r, n) - 1
<1>0. d \in [1 .. n -> Int]
  OBVIOUS
<1>1. PICK U : PrefixRuns(U, n, d, r) /\ NumberOf(d, r) = U[n]
  BY <1>0, NumberRuns
<1> DEFINE Yes == {k \in 0 .. n : U[k] \in 0 .. Power(r, k) - 1}
<1>2. 0 \in Yes
  <2>1. Power(r, 0) = 1 /\ U[0] = 0
    BY <1>1, PowerLaws DEF PrefixRuns
  <2> QED BY <2>1
<1>3. ASSUME NEW k \in 0 .. n - 1, k \in Yes PROVE k + 1 \in Yes
  <2>1. k \in Nat /\ k + 1 \in 0 .. n /\ k + 1 \in 1 .. n
    OBVIOUS
  <2>2. U[k + 1] = U[k] * r + d[k + 1] /\ d[k + 1] \in 0 .. r - 1
    BY <1>1, <2>1 DEF PrefixRuns
  <2>3. Power(r, k) \in Nat /\ Power(r, k + 1) = Power(r, k) * r
    BY <2>1, PowerLaws
  <2>4. \A u, x, p \in Nat : u <= p - 1 /\ x <= r - 1 => u * r + x <= p * r - 1 /\ u * r + x >= 0
    <3> SUFFICES ASSUME NEW u \in Nat, NEW x \in Nat, NEW p \in Nat, u <= p - 1, x <= r - 1
                 PROVE  u * r + x <= p * r - 1 /\ u * r + x >= 0
      OBVIOUS
    <3>1. u * r <= (p - 1) * r /\ (p - 1) * r = p * r - r /\ u * r >= 0
      OBVIOUS
    <3> QED BY <3>1
  <2>5. U[k] \in 0 .. Power(r, k) - 1
    BY <1>3
  <2>6. U[k + 1] \in 0 .. Power(r, k + 1) - 1
    <3>1. U[k] \in Nat /\ U[k] <= Power(r, k) - 1 /\ d[k + 1] \in Nat /\ d[k + 1] <= r - 1
      BY <2>2, <2>3, <2>5
    <3>2. U[k] * r + d[k + 1] <= Power(r, k) * r - 1 /\ U[k] * r + d[k + 1] >= 0
      BY ONLY <2>3, <2>4, <3>1, Zenon
    <3>3. U[k] * r \in Nat /\ Power(r, k) * r \in Nat
      BY <3>1, <2>3
    <3> QED BY ONLY <2>2, <2>3, <3>1, <3>2, <3>3, SMTT(30)
  <2> QED BY <2>1, <2>6
<1>4. \A k \in 0 .. n : k \in Yes
  <2> HIDE DEF Yes
  <2> QED BY <1>2, <1>3, InductTo
<1> QED BY <1>1, <1>4

LEMMA PlaceIs == ASSUME NEW n \in Nat PROVE Power(B, n) = Place(n)
<1> DEFINE Yes == {k \in Nat : Power(B, k) = Place(k)}
<1>1. 0 \in Yes
  BY PowerLaws, FirstPlace, LimbIs
<1>2. ASSUME NEW k \in Nat, k \in Yes PROVE k + 1 \in Yes
  <2>1. Power(B, k + 1) = Power(B, k) * B /\ Place(k + 1) = Place(k) * B
    BY PowerLaws, Places, LimbIs
  <2> QED BY <1>2, <2>1
<1>3. \A k \in Nat : k \in Yes
  <2> HIDE DEF Yes
  <2> QED BY <1>1, <1>2, Induct
<1> QED BY <1>3

LEMMA ValueRange ==
  ASSUME NEW n \in Nat, NEW f \in NumbersOf(n)
  PROVE  Value(f) \in Nat /\ Value(f) < Place(n) /\ f \in [1 .. n -> Int] /\ Len(f) = n
<1>1. f \in [1 .. n -> 0 .. B - 1] /\ B \in Nat /\ B >= 1
  BY LimbIs DEF NumbersOf
<1>2. NumberOf(f, B) \in 0 .. Power(B, n) - 1
  BY <1>1, NumberRange
<1>3. Power(B, n) = Place(n) /\ Place(n) \in Nat
  BY PlaceIs, Places
<1>4. Value(f) = NumberOf(f, B)
  BY DEF Value, B
<1>5. Len(f) = n
  BY <1>1, LenProperties
<1>6. f \in [1 .. n -> Int]
  BY <1>1
<1> QED BY ONLY <1>2, <1>3, <1>4, <1>5, <1>6

(* The last digit, and the first one. *)
LEMMA NumberLast ==
  ASSUME NEW n \in Nat, NEW d \in [1 .. n + 1 -> Int], NEW r \in Int
  PROVE  NumberOf(d, r) = NumberOf([k \in 1 .. n |-> d[k]], r) * r + d[n + 1]
<1>1. PICK U : PrefixRuns(U, n + 1, d, r) /\ NumberOf(d, r) = U[n + 1]
  BY NumberRuns
<1> DEFINE s == [k \in 1 .. n |-> d[k]]
           Z == [k \in 0 .. n |-> U[k]]
<1>2. Z \in [0 .. n -> Int] /\ Z[0] = 0 /\ s \in [1 .. n -> Int]
  <2>1. \A k \in 0 .. n : k \in 0 .. n + 1
    OBVIOUS
  <2>2. \A k \in 1 .. n : k \in 1 .. n + 1
    OBVIOUS
  <2>3. U \in [0 .. n + 1 -> Int] /\ U[0] = 0
    BY <1>1 DEF PrefixRuns
  <2>4. Z \in [0 .. n -> Int] /\ Z[0] = 0
    BY <2>1, <2>3
  <2>5. s \in [1 .. n -> Int]
    BY <2>2
  <2> QED BY <2>4, <2>5
<1>3. ASSUME NEW k \in 0 .. n - 1 PROVE Z[k + 1] = Z[k] * r + s[k + 1]
  BY <1>1 DEF PrefixRuns
<1>4. PrefixRuns(Z, n, s, r)
  <2> HIDE DEF Z, s
  <2> QED BY <1>2, <1>3 DEF PrefixRuns
<1>5. NumberOf(s, r) = Z[n]
  <2> HIDE DEF Z, s
  <2> QED BY <1>2, <1>4, NumberIs
<1>6. U[n + 1] = U[n] * r + d[n + 1]
  BY <1>1 DEF PrefixRuns
<1> QED BY <1>1, <1>5, <1>6

LEMMA NumberFirst ==
  ASSUME NEW n \in Nat, NEW d \in [1 .. n + 1 -> Int], NEW r \in Nat
  PROVE  NumberOf(d, r) = d[1] * Power(r, n) + NumberOf([k \in 1 .. n |-> d[k + 1]], r)
<1>1. PICK U : PrefixRuns(U, n + 1, d, r) /\ NumberOf(d, r) = U[n + 1]
  BY NumberRuns
<1> DEFINE s == [k \in 1 .. n |-> d[k + 1]]
<1>2. s \in [1 .. n -> Int]
  OBVIOUS
<1>3. PICK W : PrefixRuns(W, n, s, r) /\ NumberOf(s, r) = W[n]
  <2> HIDE DEF s
  <2> QED BY <1>2, NumberRuns
<1> DEFINE Yes == {k \in 0 .. n : U[k + 1] = d[1] * Power(r, k) + W[k]}
<1>4. 0 \in Yes
  <2>1. 0 \in 0 .. (n + 1) - 1
    OBVIOUS
  <2>2. U[0 + 1] = U[0] * r + d[0 + 1] /\ U[0] = 0 /\ W[0] = 0 /\ Power(r, 0) = 1
    BY <1>1, <1>3, <2>1, PowerLaws DEF PrefixRuns
  <2> QED BY <2>2
<1>5. ASSUME NEW k \in 0 .. n - 1, k \in Yes PROVE k + 1 \in Yes
  <2>1. k + 1 \in 0 .. n /\ k + 1 \in 0 .. (n + 1) - 1 /\ k \in Nat /\ k + 1 \in 1 .. n /\ k \in 0 .. n
    OBVIOUS
  <2>2. U[(k + 1) + 1] = U[k + 1] * r + d[(k + 1) + 1]
    BY <1>1, <2>1 DEF PrefixRuns
  <2>3. W[k + 1] = W[k] * r + s[k + 1] /\ W[k] \in Int
    BY <1>3, <2>1 DEF PrefixRuns
  <2>4. s[k + 1] = d[(k + 1) + 1] /\ d[1] \in Int /\ d[(k + 1) + 1] \in Int
    BY <2>1
  <2>5. Power(r, k + 1) = Power(r, k) * r /\ Power(r, k) \in Nat
    BY <2>1, PowerLaws
  <2>6. U[k + 1] = d[1] * Power(r, k) + W[k]
    BY <1>5
  <2>7. \A a, p, w, x \in Int : (a * p + w) * r + x = a * (p * r) + (w * r + x)
    OBVIOUS
  <2> HIDE DEF s
  <2> QED BY <2>1, <2>2, <2>3, <2>4, <2>5, <2>6, <2>7, SMTT(30)
<1>6. \A k \in 0 .. n : k \in Yes
  <2> HIDE DEF Yes
  <2> QED BY <1>4, <1>5, InductTo
<1> QED BY <1>1, <1>3, <1>6

(* What each place hands on to the next, from the last place to the first. *)
LEMMA Carries ==
  ASSUME NEW n \in Nat, NEW r \in Nat, NEW s \in [1 .. n -> Int], NEW l \in [1 .. n -> Int],
         NEW e \in [1 .. n + 1 -> Int], e[n + 1] = 0,
         \A k \in 1 .. n : l[k] + r * e[k] = s[k] + e[k + 1]
  PROVE  NumberOf(l, r) + e[1] * Power(r, n) = NumberOf(s, r)
<1>0. r \in Int
  OBVIOUS
<1>1. PICK U : PrefixRuns(U, n, s, r) /\ NumberOf(s, r) = U[n]
  BY <1>0, NumberRuns
<1>2. PICK W : PrefixRuns(W, n, l, r) /\ NumberOf(l, r) = W[n]
  BY <1>0, NumberRuns
<1> DEFINE Yes == {k \in 0 .. n : U[k] + e[k + 1] = W[k] + e[1] * Power(r, k)}
<1>3. 0 \in Yes
  <2>1. U[0] = 0 /\ W[0] = 0 /\ Power(r, 0) = 1 /\ e[0 + 1] = e[1] /\ e[1] \in Int
    BY <1>1, <1>2, PowerLaws DEF PrefixRuns
  <2> QED BY <2>1
<1>4. ASSUME NEW k \in 0 .. n - 1, k \in Yes PROVE k + 1 \in Yes
  <2>1. k + 1 \in 0 .. n /\ k \in Nat /\ k + 1 \in 1 .. n /\ k \in 0 .. n /\ (k + 1) + 1 \in 1 .. n + 1
        /\ k + 1 \in 1 .. n + 1 /\ 1 \in 1 .. n + 1
    OBVIOUS
  <2>2. /\ U[k + 1] = U[k] * r + s[k + 1] /\ W[k + 1] = W[k] * r + l[k + 1]
        /\ U[k] \in Int /\ W[k] \in Int
    BY <1>1, <1>2, <2>1 DEF PrefixRuns
  <2>3. Power(r, k + 1) = Power(r, k) * r /\ Power(r, k) \in Nat
    BY <2>1, PowerLaws
  <2>4. U[k] + e[k + 1] = W[k] + e[1] * Power(r, k)
    BY <1>4
  <2>5. l[k + 1] + r * e[k + 1] = s[k + 1] + e[(k + 1) + 1]
    BY <2>1
  <2>6. e[1] \in Int /\ e[k + 1] \in Int /\ e[(k + 1) + 1] \in Int /\ s[k + 1] \in Int /\ l[k + 1] \in Int
    BY <2>1
  <2>8. U[k + 1] + e[(k + 1) + 1] = W[k + 1] + e[1] * Power(r, k + 1)
    <3>1. Power(r, k) \in Int /\ r \in Int
      BY <2>3
    <3>2. (U[k] * r + s[k + 1]) + e[(k + 1) + 1] = (W[k] * r + l[k + 1]) + e[1] * (Power(r, k) * r)
      <4> PICK u \in Int, w \in Int, x \in Int, y \in Int, a \in Int, b \in Int, z \in Int, p \in Int :
            /\ u = U[k] /\ w = W[k] /\ x = s[k + 1] /\ y = l[k + 1] /\ a = e[1] /\ b = e[k + 1]
            /\ z = e[(k + 1) + 1] /\ p = Power(r, k)
        BY <2>2, <2>6, <3>1
      <4>1. u + b = w + a * p /\ y + r * b = x + z
        BY <2>4, <2>5
      <4>2. (u * r + x) + z = (w * r + y) + a * (p * r)
        <5>1. u = (w + a * p) - b /\ z = (y + r * b) - x
          BY ONLY <3>1, <4>1
        <5>2. (((w + a * p) - b) * r + x) + ((y + r * b) - x) = (w * r + y) + a * (p * r)
          BY ONLY <3>1
        <5> QED BY <5>1, <5>2
      <4> QED BY <4>2
    <3> QED BY ONLY <2>2, <2>3, <3>2
  <2> QED BY <2>1, <2>8
<1>5. \A k \in 0 .. n : k \in Yes
  <2> HIDE DEF Yes
  <2> QED BY <1>3, <1>4, InductTo
<1>6. U[n] + e[n + 1] = W[n] + e[1] * Power(r, n) /\ U[n] \in Int
  BY <1>1, <1>5 DEF PrefixRuns
<1> QED BY <1>1, <1>2, <1>6

(* Division by q, place by place from the first to the last. *)
Divides(q, n, g, r, l, c) ==
  /\ g \in [1 .. n -> Int] /\ l \in [1 .. n -> Int] /\ c \in [0 .. n -> Int] /\ c[0] = 0
  /\ \A k \in 0 .. n - 1 : l[k + 1] * q + c[k + 1] = c[k] * r + g[k + 1]

LEMMA Remainders ==
  ASSUME NEW n \in Nat, NEW r \in Int, NEW q \in Int, NEW g, NEW l, NEW c, Divides(q, n, g, r, l, c)
  PROVE  NumberOf(l, r) * q + c[n] = NumberOf(g, r)
<1>0. /\ g \in [1 .. n -> Int] /\ l \in [1 .. n -> Int] /\ c \in [0 .. n -> Int] /\ c[0] = 0
      /\ \A k \in 0 .. n - 1 : l[k + 1] * q + c[k + 1] = c[k] * r + g[k + 1]
  BY DEF Divides
<1>1. PICK U : PrefixRuns(U, n, g, r) /\ NumberOf(g, r) = U[n]
  BY <1>0, NumberRuns
<1>2. PICK W : PrefixRuns(W, n, l, r) /\ NumberOf(l, r) = W[n]
  BY <1>0, NumberRuns
<1> DEFINE Yes == {k \in 0 .. n : U[k] = W[k] * q + c[k]}
<1>3. 0 \in Yes
  BY <1>0, <1>1, <1>2 DEF PrefixRuns
<1>4. ASSUME NEW k \in 0 .. n - 1, k \in Yes PROVE k + 1 \in Yes
  <2>1. k + 1 \in 0 .. n /\ k \in 0 .. n /\ k + 1 \in 1 .. n
    OBVIOUS
  <2>2. /\ U[k + 1] = U[k] * r + g[k + 1] /\ W[k + 1] = W[k] * r + l[k + 1]
        /\ U[k] \in Int /\ W[k] \in Int
    BY <1>1, <1>2, <2>1 DEF PrefixRuns
  <2>3. U[k] = W[k] * q + c[k]
    BY <1>4
  <2>4. l[k + 1] * q + c[k + 1] = c[k] * r + g[k + 1]
    BY <1>0
  <2>5. g[k + 1] \in Int /\ l[k + 1] \in Int /\ c[k] \in Int /\ c[k + 1] \in Int
    BY <1>0, <2>1
  <2>7. U[k + 1] = W[k + 1] * q + c[k + 1]
    <3>1. q \in Int /\ r \in Int
      OBVIOUS
    <3>2. (W[k] * q + c[k]) * r + g[k + 1] = (W[k] * r + l[k + 1]) * q + c[k + 1]
      <4> PICK w \in Int, a \in Int, b \in Int, x \in Int, y \in Int :
            w = W[k] /\ a = c[k] /\ b = c[k + 1] /\ x = g[k + 1] /\ y = l[k + 1]
        BY <2>2, <2>5
      <4>1. y * q + b = a * r + x
        BY <2>4
      <4>2. (w * q + a) * r + x = (w * r + y) * q + b
        <5>1. x = (y * q + b) - a * r
          BY ONLY <3>1, <4>1
        <5>2. (w * q + a) * r + ((y * q + b) - a * r) = (w * r + y) * q + b
          BY ONLY <3>1
        <5> QED BY <5>1, <5>2
      <4> QED BY <4>2
    <3> QED BY ONLY <2>2, <2>3, <3>2
  <2> QED BY <2>1, <2>7
<1>5. \A k \in 0 .. n : k \in Yes
  <2> HIDE DEF Yes
  <2> QED BY <1>3, <1>4, InductTo
<1> QED BY <1>1, <1>2, <1>5
-----------------------------------------------------------------------------
(* Limbs that are put behind one another, one in each round. *)
LEMMA Gathered ==
  ASSUME NEW n \in Nat, NEW S, NEW l \in [1 .. n -> S], NEW L \in [0 .. n -> Seq(S)], L[0] = <<>>,
         \A k \in 0 .. n - 1 : L[k + 1] = Append(L[k], l[k + 1])
  PROVE  L[n] = l
<1> DEFINE Yes == {k \in 0 .. n : Len(L[k]) = k /\ \A j \in 1 .. k : L[k][j] = l[j]}
<1>1. 0 \in Yes
  OBVIOUS
<1>2. ASSUME NEW k \in 0 .. n - 1, k \in Yes PROVE k + 1 \in Yes
  <2>1. k + 1 \in 0 .. n /\ k \in 0 .. n /\ k + 1 \in 1 .. n
    OBVIOUS
  <2>2. L[k] \in Seq(S) /\ l[k + 1] \in S /\ Len(L[k]) = k /\ \A j \in 1 .. k : L[k][j] = l[j]
    BY <1>2, <2>1
  <2>3. L[k + 1] = Append(L[k], l[k + 1])
    OBVIOUS
  <2>4. Len(L[k + 1]) = k + 1
    BY <2>2, <2>3
  <2>5. ASSUME NEW j \in 1 .. k + 1 PROVE L[k + 1][j] = l[j]
    <3>1. CASE j = k + 1
      BY <2>2, <2>3, <3>1
    <3>2. CASE j # k + 1
      <4>1. j \in 1 .. k
        BY <3>2
      <4> QED BY <2>2, <2>3, <4>1
    <3> QED BY <3>1, <3>2
  <2> QED BY <2>1, <2>4, <2>5
<1>3. \A k \in 0 .. n : k \in Yes
  <2> HIDE DEF Yes
  <2> QED BY <1>1, <1>2, InductTo
<1>4. Len(L[n]) = n /\ (\A j \in 1 .. n : L[n][j] = l[j]) /\ L[n] \in Seq(S)
  <2>1. n \in 0 .. n
    OBVIOUS
  <2> QED BY <1>3, <2>1
<1>5. L[n] \in [1 .. n -> S]
  BY <1>4, LenProperties
<1> QED BY <1>4, <1>5

(* From the last to the first. *)
LEMMA GatheredDown ==
  ASSUME NEW n \in Nat, NEW S, NEW l \in [1 .. n -> S], NEW L \in [1 .. n + 1 -> Seq(S)], L[n + 1] = <<>>,
         \A k \in 1 .. n : L[k] = Append(L[k + 1], l[k])
  PROVE  Reverse(L[1]) = l
<1> DEFINE M == [k \in 0 .. n |-> L[n + 1 - k]]
           m == [k \in 1 .. n |-> l[n + 1 - k]]
<1>1. M \in [0 .. n -> Seq(S)]
  <2>1. ASSUME NEW k \in 0 .. n PROVE n + 1 - k \in 1 .. n + 1
    OBVIOUS
  <2> QED BY <2>1
<1>2. m \in [1 .. n -> S]
  <2>1. ASSUME NEW k \in 1 .. n PROVE n + 1 - k \in 1 .. n
    OBVIOUS
  <2> QED BY <2>1
<1>3. M[0] = <<>>
  OBVIOUS
<1>4. ASSUME NEW k \in 0 .. n - 1 PROVE M[k + 1] = Append(M[k], m[k + 1])
  <2>1. n - k \in 1 .. n /\ (n - k) + 1 = n + 1 - k /\ n + 1 - (k + 1) = n - k /\ k \in 0 .. n
        /\ k + 1 \in 0 .. n /\ k + 1 \in 1 .. n
    OBVIOUS
  <2>2. L[n - k] = Append(L[n + 1 - k], l[n - k])
    BY <2>1
  <2>3. M[k + 1] = L[n - k] /\ M[k] = L[n + 1 - k] /\ m[k + 1] = l[n - k]
    BY <2>1
  <2> QED BY <2>2, <2>3
<1>5. M[n] = m
  <2> HIDE DEF M, m
  <2> QED BY <1>1, <1>2, <1>3, <1>4, Gathered
<1>6. M[n] = L[1]
  <2>1. n \in 0 .. n /\ n + 1 - n = 1
    OBVIOUS
  <2> QED BY <2>1
<1>7. L[1] = m /\ Len(m) = n
  BY <1>5, <1>6, <1>2, LenProperties
<1>8. Reverse(m) = [k \in 1 .. n |-> m[(n - k) + 1]]
  <2> HIDE DEF m
  <2> QED BY <1>7 DEF Reverse
<1>9. ASSUME NEW k \in 1 .. n PROVE m[(n - k) + 1] = l[k]
  <2>1. (n - k) + 1 \in 1 .. n /\ n + 1 - ((n - k) + 1) = k
    OBVIOUS
  <2> QED BY <2>1
<1>10. l = [k \in 1 .. n |-> l[k]]
  OBVIOUS
<1> HIDE DEF m
<1> QED BY <1>7, <1>8, <1>9, <1>10

(* The limb and what it hands on. *)
LEMMA Split2 ==
  ASSUME NEW x \in Int
  PROVE  /\ LowLimb(x) \in Limbs /\ HighPart(x) \in Int /\ LowLimb(x) + B * HighPart(x) = x
         /\ x \in Nat => HighPart(x) \in Nat
<1>1. /\ x \div B \in Int /\ x % B \in 0 .. B - 1
      /\ x = (x \div B) * B + (x % B)
      /\ x \in Nat => x \div B \in Nat
  <2>1. B \in Nat /\ B >= 1
    BY LimbIs
  <2> QED BY ONLY <2>1, Quotients, Zenon
<1> QED BY <1>1, LimbIs DEF LowLimb, HighPart, B

LEMMA LimbsAreNumbers ==
  ASSUME NEW n \in Nat, NEW f \in NumbersOf(n)
  PROVE  f \in [1 .. n -> Nat] /\ f \in [1 .. n -> Int] /\ \A k \in 1 .. n : f[k] \in 0 .. B - 1
BY LimbIs DEF NumbersOf

(* The limbs l, with e for what comes out of each place. *)
HandsOn(l, e, s, n) == /\ l \in NumbersOf(n) /\ s \in [1 .. n -> Int] /\ e \in [1 .. n + 1 -> Int]
                       /\ e[n + 1] = 0 /\ \A k \in 1 .. n : l[k] + B * e[k] = s[k] + e[k + 1]

LEMMA HandedOn ==
  ASSUME NEW n \in Nat, NEW l, NEW e, NEW s, HandsOn(l, e, s, n)
  PROVE  Value(l) = NumberOf(s, B) % Place(n) /\ e[1] = NumberOf(s, B) \div Place(n)
<1>1. /\ l \in NumbersOf(n) /\ s \in [1 .. n -> Int] /\ e \in [1 .. n + 1 -> Int]
      /\ e[n + 1] = 0 /\ \A k \in 1 .. n : l[k] + B * e[k] = s[k] + e[k + 1]
  BY DEF HandsOn
<1>2. l \in [1 .. n -> Int] /\ B \in Nat
  BY <1>1, LimbsAreNumbers, LimbIs
<1>3. NumberOf(l, B) + e[1] * Power(B, n) = NumberOf(s, B)
  BY ONLY n \in Nat, <1>1, <1>2, Carries
<1>4. Value(l) = NumberOf(l, B)
  BY DEF Value, B
<1>5. Value(l) \in 0 .. Place(n) - 1 /\ Place(n) \in Nat /\ Place(n) >= 1
  BY <1>1, ValueRange, Places
<1>6. NumberOf(s, B) \in Int
  BY <1>1, NumberInt, LimbIs
<1>7. e[1] \in Int
  <2>1. 1 \in 1 .. n + 1
    OBVIOUS
  <2> QED BY <1>1, <2>1
<1>8. NumberOf(s, B) = e[1] * Place(n) + Value(l)
  <2>1. Value(l) \in Int /\ Place(n) \in Int
    BY <1>5
  <2>2. Value(l) + e[1] * Place(n) = NumberOf(s, B)
    BY <1>3, <1>4, PlaceIs
  <2> QED BY ONLY <1>7, <2>1, <2>2
<1>9. NumberOf(s, B) \div Place(n) = e[1] /\ NumberOf(s, B) % Place(n) = Value(l)
  BY ONLY <1>5, <1>6, <1>7, <1>8, QuotientIs
<1> QED BY <1>9

LEMMA ChainIs ==
  ASSUME NEW n \in Nat, NEW s \in [1 .. n -> Int]
  PROVE  LET c == Chain(s) IN
           /\ c.limbs \in NumbersOf(n) /\ c.carry = NumberOf(s, B) \div Place(n)
           /\ Value(c.limbs) = NumberOf(s, B) % Place(n)
<1> DEFINE V == [low : Seq(Limbs), carry : Int]
           first == [low |-> <<>>, carry |-> 0]
           Go(k, v) == [low |-> Append(v.low, LowLimb(s[k] + v.carry)), carry |-> HighPart(s[k] + v.carry)]
           step == [p \in (1 .. n) \X V |-> Go(p[1], p[2])]
           Loop(f) == f = [k \in 1 .. Len(s) + 1 |->
                             IF k = Len(s) + 1 THEN [low |-> <<>>, carry |-> 0]
                             ELSE LET below == f[k + 1]
                                      sum   == s[k] + below.carry
                                  IN  [low |-> Append(below.low, LowLimb(sum)), carry |-> HighPart(sum)]]
           from == CHOOSE f : Loop(f)
<1>0. Len(s) = n
  BY LenProperties
<1>1. ASSUME NEW k \in 1 .. n, NEW v \in V PROVE Go(k, v) \in V
  <2>1. s[k] + v.carry \in Int /\ v.low \in Seq(Limbs)
    OBVIOUS
  <2>2. LowLimb(s[k] + v.carry) \in Limbs /\ HighPart(s[k] + v.carry) \in Int
    BY <2>1, Split2
  <2> QED BY <2>1, <2>2
<1>2. step \in [(1 .. n) \X V -> V]
  <2>1. ASSUME NEW p \in (1 .. n) \X V PROVE Go(p[1], p[2]) \in V
    <3>1. PICK k \in 1 .. n, v \in V : p = <<k, v>>
      OBVIOUS
    <3> HIDE DEF Go, V
    <3> QED BY <3>1, <1>1
  <2> HIDE DEF Go, V
  <2> QED BY <2>1
<1>3. first \in V
  OBVIOUS
<1>4. PICK f : LoopsFrom(f, n, V, first, step)
  <2> HIDE DEF step, V, first
  <2> QED BY <1>2, <1>3, LoopsDown
<1>5. f \in [1 .. n + 1 -> V] /\ f[n + 1] = first
  <2> HIDE DEF step, V, first
  <2> QED BY <1>4 DEF LoopsFrom
<1>6. ASSUME NEW k \in 1 .. n PROVE f[k] = Go(k, f[k + 1])
  <2> HIDE DEF Go, V, first
  <2>1. k + 1 \in 1 .. n + 1
    OBVIOUS
  <2>2. f[k] = step[<<k, f[k + 1]>>]
    <3> HIDE DEF step
    <3> QED BY <1>4 DEF LoopsFrom
  <2>3. f[k + 1] \in V
    BY <1>5, <2>1
  <2> QED BY <2>2, <2>3
<1>7. Loop(f)
  <2>1. ASSUME NEW k \in 1 .. n + 1, k # n + 1 PROVE f[k] = Go(k, f[k + 1])
    <3>1. k \in 1 .. n
      BY <2>1
    <3> HIDE DEF Go
    <3> QED BY <1>6, <3>1
  <2> HIDE DEF V
  <2> QED BY <1>0, <1>5, <2>1
<1>8. Loop(from)
  <2> HIDE DEF Loop
  <2> QED BY <1>7
<1>9. Chain(s) = [limbs |-> Reverse(from[1].low), carry |-> from[1].carry]
  BY DEF Chain
<1>10. from[n + 1] = first /\ \A k \in 1 .. n : from[k] = Go(k, from[k + 1])
  <2> HIDE DEF from, V
  <2>1. n + 1 \in 1 .. n + 1 /\ \A k \in 1 .. n : k \in 1 .. n + 1 /\ k # n + 1
    OBVIOUS
  <2> QED BY <1>0, <1>8, <2>1
<1> HIDE DEF from, Loop
<1>11. \A k \in 1 .. n + 1 : from[k] = f[k]
  <2> DEFINE Yes == {j \in 0 .. n : from[n + 1 - j] = f[n + 1 - j]}
  <2>1. 0 \in Yes
    <3>1. n + 1 - 0 = n + 1
      OBVIOUS
    <3> QED BY <1>5, <1>10, <3>1
  <2>2. ASSUME NEW j \in 0 .. n - 1, j \in Yes PROVE j + 1 \in Yes
    <3>1. n + 1 - (j + 1) \in 1 .. n /\ (n + 1 - (j + 1)) + 1 = n + 1 - j /\ j + 1 \in 0 .. n
      OBVIOUS
    <3> HIDE DEF Go
    <3>2. from[n + 1 - (j + 1)] = Go(n + 1 - (j + 1), from[n + 1 - j])
      BY <1>10, <3>1
    <3>3. f[n + 1 - (j + 1)] = Go(n + 1 - (j + 1), f[n + 1 - j])
      BY <1>6, <3>1
    <3> QED BY <2>2, <3>1, <3>2, <3>3
  <2>3. \A j \in 0 .. n : j \in Yes
    <3> HIDE DEF Yes
    <3> QED BY <2>1, <2>2, InductTo
  <2>4. ASSUME NEW k \in 1 .. n + 1 PROVE from[k] = f[k]
    <3>1. n + 1 - k \in 0 .. n /\ n + 1 - (n + 1 - k) = k
      OBVIOUS
    <3> QED BY <2>3, <3>1
  <2> QED BY <2>4
<1> DEFINE L == [k \in 1 .. n + 1 |-> f[k].low]
           e == [k \in 1 .. n + 1 |-> f[k].carry]
           l == [k \in 1 .. n |-> LowLimb(s[k] + e[k + 1])]
<1>12. L \in [1 .. n + 1 -> Seq(Limbs)] /\ e \in [1 .. n + 1 -> Int] /\ L[n + 1] = <<>> /\ e[n + 1] = 0
  <2>1. \A k \in 1 .. n + 1 : f[k].low \in Seq(Limbs) /\ f[k].carry \in Int
    BY <1>5
  <2> QED BY <1>5, <2>1
<1>13. ASSUME NEW k \in 1 .. n
       PROVE  /\ k \in 1 .. n + 1 /\ k + 1 \in 1 .. n + 1 /\ s[k] + e[k + 1] \in Int
              /\ L[k] = Append(L[k + 1], l[k]) /\ e[k] = HighPart(s[k] + e[k + 1])
              /\ l[k] \in Limbs /\ l[k] \in Int /\ l[k] + B * e[k] = s[k] + e[k + 1]
  <2>1. k \in 1 .. n + 1 /\ k + 1 \in 1 .. n + 1
    OBVIOUS
  <2>2. s[k] + e[k + 1] \in Int
    BY <1>12, <2>1, SMTT(30)
  <2>3. L[k] = Append(L[k + 1], l[k]) /\ e[k] = HighPart(s[k] + e[k + 1])
    <3>1. /\ L[k] = f[k].low /\ L[k + 1] = f[k + 1].low /\ e[k] = f[k].carry /\ e[k + 1] = f[k + 1].carry
          /\ l[k] = LowLimb(s[k] + e[k + 1])
      BY <2>1
    <3>2. f[k] = Go(k, f[k + 1])
      <4> HIDE DEF Go
      <4> QED BY <1>6
    <3>3. f[k].low = Append(f[k + 1].low, LowLimb(s[k] + f[k + 1].carry))
          /\ f[k].carry = HighPart(s[k] + f[k + 1].carry)
      <4> HIDE DEF L, e, l
      <4> QED BY ONLY <3>2
    <3> HIDE DEF L, e, l
    <3> QED BY ONLY <3>1, <3>3
  <2>4. /\ LowLimb(s[k] + e[k + 1]) \in Limbs
        /\ LowLimb(s[k] + e[k + 1]) + B * HighPart(s[k] + e[k + 1]) = s[k] + e[k + 1]
    BY <2>2, Split2
  <2>5. LowLimb(s[k] + e[k + 1]) \in Int
    BY <2>4, LimbIs
  <2>6. l[k] = LowLimb(s[k] + e[k + 1])
    OBVIOUS
  <2> HIDE DEF l, e, L
  <2> QED BY ONLY <2>1, <2>2, <2>3, <2>4, <2>5, <2>6
<1>14. l \in [1 .. n -> Limbs] /\ l \in [1 .. n -> Int]
  <2>1. \A k \in 1 .. n : LowLimb(s[k] + e[k + 1]) \in Limbs
    BY <1>13
  <2>2. l \in [1 .. n -> Limbs]
    <3> HIDE DEF e
    <3> QED BY <2>1
  <2>3. \A x \in Limbs : x \in Int
    BY LimbIs
  <2> HIDE DEF l
  <2> QED BY <2>2, <2>3
<1>15. Reverse(L[1]) = l
  <2> HIDE DEF L, l, e
  <2> QED BY <1>12, <1>13, <1>14, GatheredDown
<1>16. HandsOn(l, e, s, n)
  <2>1. \A k \in 1 .. n : l[k] + B * e[k] = s[k] + e[k + 1]
    <3> HIDE DEF L, l, e
    <3> QED BY <1>13
  <2> HIDE DEF L, l, e
  <2> QED BY <1>12, <1>14, <2>1 DEF HandsOn, NumbersOf
<1>17. Chain(s).limbs = l /\ Chain(s).carry = e[1]
  <2>1. 1 \in 1 .. n + 1
    OBVIOUS
  <2>2. from[1].low = L[1] /\ from[1].carry = e[1]
    BY <1>11, <2>1
  <2> HIDE DEF L, l, e
  <2> QED BY <1>9, <1>15, <2>2
<1> HIDE DEF L, l, e
<1>18. Value(l) = NumberOf(s, B) % Place(n) /\ e[1] = NumberOf(s, B) \div Place(n)
  BY ONLY n \in Nat, <1>16, HandedOn
<1> QED BY <1>14, <1>17, <1>18 DEF NumbersOf

LEMMA ModPlus ==
  ASSUME NEW x \in Int, NEW y \in Int, NEW k \in Nat, k >= 1
  PROVE  (x * k + y) \div k = x + (y \div k) /\ (x * k + y) % k = y % k
<1>1. y \div k \in Int /\ y % k \in 0 .. k - 1 /\ y = (y \div k) * k + (y % k)
  BY Quotients
<1> DEFINE q == y \div k
           m == y % k
<1>2. q \in Int /\ m \in 0 .. k - 1 /\ y = q * k + m
  BY <1>1
<1> HIDE DEF q, m
<1>3. x + q \in Int /\ x * k + y \in Int /\ x * k + y = (x + q) * k + m
  BY <1>2
<1>4. (x * k + y) \div k = x + q /\ (x * k + y) % k = m
  BY ONLY <1>2, <1>3, k \in Nat, k >= 1, QuotientIs
<1> QED BY <1>4 DEF q, m

LEMMA ModSmall ==
  ASSUME NEW y \in Nat, NEW k \in Nat, y < k
  PROVE  y % k = y /\ y \div k = 0
<1>1. y \in Int /\ k >= 1 /\ 0 \in Int /\ y \in 0 .. k - 1 /\ y = 0 * k + y
  OBVIOUS
<1> QED BY ONLY <1>1, k \in Nat, QuotientIs

LEMMA Zeros == ASSUME NEW n \in Nat, NEW r \in Int PROVE NumberOf([k \in 1 .. n |-> 0], r) = 0
<1> DEFINE z == [k \in 1 .. n |-> 0]
<1>1. z \in [1 .. n -> Int] /\ 0 \in Int
  OBVIOUS
<1>2. [k \in 1 .. n |-> z[k] * 0] = z
  OBVIOUS
<1> HIDE DEF z
<1>3. NumberOf([k \in 1 .. n |-> z[k] * 0], r) = NumberOf(z, r) * 0 /\ NumberOf(z, r) \in Int
  BY ONLY <1>1, n \in Nat, r \in Int, NumberScale, NumberInt
<1>4. NumberOf(z, r) = 0
  BY <1>2, <1>3
<1> QED BY <1>4 DEF z

(* Zeros in front add nothing. *)
LEMMA Padded ==
  ASSUME NEW x \in Nat, NEW m \in Nat, NEW h \in [1 .. x + m -> Int], NEW r \in Int,
         \A k \in 1 .. x : h[k] = 0
  PROVE  NumberOf(h, r) = NumberOf([k \in 1 .. m |-> h[x + k]], r)
<1>1. PICK U : PrefixRuns(U, x + m, h, r) /\ NumberOf(h, r) = U[x + m]
  <2>1. x + m \in Nat
    OBVIOUS
  <2> QED BY <2>1, NumberRuns
<1> DEFINE Yes == {k \in 0 .. x : U[k] = 0}
<1>2. 0 \in Yes
  BY <1>1 DEF PrefixRuns
<1>3. ASSUME NEW k \in 0 .. x - 1, k \in Yes PROVE k + 1 \in Yes
  <2>1. k \in 0 .. (x + m) - 1 /\ k + 1 \in 1 .. x /\ k + 1 \in 0 .. x
    OBVIOUS
  <2>2. U[k + 1] = U[k] * r + h[k + 1] /\ U[k] = 0 /\ h[k + 1] = 0
    BY <1>1, <1>3, <2>1 DEF PrefixRuns
  <2> QED BY <2>1, <2>2
<1>4. \A k \in 0 .. x : k \in Yes
  <2> HIDE DEF Yes
  <2> QED BY <1>2, <1>3, InductTo
<1> DEFINE t == [k \in 1 .. m |-> h[x + k]]
           Z == [k \in 0 .. m |-> U[x + k]]
<1>5. t \in [1 .. m -> Int]
  <2>1. \A k \in 1 .. m : x + k \in 1 .. x + m
    OBVIOUS
  <2> QED BY <2>1
<1>6. Z \in [0 .. m -> Int]
  <2>1. \A k \in 0 .. m : x + k \in 0 .. x + m
    OBVIOUS
  <2>2. U \in [0 .. x + m -> Int]
    BY <1>1 DEF PrefixRuns
  <2> QED BY <2>1, <2>2
<1>7. Z[0] = 0
  <2>1. x \in 0 .. x /\ x + 0 = x
    OBVIOUS
  <2> QED BY <1>4, <2>1
<1>8. ASSUME NEW k \in 0 .. m - 1 PROVE Z[k + 1] = Z[k] * r + t[k + 1]
  <2>1. x + k \in 0 .. (x + m) - 1 /\ (x + k) + 1 = x + (k + 1) /\ k + 1 \in 1 .. m /\ k + 1 \in 0 .. m /\ k \in 0 .. m
    OBVIOUS
  <2>2. U[(x + k) + 1] = U[x + k] * r + h[(x + k) + 1]
    BY <1>1, <2>1 DEF PrefixRuns
  <2> QED BY <2>1, <2>2
<1>9. PrefixRuns(Z, m, t, r)
  <2> HIDE DEF Z, t
  <2> QED BY <1>6, <1>7, <1>8 DEF PrefixRuns
<1>10. NumberOf(t, r) = Z[m]
  <2> HIDE DEF Z, t
  <2> QED BY <1>5, <1>9, NumberIs
<1> QED BY <1>1, <1>10

-----------------------------------------------------------------------------
(* Addition and subtraction. *)
LEMMA AddIs ==
  ASSUME NEW n \in Nat, NEW f \in NumbersOf(n), NEW g \in NumbersOf(n)
  PROVE  LET c == fixnum_add(f, g) IN
           /\ c.limbs \in NumbersOf(n)
           /\ Value(c.limbs) = (Value(f) + Value(g)) % Place(n)
<1> DEFINE s == [k \in 1 .. n |-> f[k] + g[k]]
<1>1. f \in [1 .. n -> Int] /\ g \in [1 .. n -> Int] /\ B \in Int
  BY LimbsAreNumbers, LimbIs
<1>2. NumberOf(s, B) = NumberOf(f, B) + NumberOf(g, B)
  BY ONLY n \in Nat, <1>1, NumberAdd
<1>3. s \in [1 .. n -> Int]
  BY <1>1
<1>4. fixnum_add(f, g) = Chain(s)
  BY <1>1 DEF fixnum_add
<1> HIDE DEF s
<1> QED BY <1>2, <1>3, <1>4, ChainIs DEF Value, B

LEMMA SubIs ==
  ASSUME NEW n \in Nat, NEW f \in NumbersOf(n), NEW g \in NumbersOf(n)
  PROVE  LET c == fixnum_sub(f, g) IN
           /\ c.limbs \in NumbersOf(n)
           /\ Value(c.limbs) = (Value(f) - Value(g)) % Place(n)
           /\ c.carry < 0 <=> Value(f) < Value(g)
<1> DEFINE h == [k \in 1 .. n |-> g[k] * (-1)]
           s == [k \in 1 .. n |-> f[k] + h[k]]
<1>1. f \in [1 .. n -> Int] /\ g \in [1 .. n -> Int] /\ B \in Int /\ -1 \in Int
  BY LimbsAreNumbers, LimbIs
<1>2. h \in [1 .. n -> Int]
  BY <1>1
<1>3. s \in [1 .. n -> Int]
  <2> HIDE DEF h
  <2> QED BY <1>1, <1>2
<1>4. NumberOf(h, B) = NumberOf(g, B) * (-1)
  BY ONLY n \in Nat, <1>1, NumberScale
<1>5. NumberOf(s, B) = NumberOf(f, B) + NumberOf(h, B)
  <2> HIDE DEF h
  <2> QED BY ONLY n \in Nat, <1>1, <1>2, NumberAdd
<1>6. fixnum_sub(f, g) = Chain(s)
  <2>1. [k \in DOMAIN f |-> f[k] - g[k]] = s
    BY <1>1
  <2> QED BY <2>1 DEF fixnum_sub
<1> DEFINE x == Value(f) - Value(g)
<1>7. NumberOf(s, B) = x /\ Value(f) \in Nat /\ Value(g) \in Nat
  <2>1. Value(f) = NumberOf(f, B) /\ Value(g) = NumberOf(g, B) /\ Value(f) \in Nat /\ Value(g) \in Nat
    BY ValueRange DEF Value, B
  <2> HIDE DEF s, h
  <2> QED BY <1>4, <1>5, <2>1
<1>8. /\ Chain(s).limbs \in NumbersOf(n) /\ Chain(s).carry = x \div Place(n)
      /\ Value(Chain(s).limbs) = x % Place(n)
  <2> HIDE DEF s, x
  <2> QED BY <1>3, <1>7, ChainIs
<1>9. x \div Place(n) < 0 <=> x < 0
  <2>1. x \in Int /\ Place(n) \in Nat /\ Place(n) >= 1
    BY <1>7, Places
  <2> HIDE DEF x
  <2> DEFINE p == Place(n)
             q == x \div p
             m == x % p
  <2>2. q \in Int /\ m \in 0 .. p - 1 /\ x = q * p + m
    <3>1. p \in Nat /\ p >= 1
      BY <2>1
    <3> HIDE DEF p
    <3> QED BY ONLY <2>1, <3>1, Quotients
  <2>3. p \in Nat /\ p >= 1
    BY <2>1
  <2> HIDE DEF p, q, m
  <2>4. q >= 0 => q * p >= 0
    BY ONLY <2>2, <2>3
  <2>5. q <= -1 => q * p <= -p
    BY ONLY <2>2, <2>3
  <2>6. q < 0 <=> x < 0
    BY ONLY <2>2, <2>3, <2>4, <2>5
  <2> QED BY <2>6 DEF p, q
<1> HIDE DEF s, x
<1>10. x < 0 <=> Value(f) < Value(g)
  BY <1>7 DEF x
<1> QED BY <1>6, <1>8, <1>9, <1>10 DEF x

LEMMA Uint16Is ==
  ASSUME NEW n \in Nat, n >= 2, NEW w \in 0 .. Place(2) - 1
  PROVE  Uint16(n, w) \in NumbersOf(n) /\ Value(Uint16(n, w)) = w
<1>1. PICK m \in Nat : n = (m + 1) + 1
  <2>1. n - 2 \in Nat /\ n = ((n - 2) + 1) + 1
    OBVIOUS
  <2> QED BY <2>1
<1> DEFINE u == Uint16(n, w)
           v == [k \in 1 .. m + 1 |-> u[k]]
           low  == LowLimb(w)
           high == HighPart(w)
<1>2. w \in Int /\ w \in Nat /\ w < B * B
  BY FirstPlace, LimbIs
<1>3. low \in Limbs /\ low \in Int /\ high \in Nat /\ low + B * high = w
  <2>1. low \in Limbs /\ high \in Nat /\ low + B * high = w
    BY <1>2, Split2
  <2> HIDE DEF low, high
  <2> QED BY <2>1, LimbIs
<1>4. high \in Limbs /\ high \in Int
  <2> HIDE DEF low, high
  <2>1. low \in Nat /\ B \in Nat /\ B >= 2
    BY <1>3, LimbIs
  <2>2. high >= B => B * high >= B * B
    BY <2>1, <1>3
  <2> QED BY <1>2, <1>3, <2>1, <2>2, LimbIs
<1>5. u \in [1 .. n -> Limbs]
  <2>1. 0 \in Limbs
    BY LimbIs
  <2> HIDE DEF low, high
  <2>2. u = [k \in 1 .. n |-> CASE k = n -> low [] k = n - 1 -> high [] OTHER -> 0]
    BY DEF Uint16, low, high
  <2> HIDE DEF u
  <2> QED BY <1>3, <1>4, <2>1, <2>2
<1>6. u[n] = low /\ u[m + 1] = high /\ \A k \in 1 .. m : u[k] = 0
  <2>1. u = [k \in 1 .. n |-> CASE k = n -> low [] k = n - 1 -> high [] OTHER -> 0]
    BY DEF Uint16, low, high
  <2>2. n \in 1 .. n /\ m + 1 \in 1 .. n /\ m + 1 = n - 1 /\ m + 1 # n
        /\ \A k \in 1 .. m : k \in 1 .. n /\ k # n /\ k # n - 1
    BY <1>1
  <2> HIDE DEF u, low, high
  <2> QED BY <2>1, <2>2
<1> HIDE DEF low, high, u
<1>7. u \in [1 .. (m + 1) + 1 -> Int] /\ u \in NumbersOf(n)
  BY <1>1, <1>5, LimbIs DEF NumbersOf
<1>8. v \in [1 .. m + 1 -> Int]
  <2>1. \A k \in 1 .. m + 1 : k \in 1 .. (m + 1) + 1
    OBVIOUS
  <2> QED BY <1>7, <2>1
<1>9. [k \in 1 .. m |-> v[k]] = [k \in 1 .. m |-> 0] /\ v[m + 1] = high
  <2>1. m + 1 \in 1 .. m + 1 /\ \A k \in 1 .. m : k \in 1 .. m + 1
    OBVIOUS
  <2> QED BY <1>6, <2>1
<1>10. NumberOf(u, B) = NumberOf(v, B) * B + u[n]
  <2>1. m + 1 \in Nat /\ B \in Int
    BY LimbIs
  <2>2. NumberOf(u, B) = NumberOf([k \in 1 .. m + 1 |-> u[k]], B) * B + u[(m + 1) + 1]
    BY ONLY <1>7, <2>1, NumberLast
  <2> QED BY <1>1, <2>2
<1>11. NumberOf(v, B) = high
  <2>1. NumberOf(v, B) = NumberOf([k \in 1 .. m |-> v[k]], B) * B + v[m + 1]
    <3> HIDE DEF v
    <3>1. B \in Int
      BY LimbIs
    <3> QED BY ONLY m \in Nat, <1>8, <3>1, NumberLast
  <2>2. NumberOf([k \in 1 .. m |-> v[k]], B) = 0
    <3> HIDE DEF v
    <3> QED BY <1>9, Zeros, LimbIs
  <2> HIDE DEF v
  <2> QED BY <1>4, <1>9, <2>1, <2>2, LimbIs
<1>12. Value(u) = w
  <2> HIDE DEF v
  <2>1. NumberOf(u, B) = high * B + low
    BY <1>6, <1>10, <1>11
  <2>2. Value(u) = NumberOf(u, B)
    BY DEF Value, B
  <2> QED BY <1>3, <1>4, <2>1, <2>2, LimbIs
<1> QED BY <1>7, <1>12 DEF u

LEMMA WidenedIs ==
  ASSUME NEW m \in Nat, NEW x \in Nat, NEW f \in NumbersOf(m)
  PROVE  /\ Widened(f, m + x) \in NumbersOf(m + x) /\ Value(Widened(f, m + x)) = Value(f)
         /\ \A k \in 1 .. m + x : Widened(f, m + x)[k] = IF k <= x THEN 0 ELSE f[k - x]
<1> DEFINE z == [k \in 1 .. x |-> 0]
           h == Widened(f, m + x)
<1>1. f \in Seq(Limbs) /\ Len(f) = m /\ z \in Seq(Limbs) /\ Len(z) = x
  <2>1. 0 \in Limbs
    BY LimbIs
  <2>2. f \in [1 .. m -> Limbs] /\ z \in [1 .. x -> Limbs]
    BY <2>1 DEF NumbersOf
  <2> QED BY <2>2
<1>2. h = z \o f
  <2>1. (m + x) - Len(f) = x
    BY <1>1
  <2> QED BY <2>1 DEF Widened
<1>3. h \in Seq(Limbs) /\ Len(h) = m + x
  <2> HIDE DEF z, h
  <2>1. h \in Seq(Limbs) /\ Len(h) = x + m
    BY <1>1, <1>2, ConcatProperties
  <2> QED BY <2>1
<1>4. h \in [1 .. m + x -> Limbs]
  <2> HIDE DEF z, h
  <2> QED BY <1>3, LenProperties
<1>5. ASSUME NEW k \in 1 .. m + x PROVE h[k] = IF k <= x THEN 0 ELSE f[k - x]
  <2>1. CASE k <= x
    <3>1. k \in 1 .. x /\ z[k] = 0
      BY <2>1
    <3>2. h[k] = z[k]
      <4> HIDE DEF z, h
      <4> QED BY <1>1, <1>2, <3>1
    <3> HIDE DEF z, h
    <3> QED BY <2>1, <3>1, <3>2
  <2>2. CASE ~(k <= x)
    <3> HIDE DEF z, h
    <3>1. k > x /\ k <= x + m
      BY <2>2
    <3>2. h[k] = f[k - x]
      <4>1. k \in 1 .. Len(z) + Len(f) /\ ~(k <= Len(z))
        BY <1>1, <3>1
      <4> QED BY <1>1, <1>2, <4>1, ConcatProperties
    <3> QED BY <2>2, <3>2
  <2> QED BY <2>1, <2>2
<1>6. h \in [1 .. x + m -> Int] /\ B \in Int /\ \A k \in 1 .. x : h[k] = 0
  <2> HIDE DEF z, h
  <2>1. m + x = x + m /\ \A k \in 1 .. x : k \in 1 .. m + x /\ k <= x
    OBVIOUS
  <2>2. \A y \in Limbs : y \in Int
    BY LimbIs
  <2>3. h \in [1 .. m + x -> Int]
    BY <1>4, <2>2
  <2> QED BY <1>5, <2>1, <2>3, LimbIs
<1>7. NumberOf(h, B) = NumberOf([k \in 1 .. m |-> h[x + k]], B)
  <2> HIDE DEF z, h
  <2> QED BY ONLY m \in Nat, x \in Nat, <1>6, Padded
<1>8. [k \in 1 .. m |-> h[x + k]] = f
  <2> HIDE DEF z, h
  <2>1. ASSUME NEW k \in 1 .. m PROVE h[x + k] = f[k]
    <3>1. x + k \in 1 .. m + x /\ ~(x + k <= x) /\ (x + k) - x = k
      OBVIOUS
    <3> QED BY <1>5, <3>1
  <2>2. f = [k \in 1 .. m |-> f[k]]
    BY DEF NumbersOf
  <2> QED BY <2>1, <2>2
<1> HIDE DEF h
<1>9. h \in NumbersOf(m + x) /\ Value(h) = Value(f)
  BY <1>4, <1>7, <1>8 DEF NumbersOf, Value, B
<1> QED BY <1>5, <1>9 DEF h
-----------------------------------------------------------------------------
(* A number without its first limb, and a zero at its end.                 *)
LEMMA LimbLeft ==
  ASSUME NEW n \in Nat, n >= 1, NEW f \in NumbersOf(n)
  PROVE  LET g == Append(Tail(f), 0) IN
           /\ g \in NumbersOf(n) /\ f[1] \in 0 .. B - 1
           /\ Value(f) * B = f[1] * Place(n) + Value(g)
<1>1. PICK m \in Nat : n = m + 1
  <2>1. n - 1 \in Nat /\ n = (n - 1) + 1
    OBVIOUS
  <2> QED BY <2>1
<1> DEFINE g == Append(Tail(f), 0)
           t == [k \in 1 .. m |-> f[k + 1]]
<1>2. f \in [1 .. n -> Limbs] /\ Len(f) = n /\ f \in Seq(Limbs) /\ f # <<>> /\ 0 \in Limbs
  <2>1. f \in [1 .. n -> Limbs]
    BY DEF NumbersOf
  <2>2. f \in Seq(Limbs)
    BY <2>1
  <2>3. Len(f) = n
    BY <2>1, LenProperties
  <2> QED BY <2>1, <2>2, <2>3, LimbIs
<1>3. Tail(f) \in Seq(Limbs) /\ Len(Tail(f)) = m /\ \A k \in 1 .. m : Tail(f)[k] = f[k + 1]
  BY <1>1, <1>2
<1>4. g \in Seq(Limbs) /\ Len(g) = n /\ g[n] = 0 /\ \A k \in 1 .. m : g[k] = f[k + 1]
  BY <1>1, <1>2, <1>3
<1>5. g \in [1 .. n -> Limbs]
  <2> HIDE DEF g
  <2> QED BY <1>4, LenProperties
<1> HIDE DEF g
<1>6. f \in [1 .. m + 1 -> Int] /\ g \in [1 .. m + 1 -> Int] /\ B \in Int /\ B \in Nat
  BY <1>1, <1>2, <1>5, LimbIs
<1>7. NumberOf(f, B) = f[1] * Power(B, m) + NumberOf(t, B)
  BY ONLY m \in Nat, <1>6, NumberFirst
<1>8. NumberOf(g, B) = NumberOf([k \in 1 .. m |-> g[k]], B) * B + g[m + 1]
  BY ONLY m \in Nat, <1>6, NumberLast
<1>9. [k \in 1 .. m |-> g[k]] = t
  BY <1>4
<1>10. t \in [1 .. m -> Int]
  <2>1. \A k \in 1 .. m : k + 1 \in 1 .. m + 1
    OBVIOUS
  <2> QED BY <1>6, <2>1
<1>11. NumberOf(t, B) \in Int
  <2> HIDE DEF t
  <2> QED BY <1>6, <1>10, NumberInt
<1>12. f[1] \in Limbs /\ f[1] \in 0 .. B - 1
  BY <1>1, <1>2, LimbIs
<1>13. Power(B, m) = Place(m) /\ Place(n) = Place(m) * B /\ Place(m) \in Nat
  BY <1>1, PlaceIs, Places
<1> HIDE DEF t
<1>14. NumberOf(f, B) * B = f[1] * Place(n) + NumberOf(g, B)
  <2> DEFINE T == NumberOf(t, B)
             P == Place(m)
             x == f[1]
  <2>1. NumberOf(f, B) = x * P + T /\ NumberOf(g, B) = T * B
    <3>1. g[m + 1] = 0
      BY <1>1, <1>4
    <3>2. NumberOf(g, B) = T * B + 0 /\ T * B \in Int
      <4>1. NumberOf(g, B) = T * B + 0
        BY <1>8, <1>9, <3>1
      <4>2. T \in Int
        BY <1>11
      <4> HIDE DEF T
      <4> QED BY ONLY <1>6, <4>1, <4>2
    <3>3. NumberOf(f, B) = x * P + T
      BY <1>7, <1>13
    <3> HIDE DEF x, P, T
    <3> QED BY <3>2, <3>3
  <2>2. x \in Int /\ P \in Int /\ T \in Int
    BY <1>11, <1>12, <1>13
  <2> HIDE DEF T, P, x
  <2>3. (x * P + T) * B = x * (P * B) + T * B
    BY ONLY <1>6, <2>2
  <2>4. NumberOf(f, B) * B = x * (P * B) + NumberOf(g, B)
    BY ONLY <2>1, <2>3
  <2> QED BY ONLY <2>4, <1>13 DEF P, x
<1>15. Value(f) = NumberOf(f, B) /\ Value(g) = NumberOf(g, B) /\ g \in NumbersOf(n)
  BY <1>5 DEF Value, B, NumbersOf
<1> QED BY <1>12, <1>14, <1>15 DEF g

LEMMA BitsLeftIs ==
  ASSUME NEW shift \in 0 .. 2 * LimbBits
  PROVE  /\ BitsLeft(shift) \in Nat /\ BitsLeft(shift) <= LimbBits /\ shift \in Nat
         /\ ~ShiftsWholeLimb(shift) => 2^shift = 2^BitsLeft(shift)
         /\ ShiftsWholeLimb(shift) => 2^shift = B * 2^BitsLeft(shift)
         /\ 2^BitsLeft(shift) \in Nat /\ 2^BitsLeft(shift) >= 1 /\ 2^shift \in Nat /\ 2^shift >= 1
<1>1. BitsLeft(shift) \in Nat /\ BitsLeft(shift) <= LimbBits /\ shift \in Nat
  BY LimbIs DEF BitsLeft, ShiftsWholeLimb
<1>2. ~ShiftsWholeLimb(shift) => BitsLeft(shift) = shift
  BY DEF BitsLeft
<1>3. ShiftsWholeLimb(shift) => shift = LimbBits + BitsLeft(shift)
  BY <1>1, LimbIs DEF BitsLeft
<1>4. 2^(LimbBits + BitsLeft(shift)) = 2^LimbBits * 2^BitsLeft(shift)
  BY <1>1, LimbIs, TwoSum
<1> QED BY <1>1, <1>2, <1>3, <1>4, TwoPower DEF B

LEMMA ShlIs ==
  ASSUME NEW n \in Nat, n >= 1, NEW f \in NumbersOf(n), NEW shift \in 0 .. 2 * LimbBits
  PROVE  LET r == fixnum_shl(f, shift) IN
           /\ r.limbs \in NumbersOf(n)
           /\ Value(r.limbs) = (Value(f) * 2^shift) % Place(n)
           /\ r.carry \in BOOLEAN
           /\ r.carry <=> Value(f) * 2^shift >= Place(n)
<1> DEFINE whole == ShiftsWholeLimb(shift)
           b == BitsLeft(shift)
           g == IF whole THEN Append(Tail(f), 0) ELSE f
           s == [k \in 1 .. n |-> g[k] * 2^b]
           y == Value(g) * 2^b
           x == IF whole THEN f[1] * 2^b ELSE 0
<1>1. /\ 2^b \in Nat /\ 2^b >= 1 /\ 2^shift \in Nat /\ 2^shift >= 1
      /\ ~whole => 2^shift = 2^b
      /\ whole => 2^shift = B * 2^b
  BY BitsLeftIs
<1>2. g \in NumbersOf(n) /\ f[1] \in Nat
  BY LimbLeft, LimbIs
<1> HIDE DEF b, whole, g
<1>3. g \in [1 .. n -> Int] /\ DOMAIN g = 1 .. n /\ Value(g) \in Nat /\ Value(f) \in Nat
  BY <1>2, ValueRange
<1>4. NumberOf(s, B) = y
  <2>1. NumberOf(s, B) = NumberOf(g, B) * 2^b
    <3>1. 2^b \in Int /\ B \in Int
      BY <1>1, LimbIs
    <3> QED BY ONLY n \in Nat, <1>3, <3>1, NumberScale
  <2> QED BY <2>1 DEF Value, B
<1>5. s \in [1 .. n -> Int]
  BY <1>1, <1>3
<1>6. /\ Chain(s).limbs \in NumbersOf(n) /\ Chain(s).carry = y \div Place(n)
      /\ Value(Chain(s).limbs) = y % Place(n)
  <2> HIDE DEF s, y
  <2> QED BY <1>4, <1>5, ChainIs
<1>7. fixnum_shl(f, shift) = [limbs |-> Chain(s).limbs, carry |-> (whole /\ f[1] # 0) \/ Chain(s).carry # 0]
  <2>1. fixnum_shl(f, shift) =
          [limbs |-> Chain([k \in DOMAIN g |-> g[k] * 2^b]).limbs,
           carry |-> (whole /\ f[1] # 0) \/ Chain([k \in DOMAIN g |-> g[k] * 2^b]).carry # 0]
    BY DEF fixnum_shl, whole, g, b
  <2>2. [k \in DOMAIN g |-> g[k] * 2^b] = s
    BY <1>3
  <2> QED BY ONLY <2>1, <2>2
<1>8. y \in Nat /\ x \in Nat /\ Place(n) \in Nat /\ Place(n) >= 1
  <2>1. Place(n) \in Nat /\ Place(n) >= 1
    BY Places
  <2>2. \A p, q \in Nat : p * q \in Nat
    OBVIOUS
  <2>3. Value(g) * 2^b \in Nat /\ f[1] * 2^b \in Nat
    BY ONLY <1>1, <1>2, <1>3, <2>2
  <2> QED BY <2>1, <2>3
<1>9. Value(f) * 2^shift = x * Place(n) + y
  <2>1. CASE ~whole
    <3>1. g = f /\ x = 0
      BY <2>1 DEF g
    <3> QED BY <1>1, <1>3, <1>8, <2>1, <3>1
  <2>2. CASE whole
    <3> DEFINE v == Value(f)
               u == Value(g)
               c == f[1]
               q == 2^b
               P == Place(n)
    <3>1. v * B = c * P + u
      BY <2>2, LimbLeft DEF g
    <3>2. v \in Nat /\ u \in Nat /\ c \in Nat /\ q \in Nat /\ P \in Nat /\ B \in Nat
      BY <1>1, <1>2, <1>3, <1>8, LimbIs
    <3>3. 2^shift = B * q /\ x = c * q /\ y = u * q
      BY <1>1, <2>2
    <3> HIDE DEF v, u, c, q, P, x, y
    <3>4. v * (B * q) = (v * B) * q
      BY ONLY <3>2
    <3>5. (c * P + u) * q = (c * q) * P + u * q
      BY ONLY <3>2
    <3>6. v * 2^shift = x * P + y
      BY ONLY <3>1, <3>3, <3>4, <3>5
    <3> QED BY <3>6 DEF v, P
  <2> QED BY <2>1, <2>2
<1> HIDE DEF s, y
<1>10. (Value(f) * 2^shift) % Place(n) = y % Place(n)
  <2>1. y \in Int /\ x \in Int
    BY <1>8
  <2> HIDE DEF x
  <2>2. (x * Place(n) + y) % Place(n) = y % Place(n)
    BY ONLY <1>8, <2>1, ModPlus
  <2> QED BY <1>9, <2>2
<1>11. (x # 0 \/ y \div Place(n) # 0) <=> Value(f) * 2^shift >= Place(n)
  <2> DEFINE P == Place(n)
             q == y \div P
             m == y % P
  <2>1. q \in Nat /\ m \in 0 .. P - 1 /\ y = q * P + m
    <3>1. y \in Int /\ y \in Nat /\ P \in Nat /\ P >= 1
      BY <1>8
    <3> HIDE DEF P
    <3> QED BY ONLY <3>1, Quotients
  <2>2. P \in Nat /\ P >= 1 /\ x \in Nat
    BY <1>8
  <2> HIDE DEF P, q, m, x
  <2>3. (x # 0 => x * P >= P) /\ (q # 0 => q * P >= P) /\ x * P >= 0 /\ q * P >= 0 /\ 0 * P = 0
    BY ONLY <2>1, <2>2
  <2>4. (x # 0 \/ q # 0) <=> x * P + y >= P
    BY ONLY <2>1, <2>2, <2>3
  <2> QED BY <1>9, <2>4 DEF P, q
<1>12. (whole /\ f[1] # 0) <=> x # 0
  <2>1. \A c, q \in Nat : q >= 1 => (c # 0 <=> c * q # 0)
    OBVIOUS
  <2> QED BY <1>1, <1>2, <2>1
<1> HIDE DEF x
<1>13. /\ fixnum_shl(f, shift).limbs = Chain(s).limbs
       /\ fixnum_shl(f, shift).carry = ((whole /\ f[1] # 0) \/ Chain(s).carry # 0)
  BY <1>7
<1>14. ((whole /\ f[1] # 0) \/ Chain(s).carry # 0) <=> Value(f) * 2^shift >= Place(n)
  BY <1>6, <1>11, <1>12
<1> QED BY <1>6, <1>10, <1>13, <1>14, Zenon

(* A number without its last limb, and a zero in front. *)
LEMMA LimbRight ==
  ASSUME NEW n \in Nat, n >= 1, NEW f \in NumbersOf(n)
  PROVE  LET g == <<0>> \o Front(f) IN
           /\ g \in NumbersOf(n) /\ Last(f) \in 0 .. B - 1
           /\ Value(f) = Value(g) * B + Last(f)
<1>1. PICK m \in Nat : n = m + 1
  <2>1. n - 1 \in Nat /\ n = (n - 1) + 1
    OBVIOUS
  <2> QED BY <2>1
<1> DEFINE g == <<0>> \o Front(f)
           t == [k \in 1 .. m |-> f[k]]
<1>2. f \in [1 .. n -> Limbs] /\ Len(f) = n /\ f \in Seq(Limbs) /\ 0 \in Limbs
  <2>1. f \in [1 .. n -> Limbs]
    BY DEF NumbersOf
  <2>2. f \in Seq(Limbs)
    BY <2>1
  <2>3. Len(f) = n
    BY <2>1, LenProperties
  <2> QED BY <2>1, <2>2, <2>3, LimbIs
<1>3. Front(f) \in Seq(Limbs) /\ Len(Front(f)) = m /\ \A k \in 1 .. m : Front(f)[k] = f[k]
  <2>1. Front(f) = SubSeq(f, 1, m)
    BY <1>1, <1>2 DEF Front
  <2>2. \A k \in 1 .. m : f[k] \in Limbs
    BY <1>1, <1>2
  <2>3. SubSeq(f, 1, m) \in Seq(Limbs) /\ Len(SubSeq(f, 1, m)) = m
        /\ \A k \in 1 .. m : SubSeq(f, 1, m)[k] = f[k]
    BY <1>1, <1>2, <2>2
  <2> QED BY <2>1, <2>3
<1>4. g \in Seq(Limbs) /\ Len(g) = 1 + m /\ g[1] = 0 /\ \A k \in 1 .. m : g[1 + k] = f[k]
  <2>1. <<0>> \in Seq(Limbs) /\ Len(<<0>>) = 1 /\ <<0>>[1] = 0
    BY <1>2
  <2>2. g \in Seq(Limbs) /\ Len(g) = 1 + m
    BY <1>3, <2>1, ConcatProperties
  <2>3. g[1] = 0
    BY <1>3, <2>1, ConcatProperties
  <2>4. ASSUME NEW k \in 1 .. m PROVE g[1 + k] = f[k]
    <3>1. 1 + k \in 1 .. Len(<<0>>) + Len(Front(f)) /\ ~(1 + k <= Len(<<0>>)) /\ (1 + k) - Len(<<0>>) = k
      BY <1>3, <2>1
    <3>2. g[1 + k] = Front(f)[k]
      BY <1>3, <2>1, <3>1, ConcatProperties
    <3> QED BY <1>3, <3>2
  <2> QED BY <2>2, <2>3, <2>4
<1>5. g \in [1 .. 1 + m -> Limbs]
  <2> HIDE DEF g
  <2> QED BY <1>4, LenProperties
<1> HIDE DEF g
<1>6. f \in [1 .. m + 1 -> Int] /\ g \in [1 .. 1 + m -> Int] /\ B \in Int /\ 1 \in Nat
  BY <1>1, <1>2, <1>5, LimbIs
<1>7. NumberOf(f, B) = NumberOf(t, B) * B + f[m + 1]
  BY ONLY m \in Nat, <1>6, NumberLast
<1>8. NumberOf(g, B) = NumberOf([k \in 1 .. m |-> g[1 + k]], B)
  <2>1. \A k \in 1 .. 1 : g[k] = 0
    BY <1>4
  <2> QED BY ONLY m \in Nat, <1>6, <2>1, Padded
<1>9. [k \in 1 .. m |-> g[1 + k]] = t
  BY <1>4
<1>10. Last(f) = f[m + 1] /\ f[m + 1] \in 0 .. B - 1
  <2>1. m + 1 \in 1 .. n
    BY <1>1
  <2> QED BY <1>1, <1>2, <2>1, LimbIs DEF Last
<1>11. Value(f) = NumberOf(f, B) /\ Value(g) = NumberOf(g, B) /\ g \in NumbersOf(n)
  <2>1. 1 + m = n
    BY <1>1
  <2> QED BY <1>5, <2>1 DEF Value, B, NumbersOf
<1> HIDE DEF t
<1> QED BY <1>7, <1>8, <1>9, <1>10, <1>11 DEF g

LEMMA Below ==
  ASSUME NEW q \in Nat, NEW r \in Nat, NEW y \in 0 .. q - 1, NEW z \in 0 .. r - 1
  PROVE  y * r + z \in Nat /\ y * r + z < q * r
<1>1. y \in Nat /\ y <= q - 1 /\ q - 1 \in Nat
  OBVIOUS
<1>2. y * r <= (q - 1) * r /\ y * r \in Nat
  BY <1>1
<1>3. (q - 1) * r = q * r - r /\ q * r \in Nat
  OBVIOUS
<1> QED BY <1>2, <1>3

LEMMA ShrLoop ==
  ASSUME NEW n \in Nat, NEW g \in NumbersOf(n), NEW b \in Nat,
         NEW from, from[0] = [limbs |-> <<>>, carry |-> 0],
         \A k \in 0 .. n - 1 :
           /\ from[k + 1].limbs = Append(from[k].limbs, (from[k].carry * B + g[k + 1]) \div 2^b)
           /\ from[k + 1].carry = (from[k].carry * B + g[k + 1]) % 2^b
  PROVE  /\ from[n].limbs \in NumbersOf(n)
         /\ Value(from[n].limbs) = Value(g) \div 2^b /\ from[n].carry = Value(g) % 2^b
<1> DEFINE q == 2^b
           c == [k \in 0 .. n |-> from[k].carry]
           L == [k \in 0 .. n |-> from[k].limbs]
           x(k) == c[k] * B + g[k + 1]
           l == [k \in 1 .. n |-> x(k - 1) \div q]
<1>0. q \in Nat /\ q >= 1 /\ B \in Nat /\ B >= 2 /\ q \in Int
  BY TwoPower, LimbIs
<1>1. \A k \in 1 .. n : g[k] \in 0 .. B - 1
  BY LimbsAreNumbers
<1>2. from[0] = [limbs |-> <<>>, carry |-> 0]
  OBVIOUS
<1>3. ASSUME NEW k \in 0 .. n - 1
      PROVE  /\ from[k + 1].limbs = Append(from[k].limbs, (from[k].carry * B + g[k + 1]) \div q)
             /\ from[k + 1].carry = (from[k].carry * B + g[k + 1]) % q
  OBVIOUS
<1> HIDE DEF q
<1>4. ASSUME NEW y \in 0 .. q - 1, NEW z \in 0 .. B - 1
      PROVE  /\ (y * B + z) \div q \in Limbs /\ (y * B + z) % q \in 0 .. q - 1
             /\ y * B + z = ((y * B + z) \div q) * q + ((y * B + z) % q)
  <2> DEFINE w == y * B + z
             d == w \div q
             m == w % q
  <2>1. w \in Nat /\ w \in Int /\ w < q * B
    <3>1. w \in Nat /\ w < q * B
      BY ONLY <1>0, y \in 0 .. q - 1, z \in 0 .. B - 1, Below
    <3> HIDE DEF w
    <3> QED BY <3>1
  <2>2. d \in Int /\ m \in 0 .. q - 1 /\ w = d * q + m /\ d \in Nat
    <3> HIDE DEF w
    <3> QED BY ONLY <1>0, <2>1, Quotients
  <2> HIDE DEF d, m, w
  <2>3. d >= B => d * q >= B * q
    BY ONLY <1>0, <2>2
  <2>4. d < B
    BY ONLY <1>0, <2>1, <2>2, <2>3
  <2>5. d \in Limbs
    BY <2>2, <2>4, LimbIs
  <2> QED BY <2>2, <2>5 DEF d, m, w
<1> DEFINE Yes == {k \in 0 .. n : from[k].limbs \in Seq(Limbs) /\ from[k].carry \in 0 .. q - 1}
<1>5. 0 \in Yes
  <2>1. <<>> \in Seq(Limbs) /\ 0 \in 0 .. q - 1 /\ 0 \in 0 .. n
    BY <1>0
  <2>2. from[0].limbs = <<>> /\ from[0].carry = 0
    BY <1>2
  <2> QED BY <2>1, <2>2
<1>6. ASSUME NEW k \in 0 .. n - 1, k \in Yes PROVE k + 1 \in Yes
  <2>1. k + 1 \in 0 .. n /\ k + 1 \in 1 .. n
    OBVIOUS
  <2>2. from[k].limbs \in Seq(Limbs) /\ from[k].carry \in 0 .. q - 1 /\ g[k + 1] \in 0 .. B - 1
    BY <1>1, <1>6, <2>1
  <2>3. /\ (from[k].carry * B + g[k + 1]) \div q \in Limbs
        /\ (from[k].carry * B + g[k + 1]) % q \in 0 .. q - 1
    BY <1>4, <2>2
  <2>4. from[k + 1].limbs \in Seq(Limbs)
    <3>1. Append(from[k].limbs, (from[k].carry * B + g[k + 1]) \div q) \in Seq(Limbs)
      BY ONLY <2>2, <2>3, AppendProperties
    <3> QED BY <1>3, <3>1
  <2>5. from[k + 1].carry \in 0 .. q - 1
    BY <1>3, <2>3
  <2> QED BY <2>1, <2>4, <2>5
<1>7. \A k \in 0 .. n : from[k].limbs \in Seq(Limbs) /\ from[k].carry \in 0 .. q - 1
  <2>1. \A k \in 0 .. n : k \in Yes
    <3> HIDE DEF Yes
    <3> QED BY <1>5, <1>6, InductTo
  <2> QED BY <2>1
<1>8. c \in [0 .. n -> Int] /\ L \in [0 .. n -> Seq(Limbs)] /\ c[0] = 0 /\ L[0] = <<>>
  <2>1. \A k \in 0 .. n : from[k].carry \in Int
    BY <1>7, <1>0
  <2>2. c \in [0 .. n -> Int] /\ L \in [0 .. n -> Seq(Limbs)]
    BY <1>7, <2>1
  <2> QED BY <1>2, <2>2
<1>9. ASSUME NEW k \in 0 .. n - 1
      PROVE  /\ L[k + 1] = Append(L[k], l[k + 1]) /\ l[k + 1] \in Limbs
             /\ l[k + 1] * q + c[k + 1] = c[k] * B + g[k + 1]
  <2>1. k + 1 \in 0 .. n /\ k \in 0 .. n /\ k + 1 \in 1 .. n /\ (k + 1) - 1 = k
    OBVIOUS
  <2>2. c[k] = from[k].carry /\ c[k + 1] = from[k + 1].carry /\ L[k] = from[k].limbs /\ L[k + 1] = from[k + 1].limbs
    BY <2>1
  <2>3. l[k + 1] = (c[k] * B + g[k + 1]) \div q
    <3> HIDE DEF c
    <3> QED BY <2>1
  <2>4. c[k] \in 0 .. q - 1 /\ g[k + 1] \in 0 .. B - 1
    BY <1>1, <1>7, <2>1, <2>2
  <2> HIDE DEF c, L, l
  <2>5. /\ (c[k] * B + g[k + 1]) \div q \in Limbs
        /\ c[k] * B + g[k + 1] = ((c[k] * B + g[k + 1]) \div q) * q + ((c[k] * B + g[k + 1]) % q)
    BY ONLY <1>4, <2>4
  <2>6. c[k + 1] = (c[k] * B + g[k + 1]) % q /\ L[k + 1] = Append(L[k], l[k + 1])
    BY <1>3, <2>2, <2>3
  <2> QED BY ONLY <2>3, <2>5, <2>6
<1> HIDE DEF c, L
<1>10. l \in [1 .. n -> Limbs]
  <2>1. ASSUME NEW k \in 1 .. n PROVE x(k - 1) \div q \in Limbs
    <3>1. k - 1 \in 0 .. n - 1 /\ (k - 1) + 1 = k
      OBVIOUS
    <3>2. l[(k - 1) + 1] \in Limbs
      <4> HIDE DEF l
      <4> QED BY <1>9, <3>1
    <3>3. l[k] \in Limbs
      BY <3>1, <3>2
    <3> QED BY <3>3
  <2> HIDE DEF x
  <2> QED BY <2>1
<1> HIDE DEF l
<1>11. L[n] = l
  BY ONLY n \in Nat, <1>8, <1>9, <1>10, Gathered
<1>12. l \in NumbersOf(n) /\ l \in [1 .. n -> Int] /\ g \in [1 .. n -> Int]
  BY <1>10, LimbsAreNumbers DEF NumbersOf
<1>13. NumberOf(l, B) * q + c[n] = NumberOf(g, B)
  <2>1. B \in Int /\ \A k \in 0 .. n - 1 : l[k + 1] * q + c[k + 1] = c[k] * B + g[k + 1]
    BY <1>0, <1>9, SMTT(30)
  <2>2. Divides(q, n, g, B, l, c)
    BY <1>8, <1>12, <2>1 DEF Divides
  <2> QED BY ONLY n \in Nat, <1>0, <2>1, <2>2, Remainders
<1>14. c[n] \in 0 .. q - 1 /\ c[n] = from[n].carry /\ L[n] = from[n].limbs
  <2>1. n \in 0 .. n
    OBVIOUS
  <2> QED BY <1>7, <2>1 DEF c, L
<1>15. Value(g) \div q = Value(l) /\ Value(g) % q = c[n]
  <2>1. Value(l) = NumberOf(l, B) /\ Value(g) = NumberOf(g, B) /\ Value(l) \in Int /\ Value(g) \in Int
    <3>1. Value(l) \in Nat /\ Value(g) \in Nat
      BY <1>12, ValueRange
    <3> QED BY <3>1 DEF Value, B
  <2>2. Value(g) = Value(l) * q + c[n]
    BY <1>13, <2>1
  <2> QED BY ONLY <1>0, <1>14, <2>1, <2>2, QuotientIs
<1> QED BY <1>11, <1>12, <1>14, <1>15 DEF q

LEMMA ShrIs ==
  ASSUME NEW n \in Nat, n >= 1, NEW f \in NumbersOf(n), NEW shift \in 0 .. 2 * LimbBits
  PROVE  LET r == fixnum_shr(f, shift) IN
           /\ r.limbs \in NumbersOf(n)
           /\ Value(r.limbs) = Value(f) \div 2^shift /\ r.rest = Value(f) % 2^shift
<1> DEFINE whole == ShiftsWholeLimb(shift)
           b == BitsLeft(shift)
           g == IF whole THEN <<0>> \o Front(f) ELSE f
           first == [limbs |-> <<>>, carry |-> 0]
           Loop(h) == h = [k \in 0 .. Len(g) |->
             IF k = 0 THEN [limbs |-> <<>>, carry |-> 0]
             ELSE LET above == h[k - 1]
                      x     == above.carry * 2^LimbBits + g[k]
                  IN  [limbs |-> Append(above.limbs, x \div 2^b), carry |-> x % 2^b]]
           from == CHOOSE h : Loop(h)
<1>1. /\ b \in Nat /\ 2^b \in Nat /\ 2^b >= 1 /\ 2^shift \in Nat /\ 2^shift >= 1
      /\ ~whole => 2^shift = 2^b
      /\ whole => 2^shift = B * 2^b
  BY BitsLeftIs
<1>2. g \in NumbersOf(n) /\ Last(f) \in 0 .. B - 1 /\ (whole => Value(f) = Value(g) * B + Last(f))
  BY LimbRight
<1>3. Len(g) = n /\ Value(g) \in Nat /\ Value(f) \in Nat
  BY <1>2, ValueRange
<1>4. fixnum_shr(f, shift) = [limbs |-> from[Len(g)].limbs,
                              rest |-> IF whole THEN from[Len(g)].carry * 2^LimbBits + Last(f)
                                       ELSE from[Len(g)].carry]
  BY DEF fixnum_shr
<1>5. \E h : Loop(h)
  <2> HIDE DEF g, b
  <2> DEFINE V == [limbs : Seq(Int), carry : Int]
             Go(k, v) == [limbs |-> Append(v.limbs, (v.carry * B + g[k + 1]) \div 2^b),
                          carry |-> (v.carry * B + g[k + 1]) % 2^b]
             step == [p \in (0 .. n - 1) \X V |-> Go(p[1], p[2])]
  <2>1. ASSUME NEW k \in 0 .. n - 1, NEW v \in V PROVE Go(k, v) \in V
    <3>1. v.carry * B + g[k + 1] \in Int
      <4>1. g[k + 1] \in Int /\ v.carry \in Int /\ B \in Int
        BY <1>2, LimbsAreNumbers, LimbIs
      <4> QED BY ONLY <4>1
    <3>2. (v.carry * B + g[k + 1]) \div 2^b \in Int /\ (v.carry * B + g[k + 1]) % 2^b \in 0 .. 2^b - 1
      BY ONLY <1>1, <3>1, Quotients
    <3>3. v.limbs \in Seq(Int) /\ \A y \in 0 .. 2^b - 1 : y \in Int
      BY <1>1
    <3> DEFINE z == v.carry * B + g[k + 1]
    <3> HIDE DEF z
    <3>4. Go(k, v) = [limbs |-> Append(v.limbs, z \div 2^b), carry |-> z % 2^b]
      BY DEF z
    <3>5. z \div 2^b \in Int /\ z % 2^b \in Int
      BY <3>2, <3>3 DEF z
    <3>6. Append(v.limbs, z \div 2^b) \in Seq(Int)
      BY <3>3, <3>5
    <3> HIDE DEF Go
    <3> QED BY <3>4, <3>5, <3>6
  <2>2. step \in [(0 .. n - 1) \X V -> V]
    <3>1. ASSUME NEW p \in (0 .. n - 1) \X V PROVE Go(p[1], p[2]) \in V
      <4>1. PICK k \in 0 .. n - 1, v \in V : p = <<k, v>>
        OBVIOUS
      <4> HIDE DEF Go, V
      <4> QED BY <4>1, <2>1
    <3> HIDE DEF Go, V
    <3> QED BY <3>1
  <2>3. first \in V
    OBVIOUS
  <2>4. PICK h : LoopsTo(h, n, V, first, step)
    <3> HIDE DEF step, V, first
    <3> QED BY <2>2, <2>3, Loops
  <2>5. h \in [0 .. n -> V] /\ h[0] = first
    <3> HIDE DEF step, V, first
    <3> QED BY <2>4 DEF LoopsTo
  <2>6. ASSUME NEW k \in 1 .. n PROVE h[k] = Go(k - 1, h[k - 1])
    <3> HIDE DEF Go, V, first
    <3>1. k - 1 \in 0 .. n - 1 /\ (k - 1) + 1 = k /\ k - 1 \in 0 .. n
      OBVIOUS
    <3>2. h[k] = step[<<k - 1, h[k - 1]>>]
      <4> HIDE DEF step
      <4> QED BY <2>4, <3>1 DEF LoopsTo
    <3>3. h[k - 1] \in V
      BY <2>5, <3>1
    <3> QED BY <3>1, <3>2, <3>3
  <2>7. Loop(h)
    <3>1. ASSUME NEW k \in 0 .. n, k # 0
          PROVE  h[k] = [limbs |-> Append(h[k - 1].limbs, (h[k - 1].carry * B + g[k]) \div 2^b),
                         carry |-> (h[k - 1].carry * B + g[k]) % 2^b]
      <4>1. k \in 1 .. n /\ (k - 1) + 1 = k
        BY <3>1
      <4> QED BY <2>6, <4>1
    <3> HIDE DEF V, step, Go
    <3> QED BY <1>3, <2>5, <3>1 DEF B
  <2> HIDE DEF Loop
  <2> QED BY <2>7
<1>6. Loop(from)
  <2> HIDE DEF Loop
  <2> QED BY <1>5
<1> HIDE DEF g, b, whole
<1>7. from = [k \in 0 .. n |->
           IF k = 0 THEN [limbs |-> <<>>, carry |-> 0]
           ELSE [limbs |-> Append(from[k - 1].limbs, (from[k - 1].carry * B + g[k]) \div 2^b),
                 carry |-> (from[k - 1].carry * B + g[k]) % 2^b]]
  <2> HIDE DEF from
  <2> QED BY <1>3, <1>6 DEF B
<1> HIDE DEF from, Loop
<1>8. /\ from[n].limbs \in NumbersOf(n)
      /\ Value(from[n].limbs) = Value(g) \div 2^b /\ from[n].carry = Value(g) % 2^b
  <2>1. from[0] = [limbs |-> <<>>, carry |-> 0]
    BY <1>7
  <2>2. ASSUME NEW k \in 0 .. n - 1
        PROVE  /\ from[k + 1].limbs = Append(from[k].limbs, (from[k].carry * B + g[k + 1]) \div 2^b)
               /\ from[k + 1].carry = (from[k].carry * B + g[k + 1]) % 2^b
    <3>1. k + 1 \in 0 .. n /\ k + 1 # 0 /\ (k + 1) - 1 = k
      OBVIOUS
    <3>2. from[k + 1] = [limbs |-> Append(from[k].limbs, (from[k].carry * B + g[k + 1]) \div 2^b),
                         carry |-> (from[k].carry * B + g[k + 1]) % 2^b]
      BY <1>7, <3>1
    <3> QED BY <3>2
  <2> QED BY ONLY n \in Nat, <1>1, <1>2, <2>1, <2>2, ShrLoop, SMTT(30)
<1>9. fixnum_shr(f, shift).limbs = from[n].limbs
      /\ fixnum_shr(f, shift).rest = IF whole THEN from[n].carry * B + Last(f) ELSE from[n].carry
  BY <1>3, <1>4 DEF B
<1>10. CASE ~whole
  BY <1>1, <1>8, <1>9, <1>10 DEF g
<1>11. CASE whole
  <2> DEFINE G == Value(g)
             q == 2^b
             Q == G \div q
             c == G % q
             z == Last(f)
  <2>1. Q \in Int /\ c \in 0 .. q - 1 /\ G = Q * q + c
    <3>1. G \in Int /\ q \in Nat /\ q >= 1
      BY <1>1, <1>3
    <3> HIDE DEF G, q
    <3> QED BY ONLY <3>1, Quotients
  <2>2. q \in Nat /\ q >= 1 /\ B \in Nat /\ B >= 2 /\ z \in 0 .. B - 1
    BY <1>1, <1>2, LimbIs
  <2>3. Value(f) = G * B + z /\ 2^shift = B * q
    BY <1>1, <1>2, <1>11
  <2> HIDE DEF G, q, Q, c, z
  <2>4. Value(f) = Q * (B * q) + (c * B + z)
    <3>1. (Q * q + c) * B = Q * (B * q) + c * B
      BY ONLY <2>1, <2>2
    <3> QED BY ONLY <2>1, <2>2, <2>3, <3>1
  <2>5. c * B + z \in 0 .. B * q - 1
    <3>1. c * B + z \in Nat /\ c * B + z < q * B
      BY ONLY <2>1, <2>2, Below
    <3>2. q * B = B * q /\ B * q \in Nat
      BY <2>2
    <3> HIDE DEF z
    <3> QED BY <3>1, <3>2
  <2>6. Value(f) \in Int /\ B * q \in Nat /\ B * q >= 1
    BY <1>1, <1>3, <2>3
  <2>7. Value(f) \div (B * q) = Q /\ Value(f) % (B * q) = c * B + z
    BY ONLY <2>1, <2>4, <2>5, <2>6, QuotientIs
  <2>8. Value(from[n].limbs) = Q /\ from[n].carry = c
    BY <1>8 DEF Q, c, G, q
  <2> QED BY <1>8, <1>9, <1>11, <2>3, <2>7, <2>8 DEF z
<1> QED BY <1>10, <1>11
-----------------------------------------------------------------------------
LEMMA LogExists ==
  ASSUME NEW N \in Nat, NEW w \in Nat, w >= 1, w < 2^N
  PROVE  \E l \in 0 .. N - 1 : 2^l <= w /\ w < 2^(l + 1)
<1> DEFINE S == {l \in Nat : w < 2^(l + 1)}
<1>1. N # 0
  <2>1. ASSUME N = 0 PROVE FALSE
    <3>1. 2^N = 1
      BY <2>1, TwoToZero
    <3> QED BY <3>1
  <2> QED BY <2>1
<1>2. N - 1 \in Nat /\ (N - 1) + 1 = N
  BY <1>1
<1>3. N - 1 \in S
  BY <1>2
<1>4. PICK l \in S : \A k \in S : l <= k
  <2>1. S \subseteq Nat /\ S # {}
    BY <1>3
  <2> HIDE DEF S
  <2> QED BY <2>1, LeastNumber
<1>5. l \in 0 .. N - 1 /\ w < 2^(l + 1)
  BY <1>2, <1>3, <1>4
<1>6. 2^l <= w
  <2>1. CASE l = 0
    BY <2>1, TwoToZero
  <2>2. CASE l # 0
    <3>1. l - 1 \in Nat /\ (l - 1) + 1 = l /\ ~(l <= l - 1) /\ l \in Nat
      BY <1>5, <2>2
    <3>2. ~(l - 1 \in S)
      BY <1>4, <3>1
    <3>3. ~(w < 2^l)
      BY <3>1, <3>2
    <3> QED BY <3>1, <3>3, TwoPower
  <2> QED BY <2>1, <2>2
<1> QED BY <1>5, <1>6

LEMMA MultiplierIs ==
  ASSUME NEW w \in 2 .. Place(2) - 1
  PROVE  LET m == Multiplier(w) IN
           /\ m.value = w /\ m.pure \in BOOLEAN /\ (m.pure <=> w = 2^m.log2)
           /\ m.log2 \in 1 .. 2 * LimbBits - 1 /\ 2^m.log2 <= w /\ w < 2^(m.log2 + 1)
<1> DEFINE N == 2 * LimbBits
           l == CHOOSE x \in 0 .. 2 * LimbBits - 1 : 2^x <= w /\ w < 2^(x + 1)
<1>1. N \in Nat /\ w \in Nat /\ w >= 1 /\ w < 2^N
  <2>1. Place(2) = 2^N /\ Place(2) \in Nat
    BY LimbIs, Places DEF Place
  <2> QED BY <2>1, LimbIs
<1>2. l \in 0 .. 2 * LimbBits - 1 /\ 2^l <= w /\ w < 2^(l + 1)
  <2>1. \E x \in 0 .. N - 1 : 2^x <= w /\ w < 2^(x + 1)
    <3> HIDE DEF N
    <3> QED BY <1>1, LogExists
  <2> QED BY <2>1
<1>3. Multiplier(w) = [value |-> w, log2 |-> l, pure |-> w = 2^l]
  BY DEF Multiplier
<1> HIDE DEF l
<1>4. l # 0
  <2>1. 2^1 = 2
    OBVIOUS
  <2>2. ASSUME l = 0 PROVE FALSE
    <3>1. l + 1 = 1
      BY <2>2
    <3>2. w < 2
      BY <1>2, <2>1, <3>1
    <3> QED BY <3>2
  <2> QED BY <2>2
<1>5. l \in 1 .. 2 * LimbBits - 1
  BY <1>2, <1>4, LimbIs
<1>6. Multiplier(w).value = w /\ Multiplier(w).log2 = l
  BY <1>3
<1>7. Multiplier(w).pure = (w = 2^l)
  BY <1>3
<1>8. Multiplier(w).pure \in BOOLEAN /\ (Multiplier(w).pure <=> w = 2^l)
  BY <1>7
<1> QED BY ONLY <1>2, <1>5, <1>6, <1>8

LEMMA AtLeastOnce ==
  ASSUME NEW y \in Nat, NEW k \in Nat, k >= 1
  PROVE  y \div k \in Nat /\ (y \div k # 0 <=> y >= k)
<1> DEFINE q == y \div k
           m == y % k
<1>1. q \in Nat /\ m \in 0 .. k - 1 /\ y = q * k + m
  <2>1. y \in Int
    OBVIOUS
  <2>2. y \div k \in Nat /\ y % k \in 0 .. k - 1 /\ y = (y \div k) * k + (y % k)
    BY ONLY <2>1, y \in Nat, k \in Nat, k >= 1, Quotients
  <2> QED BY <2>2
<1> HIDE DEF q, m
<1>2. q # 0 => q * k >= k
  BY <1>1
<1>3. q = 0 => q * k = 0
  OBVIOUS
<1>4. q # 0 <=> y >= k
  BY <1>1, <1>2, <1>3
<1> QED BY <1>1, <1>4 DEF q

LEMMA MulIs ==
  ASSUME NEW n \in Nat, n >= 2, NEW f \in NumbersOf(n), NEW w \in 2 .. Place(2) - 1
  PROVE  LET r == fixnum_mul16(f, Multiplier(w)) IN
           /\ r.limbs \in NumbersOf(n)
           /\ Value(r.limbs) = (Value(f) * w) % Place(n)
           /\ r.carry \in BOOLEAN
           /\ r.carry <=> Value(f) * w >= Place(n)
<1> DEFINE m == Multiplier(w)
           low == LowLimb(w)
           high == HighPart(w)
           V == [low : Seq(Limbs), lo : Nat, hi : Nat]
           first == [low |-> <<>>, lo |-> 0, hi |-> 0]
           Sum(k, v) == v.lo + low * f[k] + LowLimb(v.hi)
           Go(k, v) == [low |-> Append(v.low, LowLimb(Sum(k, v))), lo |-> HighPart(Sum(k, v)),
                        hi |-> MulCarry(v.hi) + high * f[k]]
           step == [p \in (1 .. n) \X V |-> Go(p[1], p[2])]
           Loop(h) == h = [k \in 1 .. Len(f) + 1 |->
             IF k = Len(f) + 1 THEN [low |-> <<>>, lo |-> 0, hi |-> 0]
             ELSE LET acc == h[k + 1]
                      sum == acc.lo + low * f[k] + LowLimb(acc.hi)
                  IN  [low |-> Append(acc.low, LowLimb(sum)), lo |-> HighPart(sum),
                       hi |-> MulCarry(acc.hi) + high * f[k]]]
           from == CHOOSE h : Loop(h)
<1>0. /\ m.value = w /\ m.pure \in BOOLEAN /\ (m.pure <=> w = 2^m.log2)
      /\ m.log2 \in 1 .. 2 * LimbBits - 1
  BY MultiplierIs
<1> HIDE DEF m
<1>a. CASE m.pure
  <2>1. fixnum_mul16(f, m) = fixnum_shl(f, m.log2)
    BY <1>a DEF fixnum_mul16
  <2>2. m.log2 \in 0 .. 2 * LimbBits /\ n >= 1
    BY <1>0, LimbIs
  <2> QED BY <1>0, <1>a, <2>1, <2>2, ShlIs DEF m
<1>b. CASE ~m.pure
  <2>0. /\ Len(f) = n /\ Value(f) \in Nat /\ w \in Nat /\ Place(n) \in Nat /\ Place(n) >= 1
        /\ f \in [1 .. n -> Int] /\ f \in [1 .. n -> Nat]
    <3>1. w \in Nat
      BY Places
    <3> QED BY <3>1, ValueRange, Places, LimbsAreNumbers
  <2>1. low \in Nat /\ high \in Nat /\ low + B * high = w
    BY <2>0, Split2, LimbIs
  <2>2. fixnum_mul16(f, m) = [limbs |-> Reverse(from[1].low), carry |-> from[1].lo + from[1].hi # 0]
    BY <1>0, <1>b, SMTT(30) DEF fixnum_mul16
  <2> HIDE DEF low, high
  <2>3. ASSUME NEW k \in 1 .. n, NEW v \in V
        PROVE  /\ Go(k, v) \in V /\ LowLimb(Sum(k, v)) \in Limbs
               /\ LowLimb(Sum(k, v)) + B * (Go(k, v).lo + Go(k, v).hi) = f[k] * w + (v.lo + v.hi)
    <3>1. v.lo \in Nat /\ v.hi \in Nat /\ v.low \in Seq(Limbs) /\ f[k] \in Nat /\ B \in Nat
      BY <2>0, LimbIs
    <3> DEFINE s == Sum(k, v)
               a == LowLimb(v.hi)
               c == HighPart(v.hi)
    <3>2. a \in Limbs /\ a \in Nat /\ c \in Nat /\ a + B * c = v.hi
      <4>1. a \in Limbs /\ c \in Nat /\ a + B * c = v.hi
        BY <3>1, Split2
      <4> HIDE DEF a, c
      <4> QED BY <4>1, LimbIs
    <3>3. s \in Nat /\ low * f[k] \in Nat /\ high * f[k] \in Nat
      <4>1. \A p, q \in Nat : p * q \in Nat
        OBVIOUS
      <4>2. low * f[k] \in Nat /\ high * f[k] \in Nat
        BY ONLY <2>1, <3>1, <4>1
      <4> HIDE DEF a
      <4>3. s = v.lo + low * f[k] + a
        BY DEF a
      <4> HIDE DEF s
      <4>4. \A p, q, r \in Nat : p + q + r \in Nat
        OBVIOUS
      <4>5. v.lo + low * f[k] + a \in Nat
        BY ONLY <3>1, <3>2, <4>2, <4>4
      <4> QED BY ONLY <4>2, <4>3, <4>5
    <3>4. LowLimb(s) \in Limbs /\ HighPart(s) \in Nat /\ LowLimb(s) + B * HighPart(s) = s /\ LowLimb(s) \in Nat
      <4> HIDE DEF s
      <4>0. s \in Nat /\ s \in Int
        <5>1. s \in Nat
          BY ONLY <3>3
        <5> QED BY ONLY <5>1
      <4>1. LowLimb(s) \in Limbs /\ HighPart(s) \in Nat /\ LowLimb(s) + B * HighPart(s) = s
        BY ONLY <4>0, Split2
      <4> QED BY <4>1, LimbIs
    <3>5. Go(k, v) = [low |-> Append(v.low, LowLimb(s)), lo |-> HighPart(s), hi |-> c + high * f[k]]
      BY DEF MulCarry
    <3>6. s = v.lo + low * f[k] + a
      OBVIOUS
    <3> HIDE DEF s, a, c, Go, Sum
    <3>7. Append(v.low, LowLimb(s)) \in Seq(Limbs)
      BY <3>1, <3>4, AppendProperties
    <3>8. Go(k, v) \in V
      <4>1. \A p, q \in Nat : p + q \in Nat
        OBVIOUS
      <4>2. c + high * f[k] \in Nat
        BY ONLY <3>2, <3>3, <4>1
      <4> QED BY ONLY <3>4, <3>5, <3>7, <4>2
    <3>9. LowLimb(s) + B * (HighPart(s) + (c + high * f[k])) = f[k] * w + (v.lo + v.hi)
      <4> PICK L \in Nat, H \in Nat, x \in Nat, y \in Nat, z \in Nat :
            L = LowLimb(s) /\ H = HighPart(s) /\ x = f[k] /\ y = v.lo /\ z = v.hi
        BY <3>1, <3>4
      <4>1. L + B * H = y + low * x + a /\ a + B * c = z
        BY <3>2, <3>4, <3>6
      <4>2. B * (H + (c + high * x)) = B * H + (B * c + (B * high) * x)
        BY ONLY <2>1, <3>1, <3>2
      <4>3. x * w = low * x + (B * high) * x
        <5>1. x * (low + B * high) = low * x + (B * high) * x
          BY ONLY <2>1, <3>1
        <5> QED BY <2>1, <5>1
      <4>4. low * x \in Nat /\ (B * high) * x \in Nat /\ B * c \in Nat /\ B * H \in Nat
        <5>1. \A p, q \in Nat : p * q \in Nat
          OBVIOUS
        <5> QED BY ONLY <2>1, <3>1, <3>2, <5>1
      <4>5. L + B * (H + (c + high * x)) = x * w + (y + z)
        <5> DEFINE LX == low * x
                   BX == (B * high) * x
                   BC == B * c
                   BH == B * H
                   T  == B * (H + (c + high * x))
                   XW == x * w
        <5>1. LX \in Nat /\ BX \in Nat /\ BC \in Nat /\ BH \in Nat
          BY <4>4
        <5>2. L + BH = y + LX + a /\ a + BC = z
          BY <4>1
        <5>3. T = BH + (BC + BX) /\ XW = LX + BX
          BY <4>2, <4>3
        <5> HIDE DEF LX, BX, BC, BH, T, XW
        <5>4. L \in Nat /\ y \in Nat /\ z \in Nat /\ a \in Nat
          BY <3>2
        <5>5. L + T = XW + (y + z)
          BY ONLY <5>1, <5>2, <5>3, <5>4
        <5> QED BY <5>5 DEF T, XW
      <4> QED BY <4>5
    <3>10. Go(k, v).lo = HighPart(s) /\ Go(k, v).hi = c + high * f[k]
      BY <3>5
    <3> QED BY <3>4, <3>8, <3>9, <3>10 DEF s
  <2>4. step \in [(1 .. n) \X V -> V]
    <3>1. ASSUME NEW p \in (1 .. n) \X V PROVE Go(p[1], p[2]) \in V
      <4>1. PICK k \in 1 .. n, v \in V : p = <<k, v>>
        OBVIOUS
      <4> HIDE DEF Go, V
      <4> QED BY <4>1, <2>3
    <3> HIDE DEF Go, V
    <3> QED BY <3>1
  <2>5. first \in V
    OBVIOUS
  <2>6. PICK h : LoopsFrom(h, n, V, first, step)
    <3> HIDE DEF step, V, first
    <3> QED BY <2>4, <2>5, LoopsDown
  <2>7. h \in [1 .. n + 1 -> V] /\ h[n + 1] = first
    <3> HIDE DEF step, V, first
    <3> QED BY <2>6 DEF LoopsFrom
  <2>8. ASSUME NEW k \in 1 .. n PROVE h[k] = Go(k, h[k + 1]) /\ h[k + 1] \in V
    <3> HIDE DEF Go, V, first
    <3>1. k + 1 \in 1 .. n + 1
      OBVIOUS
    <3>2. h[k] = step[<<k, h[k + 1]>>]
      <4> HIDE DEF step
      <4> QED BY <2>6 DEF LoopsFrom
    <3>3. h[k + 1] \in V
      BY <2>7, <3>1
    <3> QED BY <3>2, <3>3
  <2>9. Loop(h)
    <3>1. ASSUME NEW k \in 1 .. n + 1, k # n + 1 PROVE h[k] = Go(k, h[k + 1])
      <4>1. k \in 1 .. n
        BY <3>1
      <4> HIDE DEF Go
      <4> QED BY <2>8, <4>1
    <3> HIDE DEF V
    <3> QED BY <2>0, <2>7, <3>1
  <2>10. Loop(from)
    <3> HIDE DEF Loop
    <3> QED BY <2>9
  <2>11. from[n + 1] = first /\ \A k \in 1 .. n : from[k] = Go(k, from[k + 1])
    <3> HIDE DEF from, V
    <3>1. n + 1 \in 1 .. n + 1 /\ \A k \in 1 .. n : k \in 1 .. n + 1 /\ k # n + 1
      OBVIOUS
    <3> QED BY <2>0, <2>10, <3>1
  <2> HIDE DEF from, Loop, Go
  <2>12. \A k \in 1 .. n + 1 : from[k] = h[k]
    <3> DEFINE Yes == {j \in 0 .. n : from[n + 1 - j] = h[n + 1 - j]}
    <3>1. 0 \in Yes
      <4>1. n + 1 - 0 = n + 1 /\ 0 \in 0 .. n
        OBVIOUS
      <4> HIDE DEF first, V
      <4>2. from[n + 1] = h[n + 1]
        BY <2>7, <2>11
      <4> QED BY ONLY <4>1, <4>2
    <3>2. ASSUME NEW j \in 0 .. n - 1, j \in Yes PROVE j + 1 \in Yes
      <4>1. n + 1 - (j + 1) \in 1 .. n /\ (n + 1 - (j + 1)) + 1 = n + 1 - j /\ j + 1 \in 0 .. n
        OBVIOUS
      <4>2. from[n + 1 - (j + 1)] = Go(n + 1 - (j + 1), from[n + 1 - j])
        BY <2>11, <4>1
      <4>3. h[n + 1 - (j + 1)] = Go(n + 1 - (j + 1), h[n + 1 - j])
        BY <2>8, <4>1
      <4> QED BY <3>2, <4>1, <4>2, <4>3
    <3>3. \A j \in 0 .. n : j \in Yes
      <4> HIDE DEF Yes
      <4> QED BY <3>1, <3>2, InductTo
    <3>4. ASSUME NEW k \in 1 .. n + 1 PROVE from[k] = h[k]
      <4>1. n + 1 - k \in 0 .. n /\ n + 1 - (n + 1 - k) = k
        OBVIOUS
      <4> QED BY <3>3, <4>1
    <3> QED BY <3>4
  <2> DEFINE L == [k \in 1 .. n + 1 |-> h[k].low]
             e == [k \in 1 .. n + 1 |-> h[k].lo + h[k].hi]
             l == [k \in 1 .. n |-> LowLimb(Sum(k, h[k + 1]))]
             s == [k \in 1 .. n |-> f[k] * w]
  <2>13. L \in [1 .. n + 1 -> Seq(Limbs)] /\ e \in [1 .. n + 1 -> Int] /\ L[n + 1] = <<>> /\ e[n + 1] = 0
    <3>1. \A k \in 1 .. n + 1 : h[k].low \in Seq(Limbs) /\ h[k].lo \in Nat /\ h[k].hi \in Nat
      BY <2>7
    <3>2. L \in [1 .. n + 1 -> Seq(Limbs)] /\ e \in [1 .. n + 1 -> Int]
      BY <3>1
    <3>3. n + 1 \in 1 .. n + 1
      OBVIOUS
    <3>4. h[n + 1].low = <<>> /\ h[n + 1].lo + h[n + 1].hi = 0
      <4>1. h[n + 1] = first
        BY <2>7
      <4>2. h[n + 1].low = <<>> /\ h[n + 1].lo = 0 /\ h[n + 1].hi = 0
        BY ONLY <4>1 DEF first
      <4> QED BY ONLY <4>2
    <3>5. L[n + 1] = <<>> /\ e[n + 1] = 0
      BY ONLY <3>3, <3>4
    <3> QED BY ONLY <3>2, <3>5
  <2>14. ASSUME NEW k \in 1 .. n
         PROVE  /\ l[k] \in Limbs /\ L[k] = Append(L[k + 1], l[k]) /\ l[k] + B * e[k] = s[k] + e[k + 1]
    <3>1. k \in 1 .. n + 1 /\ k + 1 \in 1 .. n + 1
      OBVIOUS
    <3>2. /\ LowLimb(Sum(k, h[k + 1])) \in Limbs
          /\ LowLimb(Sum(k, h[k + 1])) + B * (h[k].lo + h[k].hi) = f[k] * w + (h[k + 1].lo + h[k + 1].hi)
      <4> HIDE DEF V, Sum
      <4> QED BY <2>3, <2>8
    <3>3. h[k].low = Append(h[k + 1].low, LowLimb(Sum(k, h[k + 1])))
      <4>1. h[k] = Go(k, h[k + 1])
        BY <2>8
      <4> HIDE DEF Sum
      <4> QED BY ONLY <4>1 DEF Go
    <3> HIDE DEF Sum
    <3> QED BY <3>1, <3>2, <3>3
  <2>15. l \in [1 .. n -> Limbs] /\ s \in [1 .. n -> Int]
    <3>1. \A k \in 1 .. n : LowLimb(Sum(k, h[k + 1])) \in Limbs
      <4> HIDE DEF Sum, L, e
      <4> QED BY <2>14
    <3>2. \A k \in 1 .. n : f[k] * w \in Int
      BY <2>0
    <3> HIDE DEF Sum
    <3> QED BY <3>1, <3>2
  <2>16. NumberOf(s, B) = Value(f) * w
    <3>1. w \in Int /\ B \in Int
      BY <2>0, LimbIs
    <3>2. NumberOf(s, B) = NumberOf(f, B) * w
      BY ONLY n \in Nat, <2>0, <3>1, NumberScale
    <3> QED BY <3>2 DEF Value, B
  <2>17. fixnum_mul16(f, m).limbs = Reverse(L[1]) /\ fixnum_mul16(f, m).carry = (e[1] # 0)
    <3>1. 1 \in 1 .. n + 1
      OBVIOUS
    <3>2. from[1] = h[1] /\ L[1] = h[1].low /\ e[1] = h[1].lo + h[1].hi
      BY <2>12, <3>1
    <3> QED BY <2>2, <3>2
  <2> HIDE DEF l, L, e, s
  <2>18. Reverse(L[1]) = l
    BY <2>13, <2>14, <2>15, GatheredDown
  <2>19. HandsOn(l, e, s, n)
    BY <2>13, <2>14, <2>15 DEF HandsOn, NumbersOf
  <2>20. Value(l) = (Value(f) * w) % Place(n) /\ e[1] = (Value(f) * w) \div Place(n)
    BY <2>16, <2>19, HandedOn
  <2>21. e[1] # 0 <=> Value(f) * w >= Place(n)
    <3> DEFINE y == Value(f) * w
    <3>1. y \in Nat
      BY <2>0
    <3> HIDE DEF y
    <3>2. y \div Place(n) # 0 <=> y >= Place(n)
      BY ONLY <2>0, <3>1, AtLeastOnce
    <3> QED BY <2>20, <3>2 DEF y
  <2>22. /\ fixnum_mul16(f, m).limbs \in NumbersOf(n)
         /\ Value(fixnum_mul16(f, m).limbs) = (Value(f) * w) % Place(n)
    BY <2>15, <2>17, <2>18, <2>20 DEF NumbersOf
  <2>23. /\ fixnum_mul16(f, m).carry \in BOOLEAN
         /\ fixnum_mul16(f, m).carry <=> Value(f) * w >= Place(n)
    BY <2>17, <2>21
  <2> QED BY <2>22, <2>23 DEF m
<1> QED BY <1>0, <1>a, <1>b
-----------------------------------------------------------------------------
(* Dividing in two stages, and both numbers by a common factor.             *)
LEMMA TwoStage ==
  ASSUME NEW x \in Nat, NEW a \in Nat, a >= 1, NEW c \in Nat, c >= 1
  PROVE  /\ x \div (a * c) = (x \div a) \div c
         /\ x % (a * c) = ((x \div a) % c) * a + (x % a)
<1> DEFINE q == x \div a
           z == x % a
           Q == q \div c
           y == q % c
<1>1. q \in Nat /\ z \in 0 .. a - 1 /\ x = q * a + z /\ z \in Nat
  <2>1. x \in Int
    OBVIOUS
  <2>2. q \in Nat /\ z \in 0 .. a - 1 /\ x = q * a + z
    BY ONLY <2>1, x \in Nat, a \in Nat, a >= 1, Quotients
  <2> QED BY <2>2
<1> HIDE DEF q, z
<1>2. Q \in Nat /\ y \in 0 .. c - 1 /\ q = Q * c + y /\ y \in Nat
  <2>1. q \in Int
    BY <1>1
  <2>2. Q \in Nat /\ y \in 0 .. c - 1 /\ q = Q * c + y
    BY ONLY <1>1, <2>1, c \in Nat, c >= 1, Quotients
  <2> QED BY <2>2
<1> HIDE DEF Q, y
<1>3. y * a + z \in Nat /\ y * a + z < c * a
  BY <1>1, <1>2, Below
<1>4. c * a = a * c /\ a * c \in Nat /\ a * c >= 1
  <2>1. \A p, t \in Nat : p * t \in Nat /\ p * t = t * p /\ (p >= 1 /\ t >= 1 => p * t >= 1)
    OBVIOUS
  <2> QED BY <2>1
<1>5. x = Q * (a * c) + (y * a + z)
  <2>1. (Q * c + y) * a = Q * (a * c) + y * a
    BY ONLY <1>1, <1>2, a \in Nat, c \in Nat
  <2>2. Q * (a * c) \in Nat /\ y * a \in Nat
    <3>1. \A p, t \in Nat : p * t \in Nat
      OBVIOUS
    <3> QED BY ONLY <1>2, <1>4, <3>1, a \in Nat
  <2> DEFINE u == Q * (a * c)
             v == y * a
  <2>3. x = (u + v) + z
    BY <1>1, <1>2, <2>1
  <2> HIDE DEF u, v
  <2>4. x = u + (v + z)
    <3>1. u \in Nat /\ v \in Nat
      BY <2>2 DEF u, v
    <3> QED BY ONLY <1>1, <2>3, <3>1
  <2> QED BY <2>4 DEF u, v
<1>6. y * a + z \in 0 .. a * c - 1
  <2> DEFINE u == y * a + z
             w == a * c
  <2>1. u \in Nat /\ u < w /\ w \in Nat
    BY <1>3, <1>4
  <2> HIDE DEF u, w
  <2>2. u \in 0 .. w - 1
    BY <2>1
  <2> QED BY <2>2 DEF u, w
<1>7. x \div (a * c) = Q /\ x % (a * c) = y * a + z
  <2>1. x \in Int /\ Q \in Int
    BY <1>2
  <2> QED BY ONLY <2>1, <1>4, <1>5, <1>6, QuotientIs
<1> QED BY <1>7 DEF Q, y, q, z

LEMMA Scaled ==
  ASSUME NEW x \in Nat, NEW a \in Nat, a >= 1, NEW c \in Nat, c >= 1
  PROVE  (x * a) % (c * a) = (x % c) * a /\ (x * a) \div (c * a) = x \div c
<1>1. x * a \in Nat /\ c * a = a * c
  <2>1. \A p, t \in Nat : p * t \in Nat /\ p * t = t * p
    OBVIOUS
  <2> QED BY <2>1
<1>2. (x * a) \div a = x /\ (x * a) % a = 0
  <2>1. x * a = x * a + 0 /\ x * a \in Int /\ x \in Int /\ 0 \in 0 .. a - 1
    BY <1>1
  <2> QED BY ONLY <2>1, a \in Nat, a >= 1, QuotientIs
<1>3. (x * a) % (a * c) = (x % c) * a + 0 /\ (x * a) \div (a * c) = x \div c
  <2> DEFINE y == x * a
  <2>1. y \div a = x /\ y % a = 0 /\ y \in Nat
    BY <1>1, <1>2
  <2> HIDE DEF y
  <2>2. y \div (a * c) = (y \div a) \div c /\ y % (a * c) = ((y \div a) % c) * a + (y % a)
    BY ONLY <2>1, a \in Nat, a >= 1, c \in Nat, c >= 1, TwoStage
  <2>3. y % (a * c) = (x % c) * a + 0 /\ y \div (a * c) = x \div c
    BY <2>1, <2>2
  <2> QED BY <2>3 DEF y
<1>4. (x % c) * a \in Nat
  <2>1. x % c \in Nat
    BY Quotients
  <2>2. \A p, t \in Nat : p * t \in Nat
    OBVIOUS
  <2> QED BY ONLY <2>1, <2>2, a \in Nat
<1>5. (x % c) * a + 0 = (x % c) * a
  <2> DEFINE y == (x % c) * a
  <2>1. y \in Nat
    BY <1>4
  <2> HIDE DEF y
  <2>2. y + 0 = y
    BY <2>1
  <2> QED BY <2>2 DEF y
<1> QED BY <1>1, <1>3, <1>5

(* A remainder of a multiple and something.                                  *)
LEMMA Multiples ==
  ASSUME NEW x \in Nat, NEW t \in Nat, NEW s \in Nat, s <= t, NEW y \in Nat
  PROVE  (x * 2^t + y) % 2^s = y % 2^s
<1>1. PICK d \in Nat : t = d + s
  <2>1. t - s \in Nat /\ t = (t - s) + s
    OBVIOUS
  <2> QED BY <2>1
<1>2. 2^t = 2^d * 2^s /\ 2^d \in Nat /\ 2^s \in Nat /\ 2^s >= 1
  BY <1>1, TwoSum, TwoPower
<1>3. x * 2^t = (x * 2^d) * 2^s /\ x * 2^d \in Int
  BY <1>2
<1>4. ((x * 2^d) * 2^s + y) % 2^s = y % 2^s
  <2>1. y \in Int
    OBVIOUS
  <2> QED BY ONLY <1>2, <1>3, <2>1, ModPlus
<1> QED BY <1>3, <1>4
LEMMA PowerMod ==
  ASSUME NEW t \in Nat, NEW s \in Nat, s <= t
  PROVE  2^t % 2^s = 0
<1>1. PICK d \in Nat : t = d + s
  <2>1. t - s \in Nat /\ t = (t - s) + s
    OBVIOUS
  <2> QED BY <2>1
<1>2. 2^t = 2^d * 2^s /\ 2^d \in Nat /\ 2^s \in Nat /\ 2^s >= 1
  BY <1>1, TwoSum, TwoPower
<1> PICK x \in Nat, k \in Nat : x = 2^d /\ k = 2^s
  BY <1>2
<1>3. (x * k + 0) % k = 0 % k
  <2>1. 0 \in Int /\ x \in Int /\ k >= 1
    BY <1>2
  <2> QED BY ONLY <2>1, k \in Nat, ModPlus
<1>4. 0 % k = 0
  <2>1. k >= 1
    BY <1>2
  <2> QED BY ONLY <2>1, k \in Nat, ModSmall
<1>5. x * k + 0 = x * k
  OBVIOUS
<1> QED BY ONLY <1>2, <1>3, <1>4, <1>5, x = 2^d, k = 2^s

-----------------------------------------------------------------------------
(* How a field of size bits, the first at bit b of a limb, spreads over     *)
(* three limbs.                                                             *)
Spread(b, size, s1, s2, s3) ==
  \/ size <= LimbBits - b /\ s1 = size /\ s2 = 0 /\ s3 = 0
  \/ /\ LimbBits - b < size /\ size <= (LimbBits - b) + LimbBits
     /\ s1 = LimbBits - b /\ s2 = size - (LimbBits - b) /\ s3 = 0
  \/ /\ (LimbBits - b) + LimbBits < size /\ size <= (LimbBits - b) + 2 * LimbBits
     /\ s1 = LimbBits - b /\ s2 = LimbBits /\ s3 = size - ((LimbBits - b) + LimbBits)

LEMMA SpreadIs ==
  ASSUME NEW offset \in Nat, NEW size \in 1 .. 2 * LimbBits + 1
  PROVE  LET ss == FieldSizes(offset, size) IN
           /\ offset % LimbBits \in 0 .. LimbBits - 1
           /\ Spread(offset % LimbBits, size, ss[1], ss[2], ss[3])
<1> DEFINE b == offset % LimbBits
           ss == FieldSizes(offset, size)
<1>1. b \in 0 .. LimbBits - 1
  <2>1. offset \in Int
    OBVIOUS
  <2> QED BY <2>1, LimbIs, Quotients
<1>2. ss[1] = (IF LimbBits - b >= size THEN size ELSE LimbBits - b)
  BY DEF FieldSizes
<1>3. ss[2] = (IF size - ss[1] > LimbBits THEN LimbBits ELSE size - ss[1])
  BY DEF FieldSizes
<1>4. ss[3] = size - ss[1] - ss[2]
  BY DEF FieldSizes
<1> HIDE DEF ss, b
<1>5. LimbBits \in Nat /\ LimbBits >= 1 /\ size \in Nat /\ size >= 1 /\ size <= 2 * LimbBits + 1 /\ b \in Nat
      /\ b <= LimbBits - 1
  BY <1>1, LimbIs
<1>6. CASE LimbBits - b >= size
  <2>1. ss[1] = size /\ ss[2] = 0 /\ ss[3] = 0
    BY <1>2, <1>3, <1>4, <1>5, <1>6
  <2> QED BY <1>1, <1>5, <1>6, <2>1 DEF Spread, b, ss
<1>7. CASE ~(LimbBits - b >= size) /\ ~(size - (LimbBits - b) > LimbBits)
  <2>1. ss[1] = LimbBits - b /\ ss[2] = size - (LimbBits - b) /\ ss[3] = 0
    BY <1>2, <1>3, <1>4, <1>5, <1>7
  <2> QED BY <1>1, <1>5, <1>7, <2>1 DEF Spread, b, ss
<1>8. CASE ~(LimbBits - b >= size) /\ size - (LimbBits - b) > LimbBits
  <2>1. ss[1] = LimbBits - b /\ ss[2] = LimbBits /\ ss[3] = size - ((LimbBits - b) + LimbBits)
    BY <1>2, <1>3, <1>4, <1>5, <1>8
  <2> QED BY <1>1, <1>5, <1>8, <2>1 DEF Spread, b, ss
<1> QED BY <1>6, <1>7, <1>8

(* The limbs x0, x1, x2 from bit b on, and A above them. *)
From(A, x2, x1, x0) == ((A * B + x2) * B + x1) * B + x0

LEMMA FromIs ==
  ASSUME NEW A \in Nat, NEW x2 \in 0 .. B - 1, NEW x1 \in 0 .. B - 1, NEW x0 \in 0 .. B - 1
  PROVE  /\ From(A, x2, x1, x0) \in Nat
         /\ A * B + x2 \in Nat /\ (A * B + x2) * B + x1 \in Nat
         /\ x0 \in Nat /\ x1 \in Nat /\ x2 \in Nat
<1>1. x0 \in Nat /\ x1 \in Nat /\ x2 \in Nat /\ B \in Nat
  BY LimbIs
<1>2. \A p, q, r \in Nat : p * q + r \in Nat
  OBVIOUS
<1>3. A * B + x2 \in Nat
  BY ONLY <1>1, <1>2, A \in Nat
<1>4. (A * B + x2) * B + x1 \in Nat
  BY ONLY <1>1, <1>2, <1>3
<1>5. From(A, x2, x1, x0) \in Nat
  BY ONLY <1>1, <1>2, <1>4 DEF From
<1> QED BY <1>1, <1>3, <1>4, <1>5

(* 2^b and what is left of a limb. *)
LEMMA RoomIs ==
  ASSUME NEW b \in 0 .. LimbBits - 1
  PROVE  /\ b \in Nat /\ LimbBits - b \in Nat /\ LimbBits - b >= 1
         /\ 2^b \in Nat /\ 2^b >= 1 /\ 2^(LimbBits - b) \in Nat /\ 2^(LimbBits - b) >= 1
         /\ B = 2^(LimbBits - b) * 2^b
<1>1. b \in Nat /\ LimbBits - b \in Nat /\ LimbBits - b >= 1 /\ (LimbBits - b) + b = LimbBits
  BY LimbIs
<1>2. 2^((LimbBits - b) + b) = 2^(LimbBits - b) * 2^b
  BY ONLY <1>1, TwoSum
<1>3. 2^b \in Nat /\ 2^b >= 1 /\ 2^(LimbBits - b) \in Nat /\ 2^(LimbBits - b) >= 1
  BY ONLY <1>1, TwoPower
<1> QED BY <1>1, <1>2, <1>3 DEF B

LEMMA LimbMultiples ==
  ASSUME NEW x \in Nat, NEW r \in Nat, r <= LimbBits, NEW y \in Nat
  PROVE  (x * B + y) % 2^r = y % 2^r
<1> PICK t \in Nat : t = LimbBits
  BY LimbIs
<1>1. (x * 2^t + y) % 2^r = y % 2^r
  <2>1. r <= t
    OBVIOUS
  <2> QED BY ONLY <2>1, x \in Nat, t \in Nat, r \in Nat, y \in Nat, Multiples
<1>2. B = 2^t
  BY DEF B
<1> QED BY ONLY <1>1, <1>2

LEMMA FieldParts ==
  ASSUME NEW A \in Nat, NEW x2 \in 0 .. B - 1, NEW x1 \in 0 .. B - 1, NEW x0 \in 0 .. B - 1,
         NEW b \in 0 .. LimbBits - 1, NEW size \in 1 .. 2 * LimbBits + 1,
         NEW s1, NEW s2, NEW s3, Spread(b, size, s1, s2, s3)
  PROVE  (From(A, x2, x1, x0) \div 2^b) % 2^size =
           ((x0 \div 2^b) % 2^s1) + (x1 % 2^s2) * 2^s1 + (x2 % 2^s3) * 2^(s1 + s2)
<1> DEFINE N == (A * B + x2) * B + x1
           h == A * B + x2
           T == 2^b
           R == 2^(LimbBits - b)
           u == x0 \div T
<1>1. N \in Nat /\ h \in Nat /\ x0 \in Nat /\ x1 \in Nat /\ x2 \in Nat /\ N = h * B + x1
      /\ From(A, x2, x1, x0) = N * B + x0
  <2>1. From(A, x2, x1, x0) = N * B + x0
    BY DEF From
  <2> QED BY <2>1, FromIs
<1>2. T \in Nat /\ T >= 1 /\ R \in Nat /\ R >= 1 /\ B = R * T /\ LimbBits - b \in Nat /\ LimbBits - b >= 1
      /\ B \in Nat /\ B >= 2 /\ B >= 1
  BY RoomIs, LimbIs
<1> HIDE DEF N, h, T, R
<1>3. u \in 0 .. R - 1
  <2> DEFINE z == x0 % T
  <2>1. u \in Nat /\ z \in 0 .. T - 1 /\ x0 = u * T + z
    <3>1. x0 \in Int
      BY <1>1
    <3> QED BY ONLY <1>1, <1>2, <3>1, Quotients
  <2> HIDE DEF u, z
  <2>2. x0 < R * T
    BY <1>2
  <2>3. u >= R => u * T >= R * T
    BY ONLY <1>2, <2>1
  <2>4. u * T \in Nat /\ R * T \in Nat
    <3>1. \A p, q \in Nat : p * q \in Nat
      OBVIOUS
    <3> QED BY ONLY <1>2, <2>1, <3>1
  <2>5. ~(u >= R)
    <3> DEFINE ut == u * T
               rt == R * T
    <3>1. ut \in Nat /\ rt \in Nat /\ x0 = ut + z /\ x0 < rt /\ (u >= R => ut >= rt) /\ z \in Nat
      BY <2>1, <2>2, <2>3, <2>4
    <3> HIDE DEF ut, rt
    <3> QED BY ONLY <3>1, <1>1
  <2> QED BY <2>1, <2>5, <1>2
<1> HIDE DEF u
<1>4. From(A, x2, x1, x0) \div T = N * R + u
  <2>1. N * B + x0 = (N * R) * T + x0
    BY ONLY <1>1, <1>2
  <2>2. N * R \in Int /\ x0 \in Int
    BY ONLY <1>1, <1>2
  <2>3. ((N * R) * T + x0) \div T = N * R + u
    BY ONLY <1>2, <2>2, ModPlus DEF u
  <2> QED BY <1>1, <2>1, <2>3
<1>5. u \in Nat /\ u < R /\ N * R + u \in Nat /\ (N * R + u) \div R = N /\ (N * R + u) % R = u
  <2>1. u \in Nat /\ u < R
    BY <1>2, <1>3
  <2>2. N * R + u \in Nat
    <3>1. \A p, q, r \in Nat : p * q + r \in Nat
      OBVIOUS
    <3> QED BY ONLY <1>1, <1>2, <2>1, <3>1
  <2>3. N * R + u \in Int /\ N \in Int
    BY ONLY <1>1, <2>2
  <2>4. (N * R + u) \div R = N /\ (N * R + u) % R = u
    <3>1. N * R + u = N * R + u
      OBVIOUS
    <3> QED BY ONLY <1>2, <1>3, <2>3, <3>1, QuotientIs
  <2> QED BY ONLY <2>1, <2>2, <2>4
<1>6. \A x \in Nat : x % 2^0 = 0
  <2>1. 2^0 = 1
    BY TwoToZero
  <2> QED BY <2>1
<1>7. ASSUME NEW r \in Nat PROVE (N * R + u) % (R * 2^r) = (N % 2^r) * R + u
  <2>1. 2^r \in Nat /\ 2^r >= 1
    BY ONLY <1>7, TwoPower
  <2>2. (N * R + u) % (R * 2^r) = (((N * R + u) \div R) % 2^r) * R + ((N * R + u) % R)
    BY ONLY <1>2, <1>5, <2>1, TwoStage
  <2> QED BY <1>5, <2>2
<1>8. ASSUME NEW r \in Nat, r <= LimbBits PROVE N % 2^r = x1 % 2^r /\ h % 2^r = x2 % 2^r
  <2>0. h \in Nat /\ x1 \in Nat /\ x2 \in Nat /\ LimbBits \in Nat /\ r \in Nat /\ r <= LimbBits
    BY <1>1, <1>8, LimbIs
  <2>1. (h * B + x1) % 2^r = x1 % 2^r
    BY ONLY <2>0, LimbMultiples
  <2>2. (A * B + x2) % 2^r = x2 % 2^r
    BY ONLY A \in Nat, <2>0, LimbMultiples
  <2> QED BY <1>1, <2>1, <2>2 DEF h
<1>9. size \in Nat /\ size >= 1
  BY LimbIs
<1>10. CASE size <= LimbBits - b /\ s1 = size /\ s2 = 0 /\ s3 = 0
  <2>1. (N * R + u) % 2^size = u % 2^size
    <3>1. N \in Nat /\ LimbBits - b \in Nat /\ size \in Nat /\ size <= LimbBits - b /\ u \in Nat
      BY <1>1, <1>2, <1>5, <1>9, <1>10
    <3> QED BY ONLY <3>1, Multiples DEF R
  <2>2. u % 2^size \in Nat
    <3>1. 2^size \in Nat /\ 2^size >= 1
      BY <1>9, TwoPower
    <3>2. u \in Int
      BY <1>5
    <3> QED BY ONLY <3>1, <3>2, Quotients
  <2>3. (x1 % 2^s2) = 0 /\ (x2 % 2^s3) = 0
    BY <1>1, <1>6, <1>10
  <2>4. 2^s1 \in Nat /\ 2^(s1 + s2) \in Nat
    <3>1. s1 \in Nat /\ s1 + s2 \in Nat
      BY <1>9, <1>10
    <3> QED BY <3>1, TwoPower
  <2>5. (x1 % 2^s2) * 2^s1 = 0 /\ (x2 % 2^s3) * 2^(s1 + s2) = 0
    <3>1. \A x \in Nat : 0 * x = 0
      OBVIOUS
    <3> QED BY ONLY <2>3, <2>4, <3>1
  <2>6. (u % 2^s1) + 0 + 0 = (u % 2^size)
    <3> DEFINE y == u % 2^size
    <3>1. y \in Nat /\ (u % 2^s1) = y
      BY <2>2, <1>10
    <3> HIDE DEF y
    <3>2. y + 0 + 0 = y
      BY <3>1
    <3> QED BY <3>1, <3>2 DEF y
  <2> QED BY ONLY <1>4, <2>1, <2>5, <2>6 DEF T, u
<1>11. CASE /\ LimbBits - b < size /\ size <= (LimbBits - b) + LimbBits
            /\ s1 = LimbBits - b /\ s2 = size - (LimbBits - b) /\ s3 = 0
  <2>1. s2 \in Nat /\ s2 <= LimbBits /\ size = s1 + s2 /\ s1 \in Nat
    BY <1>2, <1>9, <1>11, LimbIs
  <2>2. 2^size = R * 2^s2 /\ 2^s1 = R /\ 2^s2 \in Nat /\ 2^s2 >= 1
    <3>1. 2^(s1 + s2) = 2^s1 * 2^s2
      BY ONLY <2>1, TwoSum
    <3> QED BY <1>11, <2>1, <3>1, TwoPower DEF R
  <2>3. (N * R + u) % 2^size = (x1 % 2^s2) * R + u
    BY <1>7, <1>8, <2>1, <2>2
  <2>4. (u % 2^s1) = u
    BY ONLY <1>2, <1>5, <2>2, ModSmall
  <2>5. (x2 % 2^s3) = 0
    BY <1>1, <1>6, <1>11
  <2>6. 2^(s1 + s2) \in Nat /\ (x1 % 2^s2) \in Nat
    <3>1. x1 \in Int /\ size \in Nat
      BY <1>1, <1>9
    <3> QED BY ONLY <2>1, <2>2, <3>1, Quotients, TwoPower
  <2>7. (x1 % 2^s2) * R + u = u + (x1 % 2^s2) * R + 0 * 2^(s1 + s2)
    <3>1. \A y, r, v, w \in Nat : y * r + v = v + y * r + 0 * w
      OBVIOUS
    <3> QED BY ONLY <1>2, <1>5, <2>6, <3>1
  <2> QED BY ONLY <1>4, <2>2, <2>3, <2>4, <2>5, <2>7 DEF T, u
<1>12. CASE /\ (LimbBits - b) + LimbBits < size /\ size <= (LimbBits - b) + 2 * LimbBits
            /\ s1 = LimbBits - b /\ s2 = LimbBits /\ s3 = size - ((LimbBits - b) + LimbBits)
  <2>1. s3 \in Nat /\ s3 <= LimbBits /\ size = s1 + (LimbBits + s3) /\ s1 \in Nat /\ LimbBits + s3 \in Nat
        /\ LimbBits \in Nat /\ s1 + LimbBits \in Nat
    BY <1>2, <1>9, <1>12, LimbIs
  <2>2. /\ 2^size = R * 2^(LimbBits + s3) /\ 2^s1 = R /\ 2^s3 \in Nat /\ 2^s3 >= 1
        /\ 2^(LimbBits + s3) = B * 2^s3 /\ 2^(s1 + s2) = R * B
    <3>1. 2^(s1 + (LimbBits + s3)) = 2^s1 * 2^(LimbBits + s3)
      BY ONLY <2>1, TwoSum
    <3>2. 2^(LimbBits + s3) = 2^LimbBits * 2^s3
      BY ONLY <2>1, TwoSum
    <3>3. 2^(s1 + LimbBits) = 2^s1 * 2^LimbBits
      BY ONLY <2>1, TwoSum
    <3> QED BY <1>12, <2>1, <3>1, <3>2, <3>3, TwoPower DEF R, B
  <2>3. (N * R + u) % 2^size = (N % (B * 2^s3)) * R + u
    <3>1. (N * R + u) % (R * 2^(LimbBits + s3)) = (N % 2^(LimbBits + s3)) * R + u
      BY <1>7, <2>1
    <3> QED BY ONLY <2>2, <3>1
  <2>4. N % (B * 2^s3) = (x2 % 2^s3) * B + x1
    <3>1. N \in Int /\ h \in Int /\ x1 \in 0 .. B - 1
      BY <1>1
    <3>2. N \div B = h /\ N % B = x1
      BY ONLY <1>1, <1>2, <3>1, QuotientIs, ZenonT(30)
    <3>3. N % (B * 2^s3) = ((N \div B) % 2^s3) * B + (N % B)
      <4>1. N \in Nat /\ B \in Nat /\ B >= 1 /\ 2^s3 \in Nat /\ 2^s3 >= 1
        BY <1>1, <1>2, <2>2
      <4> QED BY ONLY <4>1, TwoStage
    <3> QED BY <1>8, <2>1, <3>2, <3>3
  <2>5. (u % 2^s1) = u
    BY ONLY <1>2, <1>5, <2>2, ModSmall
  <2>6. (x1 % 2^s2) = x1
    <3>1. x1 < 2^s2 /\ 2^s2 \in Nat
      BY <1>2, <1>12 DEF B
    <3> QED BY ONLY <1>1, <3>1, ModSmall
  <2>7. (x2 % 2^s3) \in Nat
    <3> PICK k \in Nat : k = 2^s3
      BY <2>2
    <3>1. x2 \in Int /\ k >= 1
      BY <1>1, <2>2
    <3>2. (x2 % k) \in Nat
      BY ONLY <3>1, k \in Nat, Quotients
    <3> QED BY <3>2
  <2>8. ((x2 % 2^s3) * B + x1) * R + u = u + x1 * R + (x2 % 2^s3) * (R * B)
    <3>1. \A y, c, v, r, w \in Nat : (y * c + v) * r + w = w + v * r + y * (r * c)
      OBVIOUS
    <3> QED BY ONLY <1>1, <1>2, <1>5, <2>7, <3>1
  <2> QED BY ONLY <1>4, <2>2, <2>3, <2>4, <2>5, <2>6, <2>8 DEF T, u
<1> QED BY <1>10, <1>11, <1>12 DEF Spread
-----------------------------------------------------------------------------
(* A limb, or nothing above the number.                                     *)
LimbAt(f, k) == IF k \in DOMAIN f THEN f[k] ELSE 0

LEMMA LimbsAbove ==
  ASSUME NEW n \in Nat, NEW f \in NumbersOf(n), NEW p \in 0 .. n - 1
  PROVE  \E A \in Nat :
           Value(f) \div Place(p) = From(A, LimbAt(f, (n - p) - 2), LimbAt(f, (n - p) - 1), f[n - p])
<1>1. f \in [1 .. n -> Int] /\ f \in [1 .. n -> Nat] /\ B \in Int /\ B \in Nat /\ B >= 1 /\ n \in Nat
      /\ \A k \in 1 .. n : f[k] \in 0 .. B - 1
  BY LimbIs, LimbsAreNumbers
<1>2. PICK U : PrefixRuns(U, n, f, B) /\ NumberOf(f, B) = U[n]
  BY ONLY <1>1, NumberRuns
<1>3. /\ U \in [0 .. n -> Int] /\ U[0] = 0 /\ Value(f) = U[n]
      /\ \A k \in 0 .. n - 1 : U[k + 1] = U[k] * B + f[k + 1]
  BY <1>2 DEF PrefixRuns, Value, B
<1> HIDE DEF Value
<1>4. \A k \in 0 .. n : U[k] \in Nat
  <2> DEFINE Yes == {k \in 0 .. n : U[k] \in Nat}
  <2>1. 0 \in Yes
    BY <1>3
  <2>2. ASSUME NEW k \in 0 .. n - 1, k \in Yes PROVE k + 1 \in Yes
    <3>1. k + 1 \in 0 .. n /\ k + 1 \in 1 .. n
      OBVIOUS
    <3>2. U[k] \in Nat /\ f[k + 1] \in Nat /\ U[k + 1] = U[k] * B + f[k + 1]
      BY <1>1, <1>3, <2>2, <3>1
    <3>3. \A x, y, z \in Nat : x * y + z \in Nat
      OBVIOUS
    <3>4. B \in Nat
      BY <1>1
    <3>5. U[k + 1] \in Nat
      BY ONLY <3>2, <3>3, <3>4
    <3> QED BY ONLY <3>1, <3>5
  <2>3. \A k \in 0 .. n : k \in Yes
    <3> HIDE DEF Yes
    <3> QED BY <2>1, <2>2, InductTo
  <2> QED BY <2>3
<1>5. ASSUME NEW k \in 0 .. n - 1
      PROVE  k + 1 \in 1 .. n /\ U[k + 1] = U[k] * B + f[k + 1] /\ U[k] \in Nat /\ f[k + 1] \in 0 .. B - 1
  BY <1>1, <1>3, <1>4
<1>6. \A q \in 0 .. n : Value(f) \div Place(q) = U[n - q]
  <2> DEFINE Yes == {q \in 0 .. n : Value(f) \div Place(q) = U[n - q]}
  <2>1. 0 \in Yes
    <3>1. n - 0 = n /\ 0 \in 0 .. n /\ n \in 0 .. n
      OBVIOUS
    <3>2. U[n] \in Nat
      BY <1>4, <3>1
    <3>3. U[n] \div 1 = U[n]
      BY <3>2
    <3> QED BY <1>3, <3>1, <3>3, FirstPlace
  <2>2. ASSUME NEW q \in 0 .. n - 1, q \in Yes PROVE q + 1 \in Yes
    <3>1. q + 1 \in 0 .. n /\ q \in Nat /\ n - (q + 1) \in 0 .. n - 1 /\ (n - (q + 1)) + 1 = n - q
      OBVIOUS
    <3>2. Place(q + 1) = Place(q) * B /\ Place(q) \in Nat /\ Place(q) >= 1
      BY <3>1, Places
    <3>3. Value(f) \in Nat
      BY ValueRange
    <3>4. Value(f) \div (Place(q) * B) = (Value(f) \div Place(q)) \div B
      BY ONLY <1>1, <3>2, <3>3, TwoStage
    <3>5. U[n - q] = U[n - (q + 1)] * B + f[n - q] /\ U[n - (q + 1)] \in Nat /\ f[n - q] \in 0 .. B - 1
      BY <1>5, <3>1
    <3>6. U[n - q] \div B = U[n - (q + 1)]
      <4> PICK u \in Nat, y \in 0 .. B - 1, z \in Int : u = U[n - (q + 1)] /\ y = f[n - q] /\ z = U[n - q] /\ z = u * B + y
        <5>1. U[n - (q + 1)] * B + f[n - q] \in Int
          <6>1. \A x, w, v \in Nat : x * w + v \in Int
            OBVIOUS
          <6>2. f[n - q] \in Nat
            BY <1>1, <3>5
          <6> QED BY ONLY <1>1, <3>5, <6>1, <6>2
        <5> QED BY ONLY <3>5, <5>1
      <4>1. z \div B = u
        <5>1. u \in Int
          OBVIOUS
        <5> QED BY ONLY <1>1, <5>1, z \in Int, y \in 0 .. B - 1, z = u * B + y, QuotientIs
      <4> QED BY <4>1
    <3>7. Value(f) \div Place(q) = U[n - q]
      BY <2>2
    <3> QED BY ONLY <3>1, <3>2, <3>4, <3>6, <3>7
  <2>3. \A q \in 0 .. n : q \in Yes
    <3> HIDE DEF Yes
    <3> QED BY <2>1, <2>2, InductTo
  <2> QED BY <2>3
<1> DEFINE m == n - p
<1>7. m \in 1 .. n /\ m - 1 \in 0 .. n - 1 /\ (m - 1) + 1 = m /\ p \in 0 .. n
  OBVIOUS
<1>8. Value(f) \div Place(p) = U[m]
  BY <1>6, <1>7
<1>9. DOMAIN f = 1 .. n
  BY <1>1
<1> HIDE DEF m
<1>10. U[m] = U[m - 1] * B + f[m]
  BY <1>5, <1>7
<1>11. CASE m = 1
  <2>1. LimbAt(f, m - 1) = 0 /\ LimbAt(f, m - 2) = 0
    BY <1>9, <1>11 DEF LimbAt
  <2>2. U[m - 1] = 0
    BY <1>3, <1>11
  <2>3. (0 * B + 0) * B + 0 = 0
    BY <1>1
  <2>4. U[m] = From(0, LimbAt(f, m - 2), LimbAt(f, m - 1), f[m])
    BY ONLY <1>10, <2>1, <2>2, <2>3 DEF From
  <2> QED BY <1>8, <2>4 DEF m
<1>12. CASE m = 2
  <2>1. LimbAt(f, m - 1) = f[m - 1] /\ LimbAt(f, m - 2) = 0
    BY <1>7, <1>9, <1>12 DEF LimbAt
  <2>2. U[m - 1] = 0 * B + f[m - 1]
    <3>1. U[0 + 1] = U[0] * B + f[0 + 1]
      BY <1>5, <1>7, <1>12
    <3> QED BY <1>3, <1>12, <3>1
  <2>3. 0 * B + 0 = 0
    BY <1>1
  <2>4. U[m] = From(0, LimbAt(f, m - 2), LimbAt(f, m - 1), f[m])
    BY ONLY <1>10, <2>1, <2>2, <2>3 DEF From
  <2> QED BY <1>8, <2>4 DEF m
<1>13. CASE m >= 3
  <2>1. /\ m - 2 \in 0 .. n - 1 /\ (m - 2) + 1 = m - 1 /\ m - 3 \in 0 .. n - 1 /\ (m - 3) + 1 = m - 2
        /\ m - 2 \in 1 .. n /\ m - 1 \in 1 .. n
    BY <1>7, <1>13
  <2>2. LimbAt(f, m - 1) = f[m - 1] /\ LimbAt(f, m - 2) = f[m - 2]
    BY <1>9, <2>1 DEF LimbAt
  <2>3. U[m - 1] = U[m - 2] * B + f[m - 1]
    BY <1>5, <2>1
  <2>4. U[m - 2] = U[m - 3] * B + f[m - 2] /\ U[m - 3] \in Nat
    BY <1>5, <2>1
  <2>5. U[m] = From(U[m - 3], LimbAt(f, m - 2), LimbAt(f, m - 1), f[m])
    BY ONLY <1>10, <2>2, <2>3, <2>4 DEF From
  <2> QED BY <1>8, <2>4, <2>5 DEF m
<1> QED BY <1>7, <1>11, <1>12, <1>13

LEMMA LimbAtIs ==
  ASSUME NEW n \in Nat, NEW f \in NumbersOf(n), NEW k \in Int
  PROVE  LimbAt(f, k) \in 0 .. B - 1
BY LimbsAreNumbers, LimbIs DEF LimbAt, NumbersOf

(* Where a field begins and how long it is.                                 *)
LEMMA FieldIs ==
  ASSUME NEW n \in Nat, NEW f \in NumbersOf(n), NEW offset \in 0 .. LimbBits * n - 1,
         NEW size \in 1 .. 2 * LimbBits + 1
  PROVE  LET c == Clipped(f, offset, size)
             p == offset \div LimbBits
             b == offset % LimbBits
         IN  /\ c \in 1 .. 2 * LimbBits + 1 /\ offset \in Nat
             /\ p \in 0 .. n - 1 /\ b \in 0 .. LimbBits - 1
             /\ 2^offset = Place(p) * 2^b
             /\ b + c <= LimbBits * (n - p)
<1> DEFINE c == Clipped(f, offset, size)
           p == offset \div LimbBits
           b == offset % LimbBits
           t == LimbBits * n
<1>1. t \in Nat /\ offset \in Nat /\ offset < t /\ offset \in Int /\ LimbBits \in Nat /\ LimbBits >= 1 /\ Len(f) = n
  BY LimbIs, ValueRange
<1>2. p \in Nat /\ b \in 0 .. LimbBits - 1 /\ offset = p * LimbBits + b
  BY ONLY <1>1, Quotients
<1>3. c = IF offset + size > t THEN t - offset ELSE size
  BY <1>1 DEF Clipped, BitLength
<1> HIDE DEF c, p, b
<1>4. c \in 1 .. 2 * LimbBits + 1 /\ offset + c <= t
  <2> HIDE DEF t
  <2> QED BY <1>1, <1>3
<1>5. p \in 0 .. n - 1
  <2>1. p >= n => p * LimbBits >= LimbBits * n
    BY ONLY <1>1, <1>2, n \in Nat
  <2>2. p * LimbBits <= offset
    <3>1. p * LimbBits \in Nat
      BY ONLY <1>1, <1>2
    <3> QED BY <1>2, <3>1
  <2> QED BY <1>1, <1>2, <2>1, <2>2
<1>6. 2^offset = Place(p) * 2^b
  <2>1. LimbBits * p \in Nat /\ b \in Nat /\ offset = LimbBits * p + b
    BY ONLY <1>1, <1>2
  <2> QED BY <2>1, TwoSum DEF Place
<1>7. b + c <= LimbBits * (n - p)
  <2>1. LimbBits * (n - p) = LimbBits * n - p * LimbBits
    BY ONLY <1>1, <1>2, n \in Nat
  <2>2. p * LimbBits \in Nat /\ b \in Nat /\ c \in Nat
    BY <1>1, <1>2, <1>4
  <2> DEFINE v == p * LimbBits
  <2>3. b + c <= t - v
    <3>1. v \in Nat /\ offset = v + b /\ offset + c <= t
      BY <1>2, <1>4, <2>2
    <3> HIDE DEF v, t
    <3> QED BY ONLY <1>1, <2>2, <3>1
  <2> QED BY ONLY <2>1, <2>3
<1> QED BY ONLY <1>1, <1>2, <1>4, <1>5, <1>6, <1>7 DEF c, p, b

(* fixnum_peek (fixnum.c:249-288) finds the field at its offset. *)
LEMMA PeekIs ==
  ASSUME NEW n \in Nat, NEW f \in NumbersOf(n), NEW offset \in 0 .. LimbBits * n - 1,
         NEW size \in 1 .. 2 * LimbBits + 1
  PROVE  fixnum_peek(f, offset, size) = (Value(f) \div 2^offset) % 2^Clipped(f, offset, size)
<1> DEFINE c == Clipped(f, offset, size)
           p == offset \div LimbBits
           b == offset % LimbBits
           m == n - p
           ss == FieldSizes(offset, c)
           x0 == f[m]
           x1 == LimbAt(f, m - 1)
           x2 == LimbAt(f, m - 2)
<1>1. /\ c \in 1 .. 2 * LimbBits + 1 /\ offset \in Nat
      /\ p \in 0 .. n - 1 /\ b \in 0 .. LimbBits - 1
      /\ 2^offset = Place(p) * 2^b
      /\ b + c <= LimbBits * m
  BY FieldIs
<1>2. Spread(b, c, ss[1], ss[2], ss[3])
  <2> HIDE DEF c
  <2> QED BY <1>1, SpreadIs
<1>3. Len(f) = n /\ DOMAIN f = 1 .. n /\ Value(f) \in Nat
  BY ValueRange
<1>4. fixnum_peek(f, offset, size) =
        ((f[m] \div 2^b) % 2^ss[1])
          + (IF ss[2] = 0 THEN 0 ELSE (f[m - 1] * 2^ss[1]) % 2^(ss[1] + ss[2]))
          + (IF ss[3] = 0 THEN 0 ELSE (f[m - 2] * 2^(ss[1] + ss[2])) % 2^c)
  BY <1>3 DEF fixnum_peek
<1> HIDE DEF c, p, b, m
<1>5. m \in 1 .. n /\ m \in Int
  BY <1>1 DEF m
<1>6. x0 \in 0 .. B - 1 /\ x1 \in 0 .. B - 1 /\ x2 \in 0 .. B - 1
  <2>1. x0 \in 0 .. B - 1
    BY <1>5, LimbsAreNumbers
  <2>2. m - 1 \in Int /\ m - 2 \in Int
    BY <1>5
  <2> QED BY <2>1, <2>2, LimbAtIs
<1>7. PICK A \in Nat : Value(f) \div Place(p) = From(A, x2, x1, x0)
  BY <1>1, LimbsAbove DEF m
<1> DEFINE s1 == ss[1]
           s2 == ss[2]
           s3 == ss[3]
<1> HIDE DEF ss
<1>8. /\ s1 \in Nat /\ s2 \in Nat /\ s3 \in Nat /\ s1 + s2 \in Nat
      /\ (s2 # 0 => m >= 2) /\ (s3 # 0 => m >= 3) /\ c = (s1 + s2) + s3
  <2> HIDE DEF x0, x1, x2
  <2>0. m \in Nat /\ LimbBits \in Nat /\ LimbBits >= 1 /\ b \in Nat /\ b <= LimbBits - 1 /\ c \in Nat /\ b + c <= LimbBits * m
        /\ m >= 1 /\ c >= 1
    BY <1>1, <1>5, LimbIs
  <2>1. m = 1 => b + c <= LimbBits
    BY <2>0
  <2>2. m = 2 => b + c <= 2 * LimbBits
    BY <2>0
  <2> DEFINE lm == LimbBits * m
  <2> HIDE DEF lm
  <2>3. Spread(b, c, s1, s2, s3)
    BY <1>2
  <2> HIDE DEF s1, s2, s3
  <2>4. m \in Nat /\ LimbBits \in Nat /\ LimbBits >= 1 /\ b \in Nat /\ b <= LimbBits - 1 /\ c \in Nat /\ m >= 1 /\ c >= 1
    BY <2>0
  <2> QED BY ONLY <2>1, <2>2, <2>3, <2>4 DEF Spread
<1>9. (Value(f) \div 2^offset) % 2^c =
        ((x0 \div 2^b) % 2^s1) + (x1 % 2^s2) * 2^s1 + (x2 % 2^s3) * 2^(s1 + s2)
  <2>1. Value(f) \div 2^offset = From(A, x2, x1, x0) \div 2^b
    <3>1. Place(p) \in Nat /\ Place(p) >= 1 /\ 2^b \in Nat /\ 2^b >= 1
      <4>1. p \in Nat
        BY <1>1
      <4> QED BY <1>1, <4>1, Places, RoomIs
    <3>2. Value(f) \div (Place(p) * 2^b) = (Value(f) \div Place(p)) \div 2^b
      BY ONLY <1>3, <3>1, TwoStage
    <3> QED BY <1>1, <1>7, <3>2
  <2> HIDE DEF x0, x1, x2
  <2>2. (From(A, x2, x1, x0) \div 2^b) % 2^c =
          ((x0 \div 2^b) % 2^s1) + (x1 % 2^s2) * 2^s1 + (x2 % 2^s3) * 2^(s1 + s2)
    <3>1. Spread(b, c, s1, s2, s3) /\ b \in 0 .. LimbBits - 1 /\ c \in 1 .. 2 * LimbBits + 1
      BY <1>1, <1>2
    <3> HIDE DEF s1, s2, s3
    <3> QED BY ONLY <1>6, <3>1, A \in Nat, FieldParts
  <2> QED BY <2>1, <2>2
<1>10. ASSUME NEW x \in Nat, NEW y \in Nat, NEW z \in Nat
       PROVE  (x * 2^y) % 2^(y + z) = (x % 2^z) * 2^y
  <2>1. 2^(y + z) = 2^z * 2^y
    <3>1. y + z = z + y
      OBVIOUS
    <3> QED BY <3>1, TwoSum
  <2>2. 2^z \in Nat /\ 2^z >= 1 /\ 2^y \in Nat /\ 2^y >= 1
    BY TwoPower
  <2> PICK a \in Nat, d \in Nat : a = 2^y /\ d = 2^z
    BY <2>2
  <2>3. (x * a) % (d * a) = (x % d) * a
    <3>1. a >= 1 /\ d >= 1
      BY <2>2
    <3> QED BY ONLY <3>1, x \in Nat, a \in Nat, d \in Nat, Scaled
  <2> QED BY <2>1, <2>3
<1>11. \A x, y \in Nat : (x % 2^0) * 2^y = 0
  <2>1. 2^0 = 1 /\ \A x \in Nat : x % 1 = 0
    BY TwoToZero
  <2>2. \A x \in Nat : 0 * x = 0
    OBVIOUS
  <2> QED BY <2>1, <2>2, TwoPower
<1>12. x0 \in Nat /\ x1 \in Nat /\ x2 \in Nat
  <2> HIDE DEF x0, x1, x2
  <2> QED BY <1>6, LimbIs
<1>13. (IF ss[2] = 0 THEN 0 ELSE (f[m - 1] * 2^ss[1]) % 2^(ss[1] + ss[2])) = (x1 % 2^s2) * 2^s1
  <2>1. CASE s2 = 0
    <3> HIDE DEF x0, x1, x2
    <3> QED BY <1>8, <1>11, <1>12, <2>1
  <2>2. CASE s2 # 0
    <3>1. x1 = f[m - 1]
      BY <1>3, <1>5, <1>8, <2>2 DEF LimbAt
    <3> HIDE DEF x0, x1, x2
    <3>2. (x1 * 2^s1) % 2^(s1 + s2) = (x1 % 2^s2) * 2^s1
      BY <1>8, <1>10, <1>12
    <3> QED BY <2>2, <3>1, <3>2
  <2> QED BY <2>1, <2>2
<1>14. (IF ss[3] = 0 THEN 0 ELSE (f[m - 2] * 2^(ss[1] + ss[2])) % 2^c) = (x2 % 2^s3) * 2^(s1 + s2)
  <2>1. CASE s3 = 0
    <3> HIDE DEF x0, x1, x2
    <3> QED BY <1>8, <1>11, <1>12, <2>1
  <2>2. CASE s3 # 0
    <3>1. x2 = f[m - 2]
      BY <1>3, <1>5, <1>8, <2>2 DEF LimbAt
    <3> HIDE DEF x0, x1, x2
    <3>2. (x2 * 2^(s1 + s2)) % 2^((s1 + s2) + s3) = (x2 % 2^s3) * 2^(s1 + s2)
      BY <1>8, <1>10, <1>12
    <3> QED BY <1>8, <2>2, <3>1, <3>2
  <2> QED BY <2>1, <2>2
<1> QED BY ONLY <1>4, <1>9, <1>13, <1>14 DEF c, x0, s1, s2, s3
-----------------------------------------------------------------------------
LEMMA OneDigit ==
  ASSUME NEW n \in Nat, NEW i \in 1 .. n, NEW e \in Int, NEW r \in Nat
  PROVE  NumberOf([k \in 1 .. n |-> IF k = i THEN e ELSE 0], r) = e * Power(r, n - i)
<1> DEFINE d == [k \in 1 .. n |-> IF k = i THEN e ELSE 0]
           U == [k \in 0 .. n |-> IF k < i THEN 0 ELSE e * Power(r, k - i)]
<1>1. d \in [1 .. n -> Int] /\ r \in Int
  OBVIOUS
<1>2. ASSUME NEW k \in 0 .. n PROVE U[k] \in Int
  <2>1. CASE k < i
    BY <2>1
  <2>2. CASE ~(k < i)
    <3>1. k - i \in Nat
      BY <2>2
    <3>2. Power(r, k - i) \in Int
      BY <3>1, PowerLaws
    <3>3. \A x, y \in Int : x * y \in Int
      OBVIOUS
    <3>4. e * Power(r, k - i) \in Int
      BY ONLY <3>2, <3>3, e \in Int
    <3> QED BY <2>2, <3>4
  <2> QED BY <2>1, <2>2
<1>3. U \in [0 .. n -> Int] /\ U[0] = 0
  <2>1. U[0] = 0
    OBVIOUS
  <2> QED BY <1>2, <2>1
<1>4. ASSUME NEW k \in 0 .. n - 1 PROVE U[k + 1] = U[k] * r + d[k + 1]
  <2>1. k + 1 \in 0 .. n /\ k + 1 \in 1 .. n /\ k \in 0 .. n /\ i \in Nat /\ k \in Nat
    OBVIOUS
  <2>2. CASE k + 1 < i
    <3>1. U[k + 1] = 0 /\ U[k] = 0 /\ d[k + 1] = 0
      BY <2>1, <2>2
    <3>2. 0 = 0 * r + 0
      OBVIOUS
    <3> QED BY ONLY <3>1, <3>2
  <2>3. CASE k + 1 = i
    <3>1. U[k + 1] = e * Power(r, 0) /\ U[k] = 0 /\ d[k + 1] = e
      <4>1. ~(k + 1 < i) /\ (k + 1) - i = 0 /\ k < i
        BY <2>1, <2>3
      <4> QED BY <2>1, <2>3, <4>1
    <3>2. e * 1 = 0 * r + e
      OBVIOUS
    <3>3. Power(r, 0) = 1
      <4>1. 0 \in Nat
        OBVIOUS
      <4> QED BY <4>1, PowerLaws
    <3> QED BY ONLY <3>1, <3>2, <3>3
  <2>4. CASE k + 1 > i
    <3>1. k - i \in Nat /\ (k + 1) - i = (k - i) + 1 /\ ~(k + 1 < i) /\ ~(k < i) /\ k + 1 # i
      BY <2>1, <2>4
    <3>2. Power(r, (k - i) + 1) = Power(r, k - i) * r /\ Power(r, k - i) \in Int
      BY <3>1, PowerLaws
    <3>3. U[k + 1] = e * Power(r, (k - i) + 1) /\ U[k] = e * Power(r, k - i) /\ d[k + 1] = 0
      BY <2>1, <3>1
    <3>4. \A x \in Int : e * (x * r) = (e * x) * r + 0
      OBVIOUS
    <3> QED BY ONLY <3>2, <3>3, <3>4
  <2> QED BY <2>1, <2>2, <2>3, <2>4
<1>5. NumberOf(d, r) = U[n]
  <2>1. PrefixRuns(U, n, d, r)
    <3> HIDE DEF U, d
    <3> QED BY <1>3, <1>4 DEF PrefixRuns
  <2> HIDE DEF U, d
  <2> QED BY <1>1, <2>1, NumberIs
<1>6. U[n] = e * Power(r, n - i)
  OBVIOUS
<1> QED BY <1>5, <1>6

LEMMA DivLess ==
  ASSUME NEW x \in Nat, NEW a \in Nat, a >= 1, NEW c \in Nat, x < a * c
  PROVE  x \div a \in Nat /\ x \div a < c
<1> DEFINE q == x \div a
           z == x % a
<1>1. q \in Nat /\ z \in 0 .. a - 1 /\ x = q * a + z
  <2>1. x \in Int
    OBVIOUS
  <2> QED BY ONLY <2>1, x \in Nat, a \in Nat, a >= 1, Quotients
<1> HIDE DEF q, z
<1>2. q >= c => q * a >= a * c
  BY ONLY <1>1, a \in Nat, c \in Nat
<1>3. q * a \in Nat /\ a * c \in Nat
  <2>1. \A s, t \in Nat : s * t \in Nat
    OBVIOUS
  <2> QED BY ONLY <1>1, <2>1, a \in Nat, c \in Nat
<1>4. ~(q >= c)
  <2> PICK u \in Nat, v \in Nat : u = q * a /\ v = a * c
    BY <1>3
  <2>1. x = u + z /\ x < v /\ (q >= c => u >= v)
    BY <1>1, <1>2
  <2> QED BY ONLY <1>1, <2>1, x \in Nat, u \in Nat, v \in Nat, a \in Nat
<1> QED BY <1>1, <1>4 DEF q

(* Other bits in the place of the last ones. *)
LEMMA Replaced ==
  ASSUME NEW D \in Nat, NEW S \in Nat, S >= 1, NEW u \in Nat, u < D * S, NEW k \in 0 .. S - 1
  PROVE  /\ (u % S) \in 0 .. S - 1
         /\ u - (u % S) + k \in Nat /\ u - (u % S) + k < D * S
<1> DEFINE t == u \div S
           q == u % S
<1>1. t \in Nat /\ q \in 0 .. S - 1 /\ u = t * S + q
  <2>1. u \in Int
    OBVIOUS
  <2> QED BY ONLY <2>1, u \in Nat, S \in Nat, S >= 1, Quotients
<1>2. t < D
  <2>1. u < S * D
    <3>1. S * D = D * S
      OBVIOUS
    <3> QED BY <3>1
  <2> QED BY <2>1, DivLess
<1> HIDE DEF t, q
<1>3. t \in 0 .. D - 1
  BY <1>1, <1>2
<1>4. t * S + k \in Nat /\ t * S + k < D * S
  BY ONLY <1>3, D \in Nat, S \in Nat, k \in 0 .. S - 1, Below
<1>5. u - q + k = t * S + k
  <2>1. t * S \in Nat
    BY <1>1
  <2> PICK v \in Nat : v = t * S
    BY <2>1
  <2>2. u = v + q
    BY <1>1
  <2> QED BY <1>1, <2>2
<1> QED BY <1>1, <1>4, <1>5 DEF q

(* What a field puts into each of three limbs. *)
LEMMA NewLimbs ==
  ASSUME NEW b \in 0 .. LimbBits - 1, NEW size \in 1 .. 2 * LimbBits + 1,
         NEW s1, NEW s2, NEW s3, Spread(b, size, s1, s2, s3), NEW in \in 0 .. 2^size - 1
  PROVE  LET y  == in * 2^b
             i0 == y % B
             i1 == (y \div B) % B
             i2 == (y \div (B * B)) % B
         IN  /\ y \in Nat /\ i0 \in Nat /\ i1 \in Nat /\ i2 \in Nat
             /\ y = i0 + i1 * B + i2 * (B * B)
             /\ \E k \in 0 .. 2^s1 - 1 : i0 = k * 2^b
             /\ i1 < 2^s2 /\ i2 < 2^s3
<1> DEFINE T == 2^b
           R == 2^(LimbBits - b)
           y == in * T
           e == in \div R
           k == in % R
           h == e \div B
           i1 == e % B
<1>1. T \in Nat /\ T >= 1 /\ R \in Nat /\ R >= 1 /\ B = R * T /\ LimbBits - b \in Nat /\ LimbBits - b >= 1
      /\ B \in Nat /\ B >= 2 /\ B >= 1 /\ LimbBits \in Nat
  BY RoomIs, LimbIs
<1>2. size \in Nat /\ size >= 1 /\ 2^size \in Nat /\ in \in Nat /\ in < 2^size /\ in \in Int
  <2>1. size \in Nat /\ size >= 1
    BY LimbIs
  <2>2. 2^size \in Nat
    BY <2>1, TwoPower
  <2> QED BY <2>1, <2>2
<1> HIDE DEF T, R
<1>3. e \in Nat /\ k \in 0 .. R - 1 /\ in = e * R + k
  BY ONLY <1>1, <1>2, Quotients
<1>4. y % B = k * T /\ y \div B = e
  BY ONLY <1>1, <1>2, Scaled, ZenonT(30)
<1>5. y \in Nat /\ k * T \in Nat
  <2>1. \A p, t \in Nat : p * t \in Nat
    OBVIOUS
  <2>2. k \in Nat
    BY <1>1, <1>3
  <2> QED BY ONLY <1>1, <1>2, <2>1, <2>2
<1> HIDE DEF y, e, k
<1>6. h \in Nat /\ i1 \in 0 .. B - 1 /\ e = h * B + i1 /\ i1 \in Nat
  <2>1. e \in Int
    BY <1>3
  <2>2. h \in Nat /\ i1 \in 0 .. B - 1 /\ e = h * B + i1
    BY ONLY <1>1, <1>3, <2>1, Quotients
  <2> QED BY <1>1, <2>2
<1>7. y \div (B * B) = h
  <2>0. y \in Nat /\ B \in Nat /\ B >= 1
    BY <1>1, <1>5
  <2>1. y \div (B * B) = (y \div B) \div B
    BY ONLY <2>0, TwoStage
  <2> QED BY <1>4, <2>1
<1> HIDE DEF h, i1
<1>8. h < B => h % B = h
  BY ONLY <1>1, <1>6, ModSmall
<1>9. h < B => y = k * T + i1 * B + h * (B * B)
  <2>1. y = e * B + k * T
    <3>1. y = (y \div B) * B + (y % B)
      <4>1. y \in Int
        BY <1>5
      <4> QED BY ONLY <1>1, <4>1, Quotients
    <3> QED BY <1>4, <3>1
  <2>2. \A p, q, r, c \in Nat : (p * c + q) * c + r = r + q * c + p * (c * c)
    OBVIOUS
  <2>3. (h * B + i1) * B + k * T = k * T + i1 * B + h * (B * B)
    BY ONLY <1>1, <1>5, <1>6, <2>2
  <2> QED BY <1>6, <2>1, <2>3
<1> SUFFICES k \in 0 .. 2^s1 - 1 /\ i1 < 2^s2 /\ h < 2^s3 /\ h < B
  <2> SUFFICES ASSUME k \in 0 .. 2^s1 - 1, i1 < 2^s2, h < 2^s3, h < B
               PROVE  /\ y \in Nat /\ y % B \in Nat /\ (y \div B) % B \in Nat /\ (y \div (B * B)) % B \in Nat
                      /\ y = (y % B) + ((y \div B) % B) * B + ((y \div (B * B)) % B) * (B * B)
                      /\ \E j \in 0 .. 2^s1 - 1 : y % B = j * T
                      /\ (y \div B) % B < 2^s2 /\ (y \div (B * B)) % B < 2^s3
    BY DEF y, T
  <2>1. (y \div B) % B = i1 /\ (y \div (B * B)) % B = h
    BY <1>4, <1>7, <1>8 DEF i1
  <2> QED BY ONLY <1>4, <1>5, <1>6, <1>9, <2>1, k \in 0 .. 2^s1 - 1, i1 < 2^s2, h < 2^s3, h < B
<1>10. ASSUME NEW t \in Nat, t <= LimbBits PROVE 2^t \in Nat /\ 2^t >= 1 /\ 2^t <= B
  <2>1. 2^t <= 2^LimbBits
    BY ONLY <1>1, t \in Nat, t <= LimbBits, TwoGrows
  <2> QED BY <2>1, TwoPower DEF B
<1>11. CASE size <= LimbBits - b /\ s1 = size /\ s2 = 0 /\ s3 = 0
  <2>1. 2^size <= R
    BY ONLY <1>1, <1>2, <1>11, TwoGrows DEF R
  <2>2. in < R
    BY <1>1, <1>2, <2>1
  <2>3. k = in /\ e = 0
    BY ONLY <1>1, <1>2, <2>2, ModSmall DEF k, e
  <2>4. k \in 0 .. 2^s1 - 1
    BY <1>11, <2>3
  <2>5. h = 0 /\ i1 = 0
    <3>1. 0 < B /\ 0 \in Nat
      BY <1>1
    <3> QED BY ONLY <1>1, <2>3, <3>1, ModSmall DEF h, i1
  <2>6. 2^s2 = 1 /\ 2^s3 = 1
    BY <1>11, TwoToZero
  <2> QED BY <1>1, <2>4, <2>5, <2>6
<1>12. CASE /\ LimbBits - b < size /\ size <= (LimbBits - b) + LimbBits
            /\ s1 = LimbBits - b /\ s2 = size - (LimbBits - b) /\ s3 = 0
  <2>1. s2 \in Nat /\ s2 <= LimbBits /\ size = s1 + s2 /\ s1 \in Nat
    BY <1>1, <1>2, <1>12
  <2>2. 2^size = R * 2^s2 /\ 2^s1 = R
    <3>1. 2^(s1 + s2) = 2^s1 * 2^s2
      BY ONLY <2>1, TwoSum
    <3> QED BY <1>12, <2>1, <3>1 DEF R
  <2>3. e < 2^s2 /\ 2^s2 <= B /\ 2^s2 \in Nat
    <3>1. 2^s2 \in Nat /\ 2^s2 <= B
      BY <1>10, <2>1
    <3> PICK a \in Nat : a = 2^s2
      BY <3>1
    <3>2. in < R * a
      BY <1>2, <2>2
    <3>3. e < a
      BY ONLY <1>1, <1>2, <3>2, a \in Nat, DivLess DEF e
    <3> QED BY <3>1, <3>3
  <2>4. h = 0 /\ i1 = e
    <3>1. e < B
      BY <1>1, <1>3, <2>3
    <3> QED BY ONLY <1>1, <1>3, <3>1, ModSmall DEF h, i1
  <2>5. 2^s3 = 1
    BY <1>12, TwoToZero
  <2> QED BY <1>1, <1>3, <2>2, <2>3, <2>4, <2>5
<1>13. CASE /\ (LimbBits - b) + LimbBits < size /\ size <= (LimbBits - b) + 2 * LimbBits
            /\ s1 = LimbBits - b /\ s2 = LimbBits /\ s3 = size - ((LimbBits - b) + LimbBits)
  <2>1. s3 \in Nat /\ s3 <= LimbBits /\ size = s1 + (LimbBits + s3) /\ s1 \in Nat /\ LimbBits + s3 \in Nat
    BY <1>1, <1>2, <1>13
  <2>2. 2^size = R * (B * 2^s3) /\ 2^s1 = R /\ 2^s2 = B
    <3>1. 2^(s1 + (LimbBits + s3)) = 2^s1 * 2^(LimbBits + s3)
      BY ONLY <2>1, TwoSum
    <3>2. 2^(LimbBits + s3) = 2^LimbBits * 2^s3
      BY ONLY <1>1, <2>1, TwoSum
    <3> QED BY <1>13, <2>1, <3>1, <3>2 DEF R, B
  <2>3. 2^s3 \in Nat /\ 2^s3 <= B
    BY <1>10, <2>1
  <2> PICK a \in Nat : a = 2^s3
    BY <2>3
  <2>4. e < B * a
    <3>1. B * a \in Nat
      BY <1>1
    <3> PICK c \in Nat : c = B * a
      BY <3>1
    <3>2. in < R * c
      BY <1>2, <2>2
    <3>3. e < c
      BY ONLY <1>1, <1>2, <3>2, c \in Nat, DivLess DEF e
    <3> QED BY <3>3
  <2>5. h < a
    BY ONLY <1>1, <1>3, <2>4, a \in Nat, DivLess DEF h
  <2> QED BY <1>1, <1>3, <1>6, <2>2, <2>3, <2>5
<1> QED BY <1>11, <1>12, <1>13 DEF Spread

(* The parts of a field at their places. *)
LEMMA FieldTimes ==
  ASSUME NEW b \in 0 .. LimbBits - 1, NEW size \in 1 .. 2 * LimbBits + 1,
         NEW s1, NEW s2, NEW s3, Spread(b, size, s1, s2, s3),
         NEW q0 \in Nat, NEW q1 \in Nat, NEW q2 \in Nat, s2 = 0 => q1 = 0, s3 = 0 => q2 = 0
  PROVE  (q0 + q1 * 2^s1 + q2 * 2^(s1 + s2)) * 2^b = q0 * 2^b + q1 * B + q2 * (B * B)
<1> DEFINE T == 2^b
           R == 2^(LimbBits - b)
<1>1. T \in Nat /\ T >= 1 /\ R \in Nat /\ R >= 1 /\ B = R * T /\ LimbBits - b \in Nat /\ B \in Nat /\ LimbBits \in Nat
      /\ size \in Nat
  BY RoomIs, LimbIs
<1> HIDE DEF T
<1>2. CASE s1 = LimbBits - b /\ s2 = LimbBits
  <2>1. 2^s1 = R /\ 2^(s1 + s2) = R * B
    <3>1. 2^(s1 + LimbBits) = 2^s1 * 2^LimbBits
      BY <1>1, <1>2, TwoSum
    <3> QED BY <1>2, <3>1 DEF R, B
  <2> HIDE DEF R
  <2>2. \A a, c, d, r, t, u \in Nat : (a + c * r + d * (r * u)) * t = a * t + c * (r * t) + d * ((r * t) * u)
    OBVIOUS
  <2>3. (q0 + q1 * R + q2 * (R * B)) * T = q0 * T + q1 * (R * T) + q2 * ((R * T) * B)
    BY ONLY <1>1, <2>2, q0 \in Nat, q1 \in Nat, q2 \in Nat
  <2> QED BY <1>1, <2>1, <2>3 DEF T
<1>3. CASE s1 = LimbBits - b /\ s3 = 0 /\ s2 \in Nat
  <2>1. 2^s1 = R
    BY <1>3
  <2>2. 2^(s1 + s2) \in Nat
    <3>1. s1 + s2 \in Nat
      BY <1>1, <1>3
    <3> QED BY <3>1, TwoPower
  <2> HIDE DEF R
  <2>3. \A a, c, x, z, r, t \in Nat : (a + c * r + 0 * x) * t = a * t + c * (r * t) + 0 * z
    OBVIOUS
  <2>4. B * B \in Nat
    BY <1>1
  <2>5. (q0 + q1 * R + 0 * 2^(s1 + s2)) * T = q0 * T + q1 * (R * T) + 0 * (B * B)
    BY ONLY <1>1, <2>2, <2>3, <2>4, q0 \in Nat, q1 \in Nat
  <2>6. q2 = 0
    BY <1>3
  <2> QED BY ONLY <1>1, <2>1, <2>5, <2>6 DEF T
<1>4. CASE s1 = size /\ s2 = 0 /\ s3 = 0
  <2>1. q1 = 0 /\ q2 = 0
    BY <1>4
  <2>2. 2^s1 \in Nat /\ 2^(s1 + s2) \in Nat /\ B * B \in Nat
    BY <1>1, <1>4, TwoPower
  <2>3. \A a, x, y, z, v, t \in Nat : (a + 0 * x + 0 * y) * t = a * t + 0 * z + 0 * v
    OBVIOUS
  <2>4. (q0 + 0 * 2^s1 + 0 * 2^(s1 + s2)) * T = q0 * T + 0 * B + 0 * (B * B)
    BY ONLY <1>1, <2>2, <2>3, q0 \in Nat
  <2> QED BY ONLY <2>1, <2>4 DEF T
<1>5. (s2 \in Nat) \/ (s1 = LimbBits - b /\ s2 = LimbBits)
  BY <1>1 DEF Spread
<1> QED BY <1>1, <1>2, <1>3, <1>4, <1>5 DEF Spread

(* The limb in which the field begins, with other bits in it. *)
LEMMA FirstLimb ==
  ASSUME NEW b \in 0 .. LimbBits - 1, NEW s \in Nat, s <= LimbBits - b, NEW x \in 0 .. B - 1, NEW k \in 0 .. 2^s - 1
  PROVE  x - ((x \div 2^b) % 2^s) * 2^b + k * 2^b \in 0 .. B - 1
<1> DEFINE T == 2^b
           R == 2^(LimbBits - b)
           S == 2^s
           D == 2^((LimbBits - b) - s)
           u == x \div T
           z == x % T
           q == u % S
<1>1. T \in Nat /\ T >= 1 /\ R \in Nat /\ B = R * T /\ LimbBits - b \in Nat
  BY RoomIs
<1>2. S \in Nat /\ S >= 1 /\ D \in Nat /\ R = D * S
  <2>1. (LimbBits - b) - s \in Nat /\ ((LimbBits - b) - s) + s = LimbBits - b
    BY <1>1
  <2>2. 2^(((LimbBits - b) - s) + s) = D * S
    BY ONLY <2>1, s \in Nat, TwoSum
  <2> QED BY <2>1, <2>2, TwoPower
<1> HIDE DEF T, R, S, D
<1>3. u \in Nat /\ z \in 0 .. T - 1 /\ x = u * T + z /\ x \in Nat /\ u < R
  <2>1. x \in Int /\ x \in Nat /\ x < T * R
    <3>1. B \in Nat /\ T * R = B
      BY <1>1, LimbIs
    <3> QED BY <3>1
  <2>2. u \in Nat /\ z \in 0 .. T - 1 /\ x = u * T + z
    BY ONLY <1>1, <2>1, Quotients
  <2>3. u < R
    BY ONLY <1>1, <2>1, DivLess
  <2> QED BY <2>1, <2>2, <2>3
<1> HIDE DEF u, z
<1>4. q \in 0 .. S - 1 /\ u - q + k \in Nat /\ u - q + k < D * S
  <2>1. u < D * S /\ k \in 0 .. S - 1
    BY <1>2, <1>3 DEF S
  <2> QED BY ONLY <1>2, <1>3, <2>1, Replaced
<1> HIDE DEF q
<1>5. k \in Nat /\ q \in Nat
  BY <1>2, <1>4 DEF S
<1> DEFINE v == u - q + k
<1>6. v \in 0 .. R - 1
  BY <1>1, <1>2, <1>4
<1>7. v * T + z \in Nat /\ v * T + z < R * T
  <2> HIDE DEF v
  <2> QED BY ONLY <1>1, <1>3, <1>6, Below
<1>8. x - q * T + k * T = v * T + z
  <2>1. \A c \in Int : ((u * T + z) - q * T) + k * T = (u - q + k) * T + z
    BY ONLY <1>1, <1>3, <1>5
  <2> QED BY <1>3, <2>1
<1>9. x - q * T + k * T \in 0 .. B - 1
  <2> PICK w \in Nat, c \in Nat : w = v * T + z /\ c = R * T
    <3>1. R * T \in Nat
      BY <1>1
    <3> QED BY <1>7, <3>1
  <2>1. w < c /\ c = B
    BY <1>1, <1>7
  <2>2. w \in 0 .. B - 1
    BY ONLY <2>1, w \in Nat, c \in Nat
  <2> QED BY <1>8, <2>2
<1> QED BY <1>9 DEF q, T, S, u

(* The limbs above it. *)
LEMMA NextLimb ==
  ASSUME NEW s \in Nat, s <= LimbBits, NEW x \in 0 .. B - 1, NEW i \in Nat, i < 2^s
  PROVE  x - (x % 2^s) + i \in 0 .. B - 1
<1> DEFINE S == 2^s
           D == 2^(LimbBits - s)
<1>1. S \in Nat /\ S >= 1 /\ D \in Nat /\ B = D * S /\ B \in Nat
  <2>1. LimbBits - s \in Nat /\ (LimbBits - s) + s = LimbBits
    BY LimbIs
  <2>2. 2^((LimbBits - s) + s) = D * S
    BY ONLY <2>1, s \in Nat, TwoSum
  <2> QED BY <2>1, <2>2, TwoPower, LimbIs DEF B
<1> HIDE DEF S, D
<1>2. x \in Nat /\ x < D * S /\ i \in 0 .. S - 1
  BY <1>1 DEF S
<1>3. x - (x % S) + i \in Nat /\ x - (x % S) + i < D * S
  BY ONLY <1>1, <1>2, Replaced
<1>4. x - (x % S) + i \in 0 .. B - 1
  BY <1>1, <1>3
<1> QED BY <1>4 DEF S

(* How long the parts are, and that the limbs exist that they are in. *)
LEMMA SpreadFits ==
  ASSUME NEW b \in 0 .. LimbBits - 1, NEW c \in 1 .. 2 * LimbBits + 1, NEW m \in Nat, m >= 1,
         NEW s1, NEW s2, NEW s3, Spread(b, c, s1, s2, s3), b + c <= LimbBits * m
  PROVE  /\ s1 \in Nat /\ s2 \in Nat /\ s3 \in Nat /\ s1 + s2 \in Nat
         /\ s1 <= LimbBits - b /\ s2 <= LimbBits /\ s3 <= LimbBits
         /\ (s2 # 0 => m >= 2) /\ (s3 # 0 => m >= 3) /\ c = (s1 + s2) + s3
<1>1. LimbBits \in Nat /\ LimbBits >= 1 /\ b \in Nat /\ b <= LimbBits - 1 /\ c \in Nat /\ c >= 1 /\ m \in Nat
      /\ c <= 2 * LimbBits + 1
  BY LimbIs
<1>2. m = 1 => b + c <= LimbBits
  BY <1>1
<1>3. m = 2 => b + c <= 2 * LimbBits
  BY <1>1
<1> QED BY ONLY <1>1, <1>2, <1>3, m >= 1, Spread(b, c, s1, s2, s3) DEF Spread

(* fixnum_poke (fixnum.c:290-329) changes the field and no other bit. *)
LEMMA PokeIs ==
  ASSUME NEW n \in Nat, NEW f \in NumbersOf(n), NEW offset \in 0 .. LimbBits * n - 1,
         NEW size \in 1 .. 2 * LimbBits + 1, NEW in \in 0 .. 2^Clipped(f, offset, size) - 1
  PROVE  LET g == fixnum_poke(f, offset, size, in)
             F == (Value(f) \div 2^offset) % 2^Clipped(f, offset, size)
         IN  g \in NumbersOf(n) /\ Value(g) = Value(f) + (in - F) * 2^offset
<1> DEFINE c == Clipped(f, offset, size)
           p == offset \div LimbBits
           b == offset % LimbBits
           m == n - p
           ss == FieldSizes(offset, c)
           s1 == ss[1]
           s2 == ss[2]
           s3 == ss[3]
           x0 == f[m]
           x1 == LimbAt(f, m - 1)
           x2 == LimbAt(f, m - 2)
           q0 == (x0 \div 2^b) % 2^s1
           q1 == x1 % 2^s2
           q2 == x2 % 2^s3
           y  == in * 2^b
           i0 == y % B
           i1 == (y \div B) % B
           i2 == (y \div (B * B)) % B
           e0 == i0 - q0 * 2^b
           e1 == i1 - q1
           e2 == i2 - q2
           g  == fixnum_poke(f, offset, size, in)
           F  == (Value(f) \div 2^offset) % 2^c
           P  == Place(p)
<1>1. /\ c \in 1 .. 2 * LimbBits + 1 /\ offset \in Nat
      /\ p \in 0 .. n - 1 /\ b \in 0 .. LimbBits - 1
      /\ 2^offset = P * 2^b
      /\ b + c <= LimbBits * m
  BY FieldIs
<1>2. Spread(b, c, s1, s2, s3)
  <2> HIDE DEF c
  <2> QED BY <1>1, SpreadIs
<1>3. Len(f) = n /\ DOMAIN f = 1 .. n /\ Value(f) \in Nat /\ f \in [1 .. n -> Int]
  BY ValueRange
<1>4. /\ DOMAIN g = 1 .. n
      /\ \A k \in 1 .. n :
           g[k] = IF m - k \in 0 .. 2
                    THEN Cleared(f[k], m - k, b, ss) + LowLimb(y \div 2^(LimbBits * (m - k)))
                    ELSE f[k]
  BY <1>3 DEF fixnum_poke
<1>5. in \in 0 .. 2^c - 1
  OBVIOUS
<1> HIDE DEF c, p, b, ss, y, g, F, P
<1>6. m \in 1 .. n /\ m \in Int /\ m \in Nat /\ m >= 1 /\ n - m = p
  BY <1>1 DEF m
<1> HIDE DEF m
<1>7. /\ s1 \in Nat /\ s2 \in Nat /\ s3 \in Nat /\ s1 + s2 \in Nat
      /\ s1 <= LimbBits - b /\ s2 <= LimbBits /\ s3 <= LimbBits
      /\ (s2 # 0 => m >= 2) /\ (s3 # 0 => m >= 3) /\ c = (s1 + s2) + s3
  <2> HIDE DEF s1, s2, s3
  <2> QED BY ONLY <1>1, <1>2, <1>6, SpreadFits
<1>8. x0 \in 0 .. B - 1 /\ x1 \in 0 .. B - 1 /\ x2 \in 0 .. B - 1 /\ x0 \in Nat /\ x1 \in Nat /\ x2 \in Nat
  <2>1. x0 \in 0 .. B - 1
    BY <1>6, LimbsAreNumbers
  <2>2. m - 1 \in Int /\ m - 2 \in Int
    BY <1>6
  <2>3. x1 \in 0 .. B - 1 /\ x2 \in 0 .. B - 1
    BY <2>2, LimbAtIs
  <2> HIDE DEF x0, x1, x2
  <2> QED BY <2>1, <2>3, LimbIs
<1>9. PICK A \in Nat : Value(f) \div P = From(A, x2, x1, x0)
  BY <1>1, LimbsAbove DEF m, P
<1>10. /\ 2^b \in Nat /\ 2^b >= 1 /\ B \in Nat /\ B >= 1 /\ P \in Nat /\ P >= 1 /\ p \in Nat
       /\ 2^s1 \in Nat /\ 2^s1 >= 1 /\ 2^s2 \in Nat /\ 2^s2 >= 1 /\ 2^s3 \in Nat /\ 2^s3 >= 1
  <2>1. p \in Nat
    BY <1>1
  <2>2. 2^b \in Nat /\ 2^b >= 1 /\ B \in Nat /\ B >= 1 /\ P \in Nat /\ P >= 1
    BY <1>1, <2>1, RoomIs, LimbIs, Places DEF P
  <2>3. 2^s1 \in Nat /\ 2^s1 >= 1 /\ 2^s2 \in Nat /\ 2^s2 >= 1 /\ 2^s3 \in Nat /\ 2^s3 >= 1
    <3> HIDE DEF s1, s2, s3
    <3> QED BY ONLY <1>7, TwoPower
  <2> QED BY <2>1, <2>2, <2>3
<1> HIDE DEF s1, s2, s3, x0, x1, x2
<1>11. F = q0 + q1 * 2^s1 + q2 * 2^(s1 + s2)
  <2>1. Value(f) \div 2^offset = From(A, x2, x1, x0) \div 2^b
    <3>1. Value(f) \div (P * 2^b) = (Value(f) \div P) \div 2^b
      <4> PICK v \in Nat, a \in Nat, d \in Nat : v = Value(f) /\ a = P /\ d = 2^b
        BY <1>3, <1>10
      <4>1. v \div (a * d) = (v \div a) \div d
        <5>1. a >= 1 /\ d >= 1
          BY <1>10
        <5> QED BY ONLY <5>1, v \in Nat, a \in Nat, d \in Nat, TwoStage
      <4> QED BY <4>1
    <3> QED BY <1>1, <1>9, <3>1
  <2>2. (From(A, x2, x1, x0) \div 2^b) % 2^c = q0 + q1 * 2^s1 + q2 * 2^(s1 + s2)
    BY ONLY <1>1, <1>2, <1>8, A \in Nat, FieldParts
  <2> QED BY ONLY <2>1, <2>2 DEF F
<1>12. ASSUME NEW x \in Nat, NEW k \in Nat, k >= 1 PROVE (x % k) \in Nat
  <2>1. x \in Int
    OBVIOUS
  <2> QED BY ONLY <2>1, x \in Nat, k \in Nat, k >= 1, Quotients
<1>13. q0 \in Nat /\ q1 \in Nat /\ q2 \in Nat
  <2>1. x0 \div 2^b \in Nat
    <3> PICK k \in Nat : k = 2^b
      BY <1>10
    <3>1. x0 \div k \in Nat
      <4>1. x0 \in Int /\ k >= 1
        BY <1>8, <1>10
      <4> QED BY ONLY <1>8, <4>1, k \in Nat, Quotients
    <3> QED BY <3>1
  <2> QED BY <1>8, <1>10, <1>12, <2>1
<1>14. (s2 = 0 => q1 = 0) /\ (s3 = 0 => q2 = 0)
  <2>1. 2^0 = 1 /\ \A x \in Nat : x % 1 = 0
    BY TwoToZero
  <2> QED BY <1>8, <2>1
<1>15. F * 2^b = q0 * 2^b + q1 * B + q2 * (B * B)
  <2> HIDE DEF q0, q1, q2
  <2>1. (q0 + q1 * 2^s1 + q2 * 2^(s1 + s2)) * 2^b = q0 * 2^b + q1 * B + q2 * (B * B)
    BY ONLY <1>1, <1>2, <1>13, <1>14, FieldTimes
  <2> QED BY <1>11, <2>1
<1>16. /\ y \in Nat /\ i0 \in Nat /\ i1 \in Nat /\ i2 \in Nat
       /\ y = i0 + i1 * B + i2 * (B * B)
       /\ \E k \in 0 .. 2^s1 - 1 : i0 = k * 2^b
       /\ i1 < 2^s2 /\ i2 < 2^s3
  BY ONLY <1>1, <1>2, <1>5, NewLimbs DEF y
<1> HIDE DEF i0, i1, i2, q0, q1, q2
<1>17. x0 + e0 \in 0 .. B - 1 /\ x1 + e1 \in 0 .. B - 1 /\ x2 + e2 \in 0 .. B - 1
  <2>1. PICK k \in 0 .. 2^s1 - 1 : i0 = k * 2^b
    BY <1>16
  <2>2. x0 - q0 * 2^b + k * 2^b \in 0 .. B - 1
    BY ONLY <1>1, <1>7, <1>8, k \in 0 .. 2^s1 - 1, FirstLimb DEF q0
  <2>3. x1 - q1 + i1 \in 0 .. B - 1
    BY ONLY <1>7, <1>8, <1>16, NextLimb DEF q1
  <2>4. x2 - q2 + i2 \in 0 .. B - 1
    BY ONLY <1>7, <1>8, <1>16, NextLimb DEF q2
  <2>5. x0 + e0 = x0 - q0 * 2^b + k * 2^b
    <3>1. q0 * 2^b \in Nat
      BY ONLY <1>10, <1>13
    <3> PICK t \in Nat : t = q0 * 2^b
      BY <3>1
    <3>2. x0 + (i0 - t) = x0 - t + i0
      BY ONLY <1>8, <1>16, t \in Nat
    <3> QED BY <2>1, <3>2
  <2>6. x1 + e1 = x1 - q1 + i1 /\ x2 + e2 = x2 - q2 + i2
    BY ONLY <1>8, <1>13, <1>16
  <2> HIDE DEF e0, e1, e2
  <2> QED BY <2>2, <2>3, <2>4, <2>5, <2>6
<1>18. e0 \in Int /\ e1 \in Int /\ e2 \in Int
  <2>1. q0 * 2^b \in Int
    BY ONLY <1>10, <1>13
  <2>2. \A u, v \in Int : u - v \in Int
    OBVIOUS
  <2>3. i0 \in Int /\ i1 \in Int /\ i2 \in Int /\ q1 \in Int /\ q2 \in Int
    BY ONLY <1>13, <1>16
  <2> QED BY ONLY <2>1, <2>2, <2>3
<1>19. (m - 1 < 1 => e1 = 0) /\ (m - 2 < 1 => e2 = 0)
  <2>1. ASSUME m - 1 < 1 PROVE e1 = 0
    <3>1. s2 = 0
      BY <1>6, <1>7, <2>1
    <3>2. i1 < 1
      BY <1>16, <3>1, TwoToZero
    <3> QED BY <1>14, <1>16, <3>1, <3>2
  <2>2. ASSUME m - 2 < 1 PROVE e2 = 0
    <3>1. s3 = 0
      BY <1>6, <1>7, <2>2
    <3>2. i2 < 1
      BY <1>16, <3>1, TwoToZero
    <3> QED BY <1>14, <1>16, <3>1, <3>2
  <2> QED BY <2>1, <2>2
<1> DEFINE d0 == [k \in 1 .. n |-> IF k = m THEN e0 ELSE 0]
           d1 == [k \in 1 .. n |-> IF k = m - 1 THEN e1 ELSE 0]
           d2 == [k \in 1 .. n |-> IF k = m - 2 THEN e2 ELSE 0]
           a1 == [k \in 1 .. n |-> f[k] + d0[k]]
           a2 == [k \in 1 .. n |-> a1[k] + d1[k]]
           a3 == [k \in 1 .. n |-> a2[k] + d2[k]]
<1>20. 2^(LimbBits * 0) = 1 /\ 2^(LimbBits * 1) = B /\ 2^(LimbBits * 2) = B * B
  BY FirstPlace DEF Place
<1>21. LowLimb(y \div 1) = i0 /\ LowLimb(y \div B) = i1 /\ LowLimb(y \div (B * B)) = i2
  <2>1. y \div 1 = y
    BY <1>16
  <2> QED BY <2>1 DEF LowLimb, B, i0, i1, i2
<1>22. ASSUME NEW k \in 1 .. n
       PROVE  g[k] = IF k = m THEN x0 + e0 ELSE IF k = m - 1 THEN x1 + e1 ELSE IF k = m - 2 THEN x2 + e2 ELSE f[k]
  <2>1. CASE k = m
    <3>1. m - k = 0 /\ 0 \in 0 .. 2
      BY <1>6, <2>1
    <3>2. g[k] = Cleared(f[k], 0, b, ss) + LowLimb(y \div 2^(LimbBits * 0))
      BY <1>4, <3>1
    <3>3. Cleared(f[k], 0, b, ss) = x0 - q0 * 2^b
      BY <2>1 DEF Cleared, x0, q0, s1
    <3>4. (x0 - q0 * 2^b) + i0 = x0 + e0
      <4>1. q0 * 2^b \in Nat
        BY ONLY <1>10, <1>13
      <4> PICK t \in Nat : t = q0 * 2^b
        BY <4>1
      <4>2. (x0 - t) + i0 = x0 + (i0 - t)
        BY ONLY <1>8, <1>16, t \in Nat
      <4> QED BY <4>2
    <3> QED BY ONLY <1>20, <1>21, <2>1, <3>2, <3>3, <3>4
  <2>2. CASE k = m - 1
    <3>1. m - k = 1 /\ 1 \in 0 .. 2 /\ k # m
      BY <1>6, <2>2
    <3>2. g[k] = Cleared(f[k], 1, b, ss) + LowLimb(y \div 2^(LimbBits * 1))
      BY <1>4, <3>1
    <3>3. x1 = f[k]
      BY <1>3, <2>2 DEF x1, LimbAt
    <3>4. Cleared(f[k], 1, b, ss) = x1 - q1
      <4>1. 1 # 0 /\ 1 + 1 = 2
        OBVIOUS
      <4> QED BY ONLY <3>3, <4>1 DEF Cleared, q1, s2
    <3>5. (x1 - q1) + i1 = x1 + e1
      BY ONLY <1>8, <1>13, <1>16
    <3> HIDE DEF e1
    <3> QED BY ONLY <1>20, <1>21, <2>2, <3>1, <3>2, <3>4, <3>5
  <2>3. CASE k = m - 2
    <3>1. m - k = 2 /\ 2 \in 0 .. 2 /\ k # m /\ k # m - 1
      BY <1>6, <2>3
    <3>2. g[k] = Cleared(f[k], 2, b, ss) + LowLimb(y \div 2^(LimbBits * 2))
      BY <1>4, <3>1
    <3>3. x2 = f[k]
      BY <1>3, <2>3 DEF x2, LimbAt
    <3>4. Cleared(f[k], 2, b, ss) = x2 - q2
      <4>1. 2 # 0 /\ 2 + 1 = 3
        OBVIOUS
      <4> QED BY ONLY <3>3, <4>1 DEF Cleared, q2, s3
    <3>5. (x2 - q2) + i2 = x2 + e2
      BY ONLY <1>8, <1>13, <1>16
    <3> HIDE DEF e2
    <3> QED BY ONLY <1>20, <1>21, <2>3, <3>1, <3>2, <3>4, <3>5
  <2>4. CASE k # m /\ k # m - 1 /\ k # m - 2
    <3>1. ~(m - k \in 0 .. 2)
      BY <1>6, <2>4
    <3> QED BY <1>4, <2>4, <3>1
  <2> QED BY <2>1, <2>2, <2>3, <2>4
<1> HIDE DEF e0, e1, e2
<1>23. g \in NumbersOf(n)
  <2>1. \A k \in 1 .. n : g[k] \in 0 .. B - 1
    BY <1>17, <1>22, LimbsAreNumbers
  <2>2. g = [k \in 1 .. n |-> g[k]]
    BY <1>4 DEF g, fixnum_poke
  <2>3. g \in [1 .. n -> 0 .. B - 1]
    BY <2>1, <2>2
  <2> QED BY <2>3, LimbIs DEF NumbersOf
<1>24. d0 \in [1 .. n -> Int] /\ d1 \in [1 .. n -> Int] /\ d2 \in [1 .. n -> Int]
  BY <1>18
<1>25. a1 \in [1 .. n -> Int] /\ a2 \in [1 .. n -> Int]
  <2> HIDE DEF d0, d1, d2
  <2>1. a1 \in [1 .. n -> Int]
    BY <1>3, <1>24
  <2> HIDE DEF a1
  <2>2. \A k \in 1 .. n : a1[k] + d1[k] \in Int
    <3>1. \A k \in 1 .. n : a1[k] \in Int /\ d1[k] \in Int
      BY <1>24, <2>1
    <3>2. \A u, v \in Int : u + v \in Int
      OBVIOUS
    <3> QED BY ONLY <3>1, <3>2
  <2> QED BY ONLY <2>1, <2>2
<1>26. g = a3
  <2>1. ASSUME NEW k \in 1 .. n PROVE g[k] = a3[k]
    <3>1. a3[k] = ((f[k] + d0[k]) + d1[k]) + d2[k] /\ f[k] \in Int
      BY <1>3
    <3>2. /\ d0[k] = (IF k = m THEN e0 ELSE 0)
          /\ d1[k] = (IF k = m - 1 THEN e1 ELSE 0)
          /\ d2[k] = (IF k = m - 2 THEN e2 ELSE 0)
      OBVIOUS
    <3>3. (k = m => f[k] = x0) /\ (k = m - 1 => f[k] = x1) /\ (k = m - 2 => f[k] = x2)
      BY <1>3 DEF x0, x1, x2, LimbAt
    <3> HIDE DEF a3, d0, d1, d2
    <3>4. CASE k = m
      <4>1. k # m - 1 /\ k # m - 2
        BY <1>6, <3>4
      <4>2. g[k] = x0 + e0 /\ a3[k] = ((x0 + e0) + 0) + 0
        BY ONLY <1>22, <3>1, <3>2, <3>3, <3>4, <4>1
      <4> QED BY ONLY <1>8, <1>18, <4>2
    <3>5. CASE k = m - 1
      <4>1. k # m /\ k # m - 2
        BY <1>6, <3>5
      <4>2. g[k] = x1 + e1 /\ a3[k] = ((x1 + 0) + e1) + 0
        BY ONLY <1>22, <3>1, <3>2, <3>3, <3>5, <4>1
      <4> QED BY ONLY <1>8, <1>18, <4>2
    <3>6. CASE k = m - 2
      <4>1. k # m - 1 /\ k # m
        BY <1>6, <3>6
      <4>2. g[k] = x2 + e2 /\ a3[k] = ((x2 + 0) + 0) + e2
        BY ONLY <1>22, <3>1, <3>2, <3>3, <3>6, <4>1
      <4> QED BY ONLY <1>8, <1>18, <4>2
    <3>7. CASE k # m /\ k # m - 1 /\ k # m - 2
      <4>1. g[k] = f[k] /\ a3[k] = ((f[k] + 0) + 0) + 0
        BY ONLY <1>22, <3>1, <3>2, <3>7
      <4> QED BY ONLY <3>1, <4>1
    <3> QED BY <3>4, <3>5, <3>6, <3>7
  <2>2. g = [k \in 1 .. n |-> g[k]] /\ a3 = [k \in 1 .. n |-> a3[k]]
    BY <1>4 DEF g, fixnum_poke
  <2> HIDE DEF a3
  <2> QED BY <2>1, <2>2
<1>27. NumberOf(d0, B) = e0 * P
  <2>1. Power(B, n - m) = P
    BY <1>6, <1>10, PlaceIs DEF P
  <2>2. e0 \in Int /\ B \in Nat /\ m \in 1 .. n
    BY <1>6, <1>10, <1>18
  <2>3. NumberOf(d0, B) = e0 * Power(B, n - m)
    BY ONLY n \in Nat, <2>2, OneDigit
  <2> QED BY <2>1, <2>3
<1>28. Place(p + 1) = P * B /\ Place(p + 2) = (P * B) * B
  <2>1. p + 1 \in Nat /\ (p + 1) + 1 = p + 2
    BY <1>10
  <2>2. Place((p + 1) + 1) = Place(p + 1) * B
    BY ONLY <2>1, Places
  <2> QED BY <1>10, <2>1, <2>2, Places DEF P
<1>29. NumberOf(d1, B) = e1 * (P * B)
  <2>1. CASE m - 1 >= 1
    <3>1. m - 1 \in 1 .. n /\ n - (m - 1) = p + 1 /\ p + 1 \in Nat
      BY <1>6, <1>10, <2>1
    <3>2. Power(B, n - (m - 1)) = P * B
      BY <1>28, <3>1, PlaceIs
    <3>3. e1 \in Int /\ B \in Nat
      BY <1>10, <1>18
    <3> PICK i \in 1 .. n : i = m - 1
      BY <3>1
    <3>4. NumberOf([k \in 1 .. n |-> IF k = i THEN e1 ELSE 0], B) = e1 * Power(B, n - i)
      BY ONLY n \in Nat, i \in 1 .. n, <3>3, OneDigit
    <3> QED BY <3>2, <3>4
  <2>2. CASE m - 1 < 1
    <3>1. d1 = [k \in 1 .. n |-> 0]
      BY <1>6, <2>2
    <3>2. NumberOf([k \in 1 .. n |-> 0], B) = 0
      BY <1>10, Zeros
    <3>3. e1 = 0
      BY <1>19, <2>2
    <3>4. 0 * (P * B) = 0
      BY <1>10
    <3> HIDE DEF d1
    <3> QED BY <3>1, <3>2, <3>3, <3>4
  <2> QED BY <1>6, <2>1, <2>2
<1>30. NumberOf(d2, B) = e2 * ((P * B) * B)
  <2>1. CASE m - 2 >= 1
    <3>1. m - 2 \in 1 .. n /\ n - (m - 2) = p + 2 /\ p + 2 \in Nat
      BY <1>6, <1>10, <2>1
    <3>2. Power(B, n - (m - 2)) = (P * B) * B
      BY <1>28, <3>1, PlaceIs
    <3>3. e2 \in Int /\ B \in Nat
      BY <1>10, <1>18
    <3> PICK i \in 1 .. n : i = m - 2
      BY <3>1
    <3>4. NumberOf([k \in 1 .. n |-> IF k = i THEN e2 ELSE 0], B) = e2 * Power(B, n - i)
      BY ONLY n \in Nat, i \in 1 .. n, <3>3, OneDigit
    <3> QED BY <3>2, <3>4
  <2>2. CASE m - 2 < 1
    <3>1. d2 = [k \in 1 .. n |-> 0]
      BY <1>6, <2>2
    <3>2. NumberOf([k \in 1 .. n |-> 0], B) = 0
      BY <1>10, Zeros
    <3>3. e2 = 0
      BY <1>19, <2>2
    <3>4. 0 * ((P * B) * B) = 0
      BY <1>10
    <3> HIDE DEF d2
    <3> QED BY <3>1, <3>2, <3>3, <3>4
  <2> QED BY <1>6, <2>1, <2>2
<1>31. Value(g) = ((Value(f) + e0 * P) + e1 * (P * B)) + e2 * ((P * B) * B)
  <2>1. B \in Int
    BY <1>10
  <2> HIDE DEF d0, d1, d2
  <2>2. NumberOf(a1, B) = NumberOf(f, B) + NumberOf(d0, B)
    BY ONLY n \in Nat, <1>3, <1>24, <2>1, NumberAdd
  <2> HIDE DEF a1
  <2>3. NumberOf(a2, B) = NumberOf(a1, B) + NumberOf(d1, B)
    BY ONLY n \in Nat, <1>25, <1>24, <2>1, NumberAdd
  <2> HIDE DEF a2
  <2>4. NumberOf(a3, B) = NumberOf(a2, B) + NumberOf(d2, B)
    BY ONLY n \in Nat, <1>25, <1>24, <2>1, NumberAdd
  <2> HIDE DEF a3
  <2>5. Value(g) = NumberOf(a3, B) /\ Value(f) = NumberOf(f, B)
    BY <1>26 DEF Value, B
  <2> QED BY ONLY <1>27, <1>29, <1>30, <2>2, <2>3, <2>4, <2>5
<1>32. ((Value(f) + e0 * P) + e1 * (P * B)) + e2 * ((P * B) * B) = Value(f) + (in - F) * (P * 2^b)
  <2> PICK T \in Nat, v \in Nat : T = 2^b /\ v = Value(f)
    BY <1>3, <1>10
  <2>1. F \in Nat /\ in \in Nat
    <3>1. 2^(s1 + s2) \in Nat
      BY <1>7, TwoPower
    <3>2. \A u, w, x, z, t \in Nat : u + w * x + z * t \in Nat
      OBVIOUS
    <3>3. F \in Nat
      BY ONLY <1>10, <1>11, <1>13, <3>1, <3>2
    <3>4. 2^c \in Nat
      <4>1. c \in Nat
        BY <1>1, LimbIs
      <4> QED BY <4>1, TwoPower
    <3> QED BY <1>5, <3>3, <3>4
  <2>2. in * T - F * T = (e0 + e1 * B) + e2 * (B * B)
    <3>1. in * T = i0 + i1 * B + i2 * (B * B)
      BY <1>16 DEF y
    <3>2. F * T = q0 * T + q1 * B + q2 * (B * B)
      BY <1>15
    <3>3. e0 = i0 - q0 * T /\ e1 = i1 - q1 /\ e2 = i2 - q2
      BY DEF e0, e1, e2
    <3>4. \A j0, j1, j2, k0, k1, k2, u \in Nat :
            (j0 + j1 * u + j2 * (u * u)) - (k0 + k1 * u + k2 * (u * u)) = ((j0 - k0) + (j1 - k1) * u) + (j2 - k2) * (u * u)
      OBVIOUS
    <3>5. q0 * T \in Nat
      BY ONLY <1>13, T \in Nat
    <3>6. (i0 + i1 * B + i2 * (B * B)) - (q0 * T + q1 * B + q2 * (B * B))
            = ((i0 - q0 * T) + (i1 - q1) * B) + (i2 - q2) * (B * B)
      BY ONLY <1>10, <1>13, <1>16, <3>4, <3>5
    <3> QED BY ONLY <3>1, <3>2, <3>3, <3>6
  <2>3. (in - F) * (P * T) = (in * T - F * T) * P
    BY ONLY <1>10, <2>1, T \in Nat
  <2>4. \A j0, j1, j2 \in Int : \A u, w \in Nat :
          ((v + j0 * w) + j1 * (w * u)) + j2 * ((w * u) * u) = v + ((j0 + j1 * u) + j2 * (u * u)) * w
    BY ONLY v \in Nat
  <2>5. ((v + e0 * P) + e1 * (P * B)) + e2 * ((P * B) * B) = v + ((e0 + e1 * B) + e2 * (B * B)) * P
    BY ONLY <1>10, <1>18, <2>4
  <2> QED BY ONLY <2>2, <2>3, <2>5, T = 2^b, v = Value(f)
<1> QED BY ONLY <1>1, <1>23, <1>31, <1>32 DEF g, F, c
-----------------------------------------------------------------------------
(* fixnum_shr_in (fixnum.c:175-181), for the shifts that its asserts let    *)
(* through: what comes in goes above the number.                            *)
LEMMA ShrInIs ==
  ASSUME NEW n \in Nat, n >= 2, NEW f \in NumbersOf(n), NEW shift \in 1 .. 2 * LimbBits, NEW in \in 0 .. 1
  PROVE  LET r == fixnum_shr_in(f, shift, in) IN
           /\ r.limbs \in NumbersOf(n)
           /\ Value(r.limbs) = (in * Place(n) + Value(f)) \div 2^shift
           /\ r.rest = Value(f) % 2^shift
<1> DEFINE r == fixnum_shr(f, shift)
           g == r.limbs
           t == LimbBits * n
           o == t - shift
           q == 2^shift
           V == Value(f)
<1>1. shift \in Nat /\ shift >= 1 /\ shift % 2^8 = shift /\ shift # 0 /\ shift \in 0 .. 2 * LimbBits
      /\ shift \in 1 .. 2 * LimbBits + 1
  <2>1. LimbBits \in Nat /\ LimbBits <= 8
    BY LimbIs
  <2>2. shift \in Nat /\ shift >= 1 /\ shift < 256 /\ 2^8 = 256
    BY <2>1
  <2>3. shift % 256 = shift
    BY <2>2
  <2> QED BY <2>1, <2>2, <2>3
<1>2. t \in Nat /\ t >= 2 * LimbBits /\ o \in 0 .. t - 1 /\ o \in Nat /\ o + shift = t
  <2>1. LimbBits * n >= LimbBits * 2 /\ LimbBits * n \in Nat
    BY LimbIs
  <2>2. LimbBits \in Nat
    BY LimbIs
  <2> QED BY <1>1, <2>1, <2>2
<1>3. g \in NumbersOf(n) /\ Value(g) = V \div q /\ r.rest = V % q
  <2>1. n >= 1
    OBVIOUS
  <2> QED BY <1>1, <2>1, ShrIs
<1>4. V \in Nat /\ V < Place(n) /\ Len(f) = n /\ Len(g) = n /\ Value(g) \in Nat
  BY <1>3, ValueRange
<1>5. q \in Nat /\ q >= 1 /\ 2^o \in Nat /\ 2^o >= 1 /\ Place(n) = 2^o * q /\ q >= 2
  <2>1. 2^(o + shift) = 2^o * 2^shift
    BY ONLY <1>1, <1>2, TwoSum
  <2>2. 2^1 <= 2^shift /\ 2^1 = 2
    <3>1. 1 \in Nat /\ 1 <= shift
      BY <1>1
    <3>2. 2^1 <= 2^shift
      BY ONLY <1>1, <3>1, TwoGrows
    <3> QED BY <3>2
  <2>3. q \in Nat /\ 2^o \in Nat /\ 2^o >= 1
    BY <1>1, <1>2, TwoPower
  <2> QED BY <1>2, <2>1, <2>2, <2>3 DEF Place
<1>6. fixnum_shr_in(f, shift, in) = [limbs |-> fixnum_poke(g, o, shift, in), rest |-> r.rest]
  BY <1>1, <1>4 DEF fixnum_shr_in, BitLength
<1> HIDE DEF r, g, q, V, o
<1>7. Clipped(g, o, shift) = shift
  <2>1. ~(o + shift > t) /\ BitLength(g) = t
    BY <1>2, <1>4 DEF BitLength
  <2> HIDE DEF t
  <2> QED BY <2>1 DEF Clipped
<1>8. (Value(g) \div 2^o) % q = 0
  <2>1. Value(g) < 2^o
    <3>1. V < q * 2^o
      <4>1. q * 2^o = 2^o * q
        BY <1>5
      <4> QED BY <1>4, <1>5, <4>1
    <3>2. V \div q < 2^o
      <4> PICK a \in Nat : a = 2^o
        BY <1>5
      <4>1. V \div q < a
        BY ONLY <1>4, <1>5, <3>1, a = 2^o, a \in Nat, DivLess
      <4> QED BY <4>1
    <3> QED BY <1>3, <3>2
  <2> PICK a \in Nat, v \in Nat : a = 2^o /\ v = Value(g)
    BY <1>4, <1>5
  <2>2. v \div a = 0
    <3>1. v < a
      BY <2>1
    <3> QED BY ONLY <3>1, v \in Nat, a \in Nat, ModSmall
  <2>3. 0 % q = 0
    BY <1>5
  <2> QED BY <2>2, <2>3
<1>9. in \in 0 .. 2^Clipped(g, o, shift) - 1
  BY <1>5, <1>7 DEF q
<1>10. LET h == fixnum_poke(g, o, shift, in)
           F == (Value(g) \div 2^o) % 2^Clipped(g, o, shift)
       IN  h \in NumbersOf(n) /\ Value(h) = Value(g) + (in - F) * 2^o
  <2>1. o \in 0 .. LimbBits * n - 1
    BY <1>2
  <2> QED BY <1>1, <1>3, <1>9, <2>1, PokeIs
<1>11. /\ fixnum_poke(g, o, shift, in) \in NumbersOf(n)
       /\ Value(fixnum_poke(g, o, shift, in)) = (V \div q) + (in - 0) * 2^o
  BY <1>3, <1>7, <1>8, <1>10 DEF q
<1>12. (in * Place(n) + V) \div q = (V \div q) + (in - 0) * 2^o
  <2> PICK a \in Nat : a = 2^o
    BY <1>5
  <2>1. in * Place(n) + V = (in * a) * q + V
    BY <1>5
  <2>2. ((in * a) * q + V) \div q = in * a + (V \div q)
    <3>1. in * a \in Int /\ V \in Int
      BY <1>4
    <3> QED BY ONLY <1>5, <3>1, ModPlus
  <2>3. V \div q \in Nat
    BY <1>3, <1>4
  <2>4. in * a + (V \div q) = (V \div q) + (in - 0) * a
    <3> PICK z \in Nat : z = V \div q
      BY <2>3
    <3>1. in * a + z = z + (in - 0) * a
      OBVIOUS
    <3> QED BY <3>1
  <2> QED BY <2>1, <2>2, <2>4
<1> QED BY <1>3, <1>6, <1>11, <1>12 DEF q, V
-----------------------------------------------------------------------------
(* The bits of a number v with 2^l the largest power of two in it.           *)
LEMMA TopBit ==
  ASSUME NEW l \in Nat, NEW v \in Nat, 2^l <= v, v < 2^(l + 1)
  PROVE  /\ v \div 2^l = 1
         /\ \A j \in Nat : j > l => v \div 2^j = 0
<1>1. 2^l \in Nat /\ 2^l >= 1 /\ 2^(l + 1) = 2 * 2^l
  BY TwoPower
<1>2. v \div 2^l = 1
  <2> PICK a \in Nat, r \in Int : a = 2^l /\ r = v - a
    BY <1>1
  <2>1. r \in 0 .. a - 1 /\ v = 1 * a + r /\ v \in Int /\ 1 \in Int /\ a >= 1
    BY <1>1
  <2>2. v \div a = 1
    BY ONLY <2>1, a \in Nat, QuotientIs
  <2> QED BY <2>2
<1>3. ASSUME NEW j \in Nat, j > l PROVE v \div 2^j = 0
  <2>1. 2^(l + 1) <= 2^j
    <3>1. l + 1 \in Nat /\ l + 1 <= j
      BY <1>3
    <3> QED BY ONLY <3>1, j \in Nat, TwoGrows
  <2> PICK a \in Nat : a = 2^j
    BY TwoPower
  <2>2. v < a
    <3>1. 2^(l + 1) \in Nat
      BY <1>1
    <3> QED BY <2>1, <3>1
  <2>3. v \div a = 0
    BY ONLY <2>2, v \in Nat, a \in Nat, ModSmall
  <2> QED BY <2>3
<1> QED BY <1>2, <1>3

LEMMA BitIs ==
  ASSUME NEW n \in Nat, NEW f \in NumbersOf(n), NEW i \in 0 .. LimbBits * n - 1
  PROVE  fixnum_peek(f, i, 1) = (Value(f) \div 2^i) % 2 /\ i \in Nat
<1>1. 1 \in 1 .. 2 * LimbBits + 1 /\ LimbBits * n \in Nat
  BY LimbIs
<1>2. fixnum_peek(f, i, 1) = (Value(f) \div 2^i) % 2^Clipped(f, i, 1)
  BY <1>1, PeekIs
<1>3. Clipped(f, i, 1) = 1
  <2>1. Len(f) = n
    BY ValueRange
  <2> PICK t \in Nat : t = LimbBits * n
    BY <1>1
  <2> QED BY <2>1 DEF Clipped, BitLength
<1>4. 2^1 = 2
  OBVIOUS
<1>5. fixnum_peek(f, i, 1) = (Value(f) \div 2^i) % 2
  BY ONLY <1>2, <1>3, <1>4
<1>6. i \in Nat
  <2> PICK t \in Nat : t = LimbBits * n
    BY <1>1
  <2>1. i \in 0 .. t - 1
    OBVIOUS
  <2> QED BY ONLY <2>1, t \in Nat
<1> QED BY ONLY <1>5, <1>6

(* fixnum_calc_log2 (fixnum.c:183-196) finds the highest one bit. *)
LEMMA LogIs ==
  ASSUME NEW n \in Nat, NEW f \in NumbersOf(n), NEW l \in Nat, 2^l <= Value(f), Value(f) < 2^(l + 1)
  PROVE  l < LimbBits * n /\ fixnum_calc_log2(f) = l
<1> DEFINE t == LimbBits * n
           v == Value(f)
           Is(i) == /\ fixnum_peek(f, i, 1) = 1
                    /\ \A j \in i + 1 .. t - 1 : fixnum_peek(f, j, 1) = 0
<1>1. v \in Nat /\ v < 2^t /\ Len(f) = n /\ t \in Nat
  BY ValueRange, LimbIs DEF Place
<1>2. l < t
  <2> HIDE DEF t, v
  <2>1. 2^l < 2^t
    BY <1>1, TwoPower DEF v
  <2> QED BY ONLY <1>1, <2>1, l \in Nat, TwoGrows
<1>3. v \div 2^l = 1 /\ \A j \in Nat : j > l => v \div 2^j = 0
  <2> HIDE DEF v
  <2> QED BY <1>1, TopBit DEF v
<1>4. \A i \in 0 .. t - 1 : fixnum_peek(f, i, 1) = (v \div 2^i) % 2 /\ i \in Nat
  BY BitIs
<1> HIDE DEF t, v
<1>5. l \in 0 .. t - 1
  BY <1>1, <1>2
<1>6. fixnum_peek(f, l, 1) = 1
  BY <1>3, <1>4, <1>5
<1>7. ASSUME NEW j \in 0 .. t - 1, j > l PROVE fixnum_peek(f, j, 1) = 0
  BY <1>3, <1>4, <1>7
<1>8. Is(l)
  <2>1. \A j \in l + 1 .. t - 1 : j \in 0 .. t - 1 /\ j > l
    BY <1>1
  <2> QED BY <1>6, <1>7, <2>1
<1>9. ASSUME NEW i \in 0 .. t - 1, Is(i) PROVE i = l
  <2>1. ~(i > l)
    BY <1>7, <1>9
  <2>2. ~(i < l)
    <3>1. ASSUME i < l PROVE FALSE
      <4>1. l \in i + 1 .. t - 1
        BY <1>1, <1>5, <3>1
      <4> QED BY <1>6, <1>9, <4>1
    <3> QED BY <3>1
  <2> QED BY <1>1, <2>1, <2>2
<1>10. fixnum_calc_log2(f) = CHOOSE i \in 0 .. t - 1 : Is(i)
  BY <1>1 DEF fixnum_calc_log2, BitLength, t
<1> HIDE DEF Is
<1>11. (CHOOSE i \in 0 .. t - 1 : Is(i)) = l
  BY <1>5, <1>8, <1>9
<1> QED BY <1>2, <1>10, <1>11 DEF t

(* A number of which only that bit is one is the power of two. *)
LEMMA OnlyBit ==
  ASSUME NEW l \in Nat, NEW v \in Nat, 2^l <= v, v < 2^(l + 1)
  PROVE  (v = 2^l) <=> \A i \in 0 .. l - 1 : (v \div 2^i) % 2 = 0
<1>1. 2^l \in Nat /\ 2^l >= 1 /\ v \div 2^l = 1
  BY TwoPower, TopBit
<1>2. ASSUME v = 2^l, NEW i \in 0 .. l - 1 PROVE (v \div 2^i) % 2 = 0
  <2>1. i \in Nat /\ (l - i) - 1 \in Nat /\ ((l - i) - 1) + 1 = l - i /\ l - i \in Nat /\ (l - i) + i = l
    OBVIOUS
  <2>2. 2^((l - i) + i) = 2^(l - i) * 2^i
    BY ONLY <2>1, TwoSum
  <2>3. 2^(((l - i) - 1) + 1) = 2 * 2^((l - i) - 1) /\ 2^((l - i) - 1) \in Nat /\ 2^i \in Nat /\ 2^i >= 1
    BY ONLY <2>1, TwoPower
  <2> PICK a \in Nat, d \in Nat : a = 2^i /\ d = 2^((l - i) - 1)
    BY <2>3
  <2>4. v = (2 * d) * a + 0
    BY <1>2, <2>1, <2>2, <2>3
  <2>5. v \div a = 2 * d
    <3>1. v \in Int /\ 2 * d \in Int /\ 0 \in 0 .. a - 1 /\ a >= 1
      BY <2>3
    <3> QED BY ONLY <2>4, <3>1, a \in Nat, QuotientIs
  <2>6. (2 * d) % 2 = 0
    OBVIOUS
  <2> QED BY <2>5, <2>6
<1>3. ASSUME \A i \in 0 .. l - 1 : (v \div 2^i) % 2 = 0 PROVE v = 2^l
  <2> DEFINE Yes == {k \in 0 .. l : v % 2^k = 0}
  <2>1. 0 \in Yes
    <3>1. 2^0 = 1 /\ v % 1 = 0 /\ 0 \in 0 .. l
      BY TwoToZero
    <3> QED BY <3>1
  <2>2. ASSUME NEW k \in 0 .. l - 1, k \in Yes PROVE k + 1 \in Yes
    <3>1. k \in Nat /\ k + 1 \in 0 .. l
      OBVIOUS
    <3>2. 2^k \in Nat /\ 2^k >= 1 /\ 2^(k + 1) = 2 * 2^k
      BY <3>1, TwoPower
    <3> PICK a \in Nat : a = 2^k
      BY <3>2
    <3>3. v % (a * 2) = ((v \div a) % 2) * a + (v % a)
      <4>1. a >= 1 /\ 2 \in Nat /\ 2 >= 1
        BY <3>2
      <4> QED BY ONLY <4>1, a \in Nat, v \in Nat, TwoStage
    <3>4. v % a = 0 /\ (v \div a) % 2 = 0
      BY <1>3, <2>2
    <3>5. 0 * a + 0 = 0 /\ 2 * a = a * 2
      OBVIOUS
    <3>6. v % 2^(k + 1) = 0
      BY ONLY <3>2, <3>3, <3>4, <3>5, a = 2^k
    <3> QED BY <3>1, <3>6
  <2>3. \A k \in 0 .. l : k \in Yes
    <3> HIDE DEF Yes
    <3> QED BY <2>1, <2>2, InductTo
  <2>4. v % 2^l = 0
    BY <2>3
  <2> PICK a \in Nat : a = 2^l
    BY <1>1
  <2>5. v = (v \div a) * a + (v % a)
    <3>1. v \in Int /\ a >= 1
      BY <1>1
    <3> QED BY ONLY <3>1, v \in Nat, a \in Nat, Quotients
  <2>6. v = 1 * a + 0
    BY <1>1, <2>4, <2>5
  <2> QED BY <2>6
<1> QED BY <1>2, <1>3

(* fixnum_popcnt (fixnum.c:198-212) is one for a power of two only. *)
LEMMA PopcntIs ==
  ASSUME NEW n \in Nat, LimbBits * n <= 2^8, NEW f \in NumbersOf(n), NEW l \in Nat,
         2^l <= Value(f), Value(f) < 2^(l + 1)
  PROVE  fixnum_popcnt(f, 0) = 1 <=> Value(f) = 2^l
<1> DEFINE t == LimbBits * n
           v == Value(f)
           S == {i \in 0 .. t - 1 : fixnum_peek(f, i, 1) = 1}
<1>1. v \in Nat /\ Len(f) = n /\ t \in Nat /\ t <= 256 /\ l < t
  <2>1. t \in Nat /\ t <= 256
    <3>1. 2^8 = 256
      OBVIOUS
    <3> QED BY <3>1, LimbIs
  <2> QED BY <2>1, ValueRange, LogIs
<1>2. v \div 2^l = 1 /\ \A j \in Nat : j > l => v \div 2^j = 0
  <2> HIDE DEF v
  <2> QED BY <1>1, TopBit DEF v
<1>3. \A i \in 0 .. t - 1 : fixnum_peek(f, i, 1) = (v \div 2^i) % 2 /\ i \in Nat
  BY BitIs
<1>4. (v = 2^l) <=> \A i \in 0 .. l - 1 : (v \div 2^i) % 2 = 0
  <2> HIDE DEF v
  <2> QED BY <1>1, OnlyBit DEF v
<1>5. fixnum_popcnt(f, 0) = (0 + Cardinality(S)) % 2^16
  BY <1>1 DEF fixnum_popcnt, BitLength
<1> HIDE DEF t, v
<1>6. IsFiniteSet(0 .. t - 1) /\ Cardinality(0 .. t - 1) = t
  <2>1. IsFiniteSet(0 .. t - 1) /\ Cardinality(0 .. t - 1) = IF 0 > t - 1 THEN 0 ELSE (t - 1) - 0 + 1
    <3>1. 0 \in Int /\ t - 1 \in Int
      BY <1>1
    <3> QED BY ONLY <3>1, FS_Interval
  <2> QED BY <1>1, <2>1
<1>7. IsFiniteSet(S) /\ Cardinality(S) \in Nat /\ Cardinality(S) <= 256
  <2>1. S \subseteq 0 .. t - 1
    OBVIOUS
  <2> HIDE DEF S
  <2>2. IsFiniteSet(S) /\ Cardinality(S) <= t
    BY <1>6, <2>1, FS_Subset
  <2> QED BY <1>1, <2>2, FS_CardinalityType
<1>8. fixnum_popcnt(f, 0) = Cardinality(S)
  <2> HIDE DEF S
  <2> PICK x \in Nat : x = Cardinality(S)
    BY <1>7
  <2>1. (0 + x) % 2^16 = x
    <3>1. 2^16 = 65536 /\ x <= 256
      BY <1>7
    <3>2. x % 65536 = x
      BY <3>1
    <3> QED BY <3>1, <3>2
  <2> QED BY <1>5, <2>1
<1>9. l \in S
  <2>1. l \in 0 .. t - 1
    BY <1>1
  <2>2. fixnum_peek(f, l, 1) = 1 % 2
    BY <1>2, <1>3, <2>1
  <2>3. 1 % 2 = 1
    OBVIOUS
  <2> QED BY <2>1, <2>2, <2>3
<1>10. \A i \in S : i \in Nat /\ i <= l
  <2>1. ASSUME NEW i \in 0 .. t - 1, i > l PROVE ~(i \in S)
    <3>1. fixnum_peek(f, i, 1) = 0
      BY <1>2, <1>3, <2>1
    <3> QED BY <3>1
  <2> QED BY <1>1, <2>1
<1>11. Cardinality(S) = 1 <=> S = {l}
  <2> HIDE DEF S
  <2>1. Cardinality(S) = 1 <=> \E x : S = {x}
    BY ONLY <1>7, FS_Singleton
  <2> QED BY <1>9, <2>1
<1>12. S = {l} <=> \A i \in 0 .. l - 1 : (v \div 2^i) % 2 = 0
  <2>1. ASSUME NEW i \in 0 .. l - 1 PROVE i \in S <=> ~((v \div 2^i) % 2 = 0)
    <3>1. i \in 0 .. t - 1 /\ i \in Nat
      BY <1>1
    <3>2. (v \div 2^i) % 2 \in {0, 1}
      <4> PICK a \in Nat : a = 2^i
        BY <3>1, TwoPower
      <4>1. a >= 1
        BY <3>1, TwoPower
      <4>2. v \div a \in Nat
        <5>1. v \in Int
          BY <1>1
        <5> QED BY ONLY <1>1, <4>1, <5>1, a \in Nat, Quotients
      <4>3. \A x \in Nat : x % 2 \in {0, 1}
        OBVIOUS
      <4> QED BY <4>2, <4>3
    <3> QED BY <1>3, <3>1, <3>2
  <2>2. S = {l} => \A i \in 0 .. l - 1 : ~(i \in S)
    OBVIOUS
  <2>3. (\A i \in 0 .. l - 1 : ~(i \in S)) => S = {l}
    <3>1. ASSUME \A i \in 0 .. l - 1 : ~(i \in S) PROVE \A x \in S : x = l
      <4>1. ASSUME NEW x \in S PROVE x = l
        <5>1. x \in Nat /\ x <= l
          BY <1>10
        <5>2. x < l => x \in 0 .. l - 1
          BY <5>1
        <5> QED BY <3>1, <5>1, <5>2
      <4> QED BY <4>1
    <3> HIDE DEF S
    <3> QED BY <1>9, <3>1
  <2> HIDE DEF S
  <2> QED BY <2>1, <2>2, <2>3
<1> QED BY <1>4, <1>8, <1>11, <1>12 DEF v
-----------------------------------------------------------------------------
(* What a divisor has in it for D, to divide numbers of n limbs. *)
IsDivisor(d, D, n) ==
  /\ D \in Nat /\ D >= 2
  /\ d.log2 \in Nat /\ d.log2 >= 1 /\ d.log2 < LimbBits * n
  /\ 2^d.log2 <= D /\ D < 2^(d.log2 + 1)
  /\ d.pure \in BOOLEAN /\ (d.pure <=> D = 2^d.log2)
  /\ d.max_left_shift \in NumbersOf(n)
  /\ Value(d.max_left_shift) = D * 2^((LimbBits * n - d.log2) - 1)

(* As far to the left as D can be, it fits. *)
LEMMA LeftmostFits ==
  ASSUME NEW t \in Nat, NEW l \in Nat, l < t, NEW D \in Nat, D < 2^(l + 1)
  PROVE  /\ (t - l) - 1 \in Nat
         /\ \A k \in 0 .. (t - l) - 1 : 2^k \in Nat /\ D * 2^k \in Nat /\ D * 2^k < 2^t
<1>1. (t - l) - 1 \in Nat
  OBVIOUS
<1>2. ASSUME NEW k \in 0 .. (t - l) - 1 PROVE 2^k \in Nat /\ D * 2^k \in Nat /\ D * 2^k < 2^t
  <2>1. k \in Nat /\ (l + 1) + k \in Nat /\ (l + 1) + k <= t /\ l + 1 \in Nat
    BY <1>1
  <2>2. 2^((l + 1) + k) = 2^(l + 1) * 2^k
    BY ONLY <2>1, TwoSum
  <2>3. 2^((l + 1) + k) <= 2^t
    BY ONLY <2>1, t \in Nat, TwoGrows
  <2>4. 2^k \in Nat /\ 2^k >= 1 /\ 2^(l + 1) \in Nat /\ 2^t \in Nat
    BY <2>1, TwoPower
  <2>5. \A x, y, z \in Nat : x >= 1 /\ y < z => y * x < z * x /\ y * x \in Nat /\ z * x \in Nat
    OBVIOUS
  <2>6. D * 2^k < 2^(l + 1) * 2^k /\ D * 2^k \in Nat /\ 2^(l + 1) * 2^k \in Nat
    BY ONLY <2>4, <2>5, D \in Nat, D < 2^(l + 1)
  <2> PICK a \in Nat, c \in Nat, e \in Nat : a = D * 2^k /\ c = 2^(l + 1) * 2^k /\ e = 2^t
    BY <2>4, <2>6
  <2>7. a < c /\ c <= e
    BY <2>2, <2>3, <2>6
  <2>8. a < e
    BY <2>7
  <2> QED BY <2>4, <2>6, <2>8
<1> QED BY <1>1, <1>2

LEMMA DivisorOfMultiplierIs ==
  ASSUME NEW n \in Nat, n >= 2, NEW w \in 2 .. Place(2) - 1
  PROVE  LET d == DivisorOfMultiplier(Multiplier(w), n)
         IN  IsDivisor(d, w, n) /\ d.log2 <= 2 * LimbBits - 1 /\ d.log2 = Multiplier(w).log2
                /\ d.pure = Multiplier(w).pure
<1> DEFINE m == Multiplier(w)
           l == m.log2
           t == LimbBits * n
           s == (2 * LimbBits - l) - 1
           f == [k \in 1 .. n |-> CASE k = 1  -> HighPart(m.value)
                                    [] k = 2  -> LowLimb(m.value)
                                    [] OTHER  -> 0]
           d == DivisorOfMultiplier(m, n)
           hi == HighPart(w)
           lo == LowLimb(w)
           f1 == [k \in 1 .. n |-> IF k = 1 THEN hi ELSE 0]
           f2 == [k \in 1 .. n |-> IF k = 2 THEN lo ELSE 0]
<1>1. /\ m.value = w /\ m.pure \in BOOLEAN /\ (m.pure <=> w = 2^l)
      /\ l \in 1 .. 2 * LimbBits - 1 /\ 2^l <= w /\ w < 2^(l + 1)
  BY MultiplierIs
<1>2. d = [log2 |-> l, pure |-> m.pure, max_left_shift |-> fixnum_shl(f, (2 * LimbBits - l) - 1).limbs]
  <2>1. (2 * LimbBits - l) - 1 = 2 * LimbBits - l - 1
    OBVIOUS
  <2> QED BY <2>1 DEF DivisorOfMultiplier
<1> HIDE DEF m, d
<1>3. w \in Nat /\ w >= 2 /\ w < Place(2) /\ Place(2) = B * B /\ B \in Nat /\ B >= 2 /\ B >= 1
  <2>1. Place(2) \in Nat /\ Place(2) = B * B
    BY Places, FirstPlace
  <2> QED BY <2>1, LimbIs
<1>4. lo \in Limbs /\ hi \in Nat /\ lo + B * hi = w /\ hi < B /\ lo \in Nat /\ lo < B
  <2>1. w \in Int
    BY <1>3
  <2>2. lo \in Limbs /\ hi \in Nat /\ lo + B * hi = w
    BY <1>3, <2>1, Split2
  <2>3. hi < B
    <3>1. w \div B < B
      BY ONLY <1>3, DivLess
    <3> QED BY <3>1 DEF HighPart, B
  <2> QED BY <2>2, <2>3, LimbIs
<1> HIDE DEF hi, lo
<1>5. f = [k \in 1 .. n |-> f1[k] + f2[k]]
  <2>1. ASSUME NEW k \in 1 .. n PROVE f[k] = f1[k] + f2[k]
    <3>1. CASE k = 1
      <4>1. f[k] = hi /\ f1[k] = hi /\ f2[k] = 0
        BY <1>1, <3>1 DEF hi
      <4> HIDE DEF f, f1, f2
      <4> QED BY <1>4, <4>1
    <3>2. CASE k = 2
      <4>1. f[k] = lo /\ f1[k] = 0 /\ f2[k] = lo
        BY <1>1, <3>2 DEF lo
      <4> HIDE DEF f, f1, f2
      <4> QED BY <1>4, <4>1
    <3>3. CASE k # 1 /\ k # 2
      <4>1. f[k] = 0 /\ f1[k] = 0 /\ f2[k] = 0
        BY <3>3
      <4> HIDE DEF f, f1, f2
      <4> QED BY <4>1
    <3> QED BY <3>1, <3>2, <3>3
  <2>2. f = [k \in 1 .. n |-> f[k]]
    OBVIOUS
  <2> HIDE DEF f, f1, f2
  <2> QED BY ONLY <2>1, <2>2
<1>6. f \in NumbersOf(n)
  <2>1. \A k \in 1 .. n : f[k] \in 0 .. B - 1
    <3>1. ASSUME NEW k \in 1 .. n PROVE f[k] = hi \/ f[k] = lo \/ f[k] = 0
      BY <1>1 DEF hi, lo
    <3> HIDE DEF f
    <3> QED BY <1>3, <1>4, <3>1
  <2> HIDE DEF hi, lo
  <2> QED BY <2>1, LimbIs DEF NumbersOf
<1>7. f1 \in [1 .. n -> Int] /\ f2 \in [1 .. n -> Int]
  BY <1>4
<1> HIDE DEF f
<1>8. Value(f) = w * Place(n - 2) /\ n - 2 \in Nat /\ Place(n - 2) \in Nat
  <2>1. n - 2 \in Nat /\ n - 1 = (n - 2) + 1 /\ n - 1 \in Nat /\ 1 \in 1 .. n /\ 2 \in 1 .. n
    OBVIOUS
  <2>2. NumberOf(f1, B) = hi * Power(B, n - 1)
    <3>1. hi \in Int
      BY <1>4
    <3> QED BY ONLY n \in Nat, <1>3, <2>1, <3>1, OneDigit
  <2>3. NumberOf(f2, B) = lo * Power(B, n - 2)
    <3>1. lo \in Int
      BY <1>4
    <3> QED BY ONLY n \in Nat, <1>3, <2>1, <3>1, OneDigit
  <2>4. Power(B, n - 1) = Place(n - 2) * B /\ Power(B, n - 2) = Place(n - 2) /\ Place(n - 2) \in Nat
    <3>1. Power(B, (n - 2) + 1) = Place((n - 2) + 1) /\ Power(B, n - 2) = Place(n - 2)
      BY <2>1, PlaceIs
    <3>2. Place((n - 2) + 1) = Place(n - 2) * B /\ Place(n - 2) \in Nat
      BY ONLY <2>1, Places
    <3> QED BY <2>1, <3>1, <3>2
  <2> HIDE DEF f1, f2
  <2>5. NumberOf([k \in 1 .. n |-> f1[k] + f2[k]], B) = NumberOf(f1, B) + NumberOf(f2, B)
    <3>1. B \in Int
      BY <1>3
    <3> QED BY ONLY n \in Nat, <1>7, <3>1, NumberAdd
  <2>6. Value(f) = hi * (Place(n - 2) * B) + lo * Place(n - 2)
    BY <1>5, <2>2, <2>3, <2>4, <2>5 DEF Value, B
  <2>7. \A h, x, p, b \in Nat : h * (p * b) + x * p = (x + b * h) * p
    OBVIOUS
  <2>8. hi * (Place(n - 2) * B) + lo * Place(n - 2) = (lo + B * hi) * Place(n - 2)
    BY ONLY <1>3, <1>4, <2>4, <2>7
  <2> QED BY <1>4, <2>1, <2>4, <2>6, <2>8
<1>9. l \in Nat /\ l >= 1 /\ l < t /\ t \in Nat /\ s \in 0 .. 2 * LimbBits /\ s \in Nat /\ l <= 2 * LimbBits - 1
      /\ LimbBits * (n - 2) \in Nat /\ LimbBits * (n - 2) + s = (t - l) - 1
  <2>1. t \in Nat /\ t >= LimbBits * 2 /\ LimbBits * (n - 2) = t - LimbBits * 2 /\ LimbBits \in Nat
    BY LimbIs
  <2>2. l \in Nat /\ l >= 1 /\ l <= 2 * LimbBits - 1
    BY <1>1, <2>1
  <2> HIDE DEF t, l
  <2>3. s \in 0 .. 2 * LimbBits /\ s \in Nat
    BY <2>1, <2>2
  <2> PICK u \in Int : u = LimbBits * (n - 2)
    BY <2>1
  <2>4. u \in Nat /\ u + s = (t - l) - 1 /\ l < t
    BY <2>1, <2>2
  <2> QED BY <2>1, <2>2, <2>3, <2>4
<1>10. LET r == fixnum_shl(f, s) IN r.limbs \in NumbersOf(n) /\ Value(r.limbs) = (Value(f) * 2^s) % Place(n)
  <2>1. n >= 1
    OBVIOUS
  <2> HIDE DEF s
  <2> QED BY <1>6, <1>9, <2>1, ShlIs
<1>11. Value(f) * 2^s = w * 2^((t - l) - 1)
  <2>1. 2^(LimbBits * (n - 2) + s) = Place(n - 2) * 2^s
    <3> HIDE DEF s
    <3> QED BY <1>9, TwoSum DEF Place
  <2>2. (w * Place(n - 2)) * 2^s = w * (Place(n - 2) * 2^s)
    <3>1. 2^s \in Nat
      BY <1>9, TwoPower
    <3>2. \A x, y, z \in Nat : (x * y) * z = x * (y * z)
      OBVIOUS
    <3> QED BY ONLY <1>3, <1>8, <3>1, <3>2
  <2> HIDE DEF s, t, l
  <2> QED BY ONLY <1>8, <1>9, <2>1, <2>2
<1>12. (w * 2^((t - l) - 1)) % Place(n) = w * 2^((t - l) - 1)
  <2>1. w * 2^((t - l) - 1) \in Nat /\ w * 2^((t - l) - 1) < 2^t
    <3>1. (t - l) - 1 \in Nat /\ \A k \in 0 .. (t - l) - 1 : 2^k \in Nat /\ w * 2^k \in Nat /\ w * 2^k < 2^t
      <4>1. w < 2^(l + 1)
        BY <1>1
      <4> HIDE DEF t, l
      <4> QED BY ONLY <1>3, <1>9, <4>1, LeftmostFits
    <3>2. (t - l) - 1 \in 0 .. (t - l) - 1
      BY <3>1
    <3> QED BY <3>1, <3>2
  <2> PICK x \in Nat : x = w * 2^((t - l) - 1)
    BY <2>1
  <2>2. x < Place(n) /\ Place(n) \in Nat
    BY <2>1, Places DEF Place
  <2>3. x % Place(n) = x
    BY ONLY <2>2, x \in Nat, ModSmall
  <2> QED BY <2>3
<1>13. d.log2 = l /\ d.pure = m.pure /\ d.max_left_shift = fixnum_shl(f, s).limbs
  BY <1>2
<1>14. d.max_left_shift \in NumbersOf(n) /\ Value(d.max_left_shift) = w * 2^((t - l) - 1)
  BY ONLY <1>10, <1>11, <1>12, <1>13
<1>15. IsDivisor(d, w, n)
  BY ONLY <1>1, <1>3, <1>9, <1>13, <1>14 DEF IsDivisor
<1> QED BY ONLY <1>9, <1>13, <1>15 DEF d, m

LEMMA DivisorOfFixnumIs ==
  ASSUME NEW n \in Nat, n >= 2, LimbBits * n <= 2^8, NEW f \in NumbersOf(n), Value(f) > 1
  PROVE  IsDivisor(DivisorOfFixnum(f, fixnum_popcnt(f, 0)), Value(f), n)
<1> DEFINE t == LimbBits * n
           D == Value(f)
           d == DivisorOfFixnum(f, fixnum_popcnt(f, 0))
<1>1. D \in Nat /\ D >= 2 /\ D < 2^t /\ t \in Nat /\ Len(f) = n /\ D >= 1
  <2>1. D \in Nat /\ D < 2^t /\ t \in Nat /\ Len(f) = n
    BY ValueRange, LimbIs DEF Place
  <2> QED BY <2>1
<1> HIDE DEF t, D
<1>2. PICK l \in 0 .. t - 1 : 2^l <= D /\ D < 2^(l + 1)
  BY ONLY <1>1, LogExists
<1>3. l \in Nat /\ l < t /\ l >= 1
  <2>1. ASSUME l = 0 PROVE FALSE
    <3>1. l + 1 = 1 /\ 2^1 = 2
      BY <2>1
    <3>2. D < 2
      BY <1>2, <3>1
    <3> QED BY <1>1, <3>2
  <2> QED BY <1>1, <2>1
<1>4. fixnum_calc_log2(f) = l
  BY <1>2, <1>3, LogIs DEF D
<1>5. fixnum_popcnt(f, 0) = 1 <=> D = 2^l
  BY <1>2, <1>3, PopcntIs DEF D
<1> DEFINE c == (t - l) - 1
           Loop(h) == h = [k \in 0 .. BitLength(f) - 1 - fixnum_calc_log2(f) |->
                             IF k = 0 THEN f ELSE fixnum_shl(h[k - 1], 1).limbs]
           shifted == CHOOSE h : Loop(h)
<1>6. BitLength(f) - 1 - fixnum_calc_log2(f) = c /\ c \in Nat
  <2>1. BitLength(f) = t
    BY <1>1 DEF BitLength, t
  <2> QED BY <1>1, <1>3, <1>4, <2>1
<1>7. d = [log2 |-> l, pure |-> fixnum_popcnt(f, 0) = 1, max_left_shift |-> shifted[c]]
  BY <1>4, <1>6 DEF DivisorOfFixnum
<1> HIDE DEF d
<1>8. \A k \in 0 .. c : 2^k \in Nat /\ D * 2^k \in Nat /\ D * 2^k < 2^t
  BY ONLY <1>1, <1>2, <1>3, LeftmostFits
<1> DEFINE V == NumbersOf(n)
           step == [p \in (0 .. c - 1) \X V |-> fixnum_shl(p[2], 1).limbs]
<1>9. ASSUME NEW g \in V
      PROVE  fixnum_shl(g, 1).limbs \in V /\ Value(fixnum_shl(g, 1).limbs) = (Value(g) * 2) % Place(n)
  <2>1. 1 \in 0 .. 2 * LimbBits /\ n >= 1 /\ 2^1 = 2
    BY LimbIs
  <2> QED BY <2>1, ShlIs
<1>10. step \in [(0 .. c - 1) \X V -> V]
  <2>1. ASSUME NEW p \in (0 .. c - 1) \X V PROVE fixnum_shl(p[2], 1).limbs \in V
    <3>1. p[2] \in V
      OBVIOUS
    <3> QED BY <1>9, <3>1
  <2> HIDE DEF V, c
  <2> QED BY <2>1
<1>11. PICK h : LoopsTo(h, c, V, f, step)
  <2>1. f \in V
    OBVIOUS
  <2> HIDE DEF step, V, c
  <2> QED BY <1>6, <1>10, <2>1, Loops
<1>12. h \in [0 .. c -> V] /\ h[0] = f
  <2> HIDE DEF step, V, c
  <2> QED BY <1>11 DEF LoopsTo
<1> HIDE DEF c
<1>13. ASSUME NEW k \in 0 .. c - 1 PROVE h[k + 1] = fixnum_shl(h[k], 1).limbs /\ h[k] \in V
  <2>1. k \in 0 .. c
    BY <1>6
  <2>2. h[k + 1] = step[<<k, h[k]>>]
    <3> HIDE DEF step, V
    <3> QED BY <1>11 DEF LoopsTo
  <2>3. h[k] \in V
    BY <1>12, <2>1
  <2> HIDE DEF V
  <2> QED BY <2>2, <2>3
<1>14. Loop(h)
  <2>1. ASSUME NEW k \in 0 .. c, k # 0 PROVE h[k] = fixnum_shl(h[k - 1], 1).limbs
    <3>1. k - 1 \in 0 .. c - 1 /\ (k - 1) + 1 = k
      BY <1>6, <2>1
    <3> QED BY <1>13, <3>1
  <2> HIDE DEF V
  <2> QED BY <1>6, <1>12, <2>1
<1>15. Loop(shifted)
  <2> HIDE DEF Loop
  <2> QED BY <1>14
<1>16. shifted[0] = f /\ \A k \in 0 .. c - 1 : shifted[k + 1] = fixnum_shl(shifted[k], 1).limbs
  <2> HIDE DEF shifted
  <2>1. \A k \in 0 .. c - 1 : k + 1 \in 0 .. c /\ k + 1 # 0 /\ (k + 1) - 1 = k
    BY <1>6
  <2>2. 0 \in 0 .. c
    BY <1>6
  <2> QED BY <1>6, <1>15, <2>1, <2>2
<1> HIDE DEF shifted, V, Loop
<1> DEFINE Yes == {k \in 0 .. c : shifted[k] \in V /\ Value(shifted[k]) = D * 2^k}
<1>17. 0 \in Yes
  <2>1. 0 \in 0 .. c /\ D * 1 = D /\ 2^0 = 1
    BY <1>1, <1>6, TwoToZero
  <2>2. f \in V /\ Value(f) = D
    BY DEF V, D
  <2> QED BY <1>16, <2>1, <2>2
<1>18. ASSUME NEW k \in 0 .. c - 1, k \in Yes PROVE k + 1 \in Yes
  <2>1. k \in Nat /\ k + 1 \in 0 .. c
    BY <1>6
  <2>2. shifted[k + 1] \in V /\ Value(shifted[k + 1]) = ((D * 2^k) * 2) % Place(n)
    BY <1>9, <1>16, <1>18
  <2>3. (D * 2^k) * 2 = D * 2^(k + 1)
    <3>1. 2^(k + 1) = 2 * 2^k /\ 2^k \in Nat
      BY <2>1, TwoPower
    <3>2. \A x, y \in Nat : (x * y) * 2 = x * (2 * y)
      OBVIOUS
    <3>3. (D * 2^k) * 2 = D * (2 * 2^k)
      BY ONLY <1>1, <3>1, <3>2
    <3> QED BY <3>1, <3>3
  <2>4. D * 2^(k + 1) \in Nat /\ D * 2^(k + 1) < Place(n) /\ Place(n) \in Nat
    BY <1>8, <2>1, Places DEF Place, t
  <2>5. (D * 2^(k + 1)) % Place(n) = D * 2^(k + 1)
    BY ONLY <2>4, ModSmall
  <2>6. Value(shifted[k + 1]) = D * 2^(k + 1)
    BY ONLY <2>2, <2>3, <2>5
  <2> QED BY <2>1, <2>2, <2>6
<1>19. \A k \in 0 .. c : k \in Yes
  <2> HIDE DEF Yes
  <2> QED BY <1>6, <1>17, <1>18, InductTo
<1>20. shifted[c] \in NumbersOf(n) /\ Value(shifted[c]) = D * 2^((t - l) - 1)
  <2>1. c \in 0 .. c
    BY <1>6
  <2> QED BY <1>19, <2>1 DEF V, c
<1>21. d.log2 = l /\ d.max_left_shift = shifted[c]
  BY <1>7
<1>22. d.pure = (fixnum_popcnt(f, 0) = 1)
  BY <1>7
<1>23. d.pure \in BOOLEAN /\ (d.pure <=> D = 2^l)
  BY <1>5, <1>22
<1>24. l < LimbBits * n /\ Value(shifted[c]) = D * 2^((LimbBits * n - l) - 1)
  BY <1>3, <1>20 DEF t
<1>25. IsDivisor(d, D, n)
  BY ONLY <1>1, <1>2, <1>3, <1>20, <1>21, <1>23, <1>24 DEF IsDivisor
<1> QED BY <1>25 DEF d, D
-----------------------------------------------------------------------------
LEMMA LastTwo ==
  ASSUME NEW n \in Nat, n >= 2, NEW f \in NumbersOf(n)
  PROVE  f[n - 1] * 2^LimbBits + f[n] = Value(f) % Place(2)
<1>1. 0 \in 0 .. n - 1 /\ n - 0 = n /\ n - 1 \in 1 .. n /\ n \in 1 .. n
  OBVIOUS
<1>2. PICK A \in Nat : Value(f) \div Place(0) = From(A, LimbAt(f, n - 2), LimbAt(f, n - 1), f[n])
  <2>1. \E A \in Nat : Value(f) \div Place(0) = From(A, LimbAt(f, (n - 0) - 2), LimbAt(f, (n - 0) - 1), f[n - 0])
    BY ONLY <1>1, n \in Nat, f \in NumbersOf(n), LimbsAbove
  <2> QED BY ONLY <1>1, <2>1
<1> DEFINE x0 == f[n]
           x1 == f[n - 1]
           x2 == LimbAt(f, n - 2)
           h == A * B + x2
<1>3. x0 \in 0 .. B - 1 /\ x1 \in 0 .. B - 1 /\ x2 \in 0 .. B - 1 /\ LimbAt(f, n - 1) = x1
  <2>1. LimbAt(f, n - 1) = x1
    BY <1>1, LimbsAreNumbers DEF LimbAt
  <2>2. n - 2 \in Int
    OBVIOUS
  <2> QED BY <1>1, <2>1, <2>2, LimbsAreNumbers, LimbAtIs
<1> HIDE DEF x0, x1, x2
<1>4. h \in Nat /\ x0 \in Nat /\ x1 \in Nat
  BY <1>3, FromIs
<1>5. Value(f) = (h * B + x1) * B + x0
  <2>1. Value(f) \div 1 = Value(f)
    BY ValueRange
  <2> QED BY <1>2, <1>3, <2>1, FirstPlace DEF From, x0, x2
<1> HIDE DEF h
<1>6. B \in Nat /\ B >= 1 /\ B * B \in Nat /\ B * B >= 1
  <2>1. B \in Nat /\ B >= 1
    BY LimbIs
  <2>2. \A p, q \in Nat : p >= 1 /\ q >= 1 => p * q \in Nat /\ p * q >= 1
    OBVIOUS
  <2> QED BY ONLY <2>1, <2>2
<1>7. x1 * B + x0 \in Nat /\ x1 * B + x0 < B * B
  BY ONLY <1>3, <1>6, Below
<1>8. (h * B + x1) * B + x0 = h * (B * B) + (x1 * B + x0)
  <2>1. \A p, q, r, c \in Nat : (p * c + q) * c + r = p * (c * c) + (q * c + r)
    OBVIOUS
  <2> QED BY ONLY <1>4, <1>6, <2>1
<1>9. (h * (B * B) + (x1 * B + x0)) % (B * B) = (x1 * B + x0)
  <2> PICK y \in Nat, k \in Nat : y = x1 * B + x0 /\ k = B * B
    BY <1>6, <1>7
  <2>1. (h * k + y) % k = y % k
    <3>1. h \in Int /\ y \in Int /\ k >= 1
      BY <1>4, <1>6
    <3> QED BY ONLY <3>1, k \in Nat, ModPlus
  <2>2. y % k = y
    <3>1. y < k
      BY <1>7
    <3> QED BY ONLY <3>1, y \in Nat, k \in Nat, ModSmall
  <2> QED BY <2>1, <2>2
<1> QED BY <1>5, <1>8, <1>9, FirstPlace DEF x0, x1, B

(* One more bit of the quotient. *)
LEMMA NextBit ==
  ASSUME NEW N \in Nat, NEW e \in Nat, e >= 1
  PROVE  LET Q == N \div (2 * e)
             R == N % (2 * e)
         IN  /\ Q \in Nat /\ R \in Nat /\ R < 2 * e
             /\ R >= e => N \div e = 2 * Q + 1 /\ N % e = R - e
             /\ R < e => N \div e = 2 * Q + 0 /\ N % e = R
<1> DEFINE k == 2 * e
           Q == N \div k
           R == N % k
<1>1. k \in Nat /\ k >= 1 /\ N \in Int
  OBVIOUS
<1>2. Q \in Nat /\ R \in 0 .. k - 1 /\ N = Q * k + R
  <2> HIDE DEF k
  <2> QED BY ONLY <1>1, N \in Nat, Quotients
<1> HIDE DEF Q, R
<1>3. N = (2 * Q) * e + R
  <2>1. Q * k = (2 * Q) * e
    BY <1>2
  <2> QED BY <1>2, <2>1
<1>4. ASSUME R >= e PROVE N \div e = 2 * Q + 1 /\ N % e = R - e
  <2>1. N = (2 * Q + 1) * e + (R - e)
    <3>1. (2 * Q + 1) * e = (2 * Q) * e + e
      BY <1>2
    <3> PICK z \in Nat : z = (2 * Q) * e
      BY <1>2
    <3> QED BY <1>2, <1>3, <3>1
  <2>2. 2 * Q + 1 \in Int /\ R - e \in 0 .. e - 1
    BY <1>2, <1>4
  <2> QED BY ONLY <1>1, <2>1, <2>2, e \in Nat, e >= 1, QuotientIs
<1>5. ASSUME R < e PROVE N \div e = 2 * Q + 0 /\ N % e = R
  <2>1. 2 * Q \in Int /\ R \in 0 .. e - 1 /\ 2 * Q + 0 = 2 * Q
    BY <1>2, <1>5
  <2>2. N \div e = 2 * Q /\ N % e = R
    BY ONLY <1>1, <1>3, <2>1, e \in Nat, e >= 1, QuotientIs
  <2> QED BY ONLY <2>1, <2>2
<1>6. Q \in Nat /\ R \in Nat /\ R < 2 * e
  BY <1>2
<1> QED BY ONLY <1>4, <1>5, <1>6 DEF Q, R

(* A turn of the loop of fixnum_div. *)
DivStep(s, plus1, first) ==
  LET t    == fixnum_sub(s.b, s.a)
      take == Subtracts(t.carry < 0, plus1, first)
  IN  [f |-> fixnum_add_uint16(fixnum_shl(s.f, 1).limbs, IF take THEN 1 ELSE 0).limbs,
       a |-> fixnum_shr(s.a, 1).limbs,
       b |-> IF take THEN t.limbs ELSE fixnum_add(t.limbs, s.a).limbs]

DivStates(n, w) == [f : NumbersOf(n), a : NumbersOf(w), b : NumbersOf(w)]

LEMMA SumMod ==
  ASSUME NEW x \in Int, NEW y \in Int, NEW k \in Nat, k >= 1
  PROVE  ((x % k) + y) % k = (x + y) % k
<1> DEFINE q == x \div k
           m == x % k
<1>1. q \in Int /\ m \in 0 .. k - 1 /\ x = q * k + m
  BY ONLY x \in Int, k \in Nat, k >= 1, Quotients
<1> HIDE DEF q, m
<1>2. x + y = q * k + (m + y) /\ m + y \in Int
  <2> PICK z \in Int : z = q * k
    BY <1>1
  <2> QED BY <1>1
<1>3. (q * k + (m + y)) % k = (m + y) % k
  BY ONLY <1>1, <1>2, k \in Nat, k >= 1, ModPlus
<1> QED BY <1>2, <1>3 DEF m

LEMMA BitAdded ==
  ASSUME NEW n \in Nat, n >= 2, NEW f \in NumbersOf(n), NEW bit \in 0 .. 1
  PROVE  LET r == fixnum_add_uint16(fixnum_shl(f, 1).limbs, bit).limbs
         IN  /\ r \in NumbersOf(n)
             /\ 2 * Value(f) + bit < Place(n) => Value(r) = 2 * Value(f) + bit
<1> DEFINE g == fixnum_shl(f, 1).limbs
           u == Uint16(n, bit)
           V == Value(f)
           P == Place(n)
<1>1. g \in NumbersOf(n) /\ Value(g) = (V * 2) % P
  <2>1. 1 \in 0 .. 2 * LimbBits /\ n >= 1 /\ 2^1 = 2
    BY LimbIs
  <2> QED BY <2>1, ShlIs
<1> HIDE DEF g
<1>2. Len(g) = n /\ V \in Nat /\ P \in Nat /\ P >= 1
  BY <1>1, ValueRange, Places
<1>3. u \in NumbersOf(n) /\ Value(u) = bit
  <2>1. bit \in 0 .. Place(2) - 1
    <3>1. Place(2) = B * B /\ B \in Nat /\ B >= 2 /\ B * B >= 2 * B
      <4>1. B \in Nat /\ B >= 2
        BY LimbIs
      <4>2. \A x \in Nat : x >= 2 => x * x >= 2 * x
        OBVIOUS
      <4> QED BY <4>1, <4>2, FirstPlace
    <3>2. Place(2) \in Nat
      BY Places
    <3> QED BY <3>1, <3>2
  <2> QED BY ONLY <2>1, n \in Nat, n >= 2, Uint16Is
<1> HIDE DEF u, V, P
<1>4. LET r == fixnum_add(g, u) IN r.limbs \in NumbersOf(n) /\ Value(r.limbs) = (Value(g) + Value(u)) % P
  BY ONLY <1>1, <1>3, n \in Nat, AddIs DEF P
<1>5. fixnum_add_uint16(g, bit).limbs = fixnum_add(g, u).limbs
  BY <1>2 DEF fixnum_add_uint16, u
<1>6. ASSUME 2 * V + bit < P PROVE (((V * 2) % P) + bit) % P = 2 * V + bit
  <2>1. V * 2 \in Nat /\ V * 2 < P /\ V * 2 = 2 * V /\ 2 * V + bit \in Nat
    BY <1>2, <1>6
  <2>2. (V * 2) % P = V * 2
    BY ONLY <1>2, <2>1, ModSmall
  <2>3. (2 * V + bit) % P = 2 * V + bit
    BY ONLY <1>2, <1>6, <2>1, ModSmall
  <2> QED BY ONLY <2>1, <2>2, <2>3
<1> QED BY ONLY <1>1, <1>3, <1>4, <1>5, <1>6 DEF g, V, P

LEMMA DivStepType ==
  ASSUME NEW n \in Nat, n >= 2, NEW w \in Nat, w >= 2, NEW s \in DivStates(n, w), NEW plus1 \in 0 .. 1,
         NEW first \in BOOLEAN
  PROVE  DivStep(s, plus1, first) \in DivStates(n, w)
<1> DEFINE t == fixnum_sub(s.b, s.a)
           take == Subtracts(t.carry < 0, plus1, first)
<1>1. s.f \in NumbersOf(n) /\ s.a \in NumbersOf(w) /\ s.b \in NumbersOf(w)
  BY DEF DivStates
<1>2. t.limbs \in NumbersOf(w)
  BY <1>1, SubIs
<1> HIDE DEF t
<1>3. fixnum_add(t.limbs, s.a).limbs \in NumbersOf(w)
  BY <1>1, <1>2, AddIs
<1>4. fixnum_shr(s.a, 1).limbs \in NumbersOf(w)
  <2>1. 1 \in 0 .. 2 * LimbBits /\ w >= 1
    BY LimbIs
  <2> QED BY <1>1, <2>1, ShrIs
<1> DEFINE bit == IF take THEN 1 ELSE 0
<1>5. bit \in 0 .. 1
  OBVIOUS
<1> HIDE DEF bit
<1>6. fixnum_add_uint16(fixnum_shl(s.f, 1).limbs, bit).limbs \in NumbersOf(n)
  BY <1>1, <1>5, BitAdded
<1> HIDE DEF take
<1>7. (IF take THEN t.limbs ELSE fixnum_add(t.limbs, s.a).limbs) \in NumbersOf(w)
  BY <1>2, <1>3
<1> QED BY ONLY <1>4, <1>6, <1>7 DEF DivStep, DivStates, bit, take, t

LEMMA DivStepIs ==
  ASSUME NEW n \in Nat, n >= 2, NEW w \in Nat, w >= n, NEW s \in DivStates(n, w), NEW plus1 \in 0 .. 1,
         NEW first \in BOOLEAN, NEW N \in Nat, N <= Place(n), NEW E \in Nat, E >= 2, E < Place(n),
         Value(s.a) = E, Value(s.f) = N \div (2 * E), Value(s.b) = (N % (2 * E)) % Place(w),
         plus1 = 1 => N = Place(n), plus1 = 0 \/ ~first => N % (2 * E) < Place(w), first => N < 2 * E
  PROVE  LET r == DivStep(s, plus1, first)
         IN  /\ Value(r.f) = N \div E /\ Value(r.b) = N % E /\ (N % E) % Place(w) = N % E
             /\ N % E < Place(w) /\ Value(r.a) = E \div 2
<1> DEFINE t == fixnum_sub(s.b, s.a)
           take == Subtracts(t.carry < 0, plus1, first)
           Q == N \div (2 * E)
           R == N % (2 * E)
           P == Place(w)
           bit == IF take THEN 1 ELSE 0
           r == DivStep(s, plus1, first)
<1>1. s.f \in NumbersOf(n) /\ s.a \in NumbersOf(w) /\ s.b \in NumbersOf(w) /\ w >= 2 /\ w >= 1
  BY DEF DivStates
<1>2. /\ Q \in Nat /\ R \in Nat /\ R < 2 * E
      /\ R >= E => N \div E = 2 * Q + 1 /\ N % E = R - E
      /\ R < E => N \div E = 2 * Q + 0 /\ N % E = R
  BY NextBit
<1>3. t.limbs \in NumbersOf(w) /\ Value(t.limbs) = (Value(s.b) - Value(s.a)) % P /\ (t.carry < 0 <=> Value(s.b) < Value(s.a))
  BY <1>1, SubIs
<1>4. r.f = fixnum_add_uint16(fixnum_shl(s.f, 1).limbs, bit).limbs /\ r.a = fixnum_shr(s.a, 1).limbs
      /\ r.b = (IF take THEN t.limbs ELSE fixnum_add(t.limbs, s.a).limbs)
  BY DEF DivStep
<1> HIDE DEF t, Q, R, r
<1>5. fixnum_add(t.limbs, s.a).limbs \in NumbersOf(w)
      /\ Value(fixnum_add(t.limbs, s.a).limbs) = (Value(t.limbs) + Value(s.a)) % P
  BY <1>1, <1>3, AddIs
<1>6. P \in Nat /\ P >= 1 /\ Place(n) \in Nat /\ Place(n) >= 1 /\ Place(n) <= P
  <2>1. LimbBits * n <= LimbBits * w /\ LimbBits * n \in Nat /\ LimbBits * w \in Nat
    BY LimbIs
  <2>2. 2^(LimbBits * n) <= 2^(LimbBits * w)
    BY ONLY <2>1, TwoGrows
  <2> QED BY <2>2, Places DEF Place
<1> HIDE DEF P
<1>7. E < P /\ Value(s.a) = E /\ Value(s.b) = R % P
  BY <1>6 DEF R, P
<1>8. plus1 = 0 \/ ~first => R < P /\ Value(s.b) = R
  <2>1. ASSUME plus1 = 0 \/ ~first PROVE R < P /\ Value(s.b) = R
    <3>1. R < P
      BY <2>1 DEF R, P
    <3>2. R % P = R
      BY ONLY <1>2, <1>6, <3>1, ModSmall
    <3> QED BY <1>7, <3>1, <3>2
  <2> QED BY <2>1
<1>9. plus1 = 1 /\ first => R >= E
  <2>1. ASSUME plus1 = 1, first PROVE R >= E
    <3>1. N = Place(n) /\ N < 2 * E
      BY <2>1
    <3>2. R = N
      <4>1. 2 * E \in Nat
        OBVIOUS
      <4> PICK k \in Nat : k = 2 * E
        BY <4>1
      <4>2. N % k = N
        <5>1. N < k
          BY <3>1
        <5> QED BY ONLY <5>1, N \in Nat, k \in Nat, ModSmall
      <4> QED BY <4>2 DEF R
    <3> QED BY <1>6, <3>1, <3>2
  <2> QED BY <2>1
<1>10. take <=> R >= E
  <2>1. take <=> ~(t.carry < 0) \/ (first /\ plus1 = 1)
    BY DEF Subtracts
  <2> HIDE DEF take
  <2>2. CASE first /\ plus1 = 1
    BY <1>9, <2>1, <2>2
  <2>3. CASE ~first \/ plus1 = 0
    <3>1. Value(s.b) = R /\ Value(s.a) = E
      BY <1>7, <1>8, <2>3
    <3>2. (t.carry < 0) <=> R < E
      BY ONLY <1>3, <3>1
    <3>3. take <=> ~(t.carry < 0)
      BY <2>1, <2>3
    <3> QED BY ONLY <1>2, <3>2, <3>3, E \in Nat
  <2> QED BY <2>2, <2>3
<1>11. Value(t.limbs) = (R - E) % P
  <2>1. ((R % P) + (-E)) % P = (R + (-E)) % P
    <3>1. R \in Int /\ -E \in Int
      BY <1>2
    <3> QED BY ONLY <1>6, <3>1, SumMod
  <2>2. (R % P) \in Nat
    <3>1. R \in Int
      BY <1>2
    <3> QED BY ONLY <1>6, <3>1, Quotients
  <2>3. (R % P) + (-E) = (R % P) - E /\ R + (-E) = R - E
    <3> PICK z \in Nat : z = R % P
      BY <2>2
    <3> QED BY <1>2
  <2> QED BY ONLY <1>3, <1>7, <2>1, <2>3
<1> HIDE DEF take
<1>12. N % E \in Nat /\ N % E < E /\ N % E < P
  <2>1. (N % E) \in 0 .. E - 1
    <3>1. N \in Int /\ E >= 1
      OBVIOUS
    <3> QED BY ONLY <3>1, E \in Nat, Quotients
  <2> PICK z \in Nat : z = N % E
    BY <2>1
  <2> QED BY <1>6, <1>7, <2>1
<1>13. (N % E) % P = N % E
  <2> PICK z \in Nat : z = N % E
    BY <1>12
  <2>1. z % P = z
    <3>1. z < P
      BY <1>12
    <3> QED BY ONLY <1>6, <3>1, z \in Nat, ModSmall
  <2> QED BY <2>1
<1>14. Value(r.b) = N % E
  <2>1. CASE take
    <3>1. N % E = R - E
      BY <1>2, <1>10, <2>1
    <3>2. r.b = t.limbs
      BY <1>4, <2>1
    <3> QED BY ONLY <1>11, <1>13, <3>1, <3>2
  <2>2. CASE ~take
    <3>1. N % E = R /\ R < E
      <4>1. R < E
        BY <1>2, <1>10, <2>2
      <4> QED BY <1>2, <4>1
    <3>2. Value(r.b) = (((R - E) % P) + E) % P
      BY <1>4, <1>5, <1>7, <1>11, <2>2
    <3>3. (((R - E) % P) + E) % P = ((R - E) + E) % P
      <4>1. R - E \in Int /\ E \in Int
        BY <1>2
      <4> QED BY ONLY <1>6, <4>1, SumMod
    <3>4. (R - E) + E = R
      BY <1>2
    <3> QED BY ONLY <1>13, <3>1, <3>2, <3>3, <3>4
  <2> QED BY <2>1, <2>2
<1>15. N \div E = 2 * Q + bit /\ bit \in 0 .. 1
  <2>1. CASE take
    BY <1>2, <1>10, <2>1
  <2>2. CASE ~take
    <3>1. R < E
      BY <1>2, <1>10, <2>2
    <3> QED BY <1>2, <2>2, <3>1
  <2> QED BY <2>1, <2>2
<1> HIDE DEF bit
<1>16. N \div E < Place(n)
  <2>1. N < E * Place(n)
    <3>1. E * Place(n) >= 2 * Place(n)
      <4>1. \A x, y \in Nat : x >= 2 => x * y >= 2 * y
        OBVIOUS
      <4> QED BY ONLY <1>6, <4>1, E \in Nat, E >= 2
    <3>2. E * Place(n) \in Nat
      BY <1>6
    <3> PICK z \in Nat : z = E * Place(n)
      BY <3>2
    <3> QED BY <1>6, <3>1
  <2>2. E >= 1
    OBVIOUS
  <2> QED BY ONLY <1>6, <2>1, <2>2, N \in Nat, E \in Nat, DivLess
<1>17. Value(r.f) = N \div E
  <2>1. Value(s.f) = Q
    BY DEF Q
  <2>2. 2 * Value(s.f) + bit < Place(n)
    BY ONLY <1>15, <1>16, <2>1
  <2>3. Value(r.f) = 2 * Value(s.f) + bit
    BY ONLY <1>1, <1>4, <1>15, <2>2, n \in Nat, n >= 2, BitAdded
  <2> QED BY ONLY <1>15, <2>1, <2>3
<1>18. Value(r.a) = E \div 2
  <2>1. 1 \in 0 .. 2 * LimbBits /\ 2^1 = 2
    BY LimbIs
  <2>2. Value(fixnum_shr(s.a, 1).limbs) = Value(s.a) \div 2^1
    BY <1>1, <2>1, ShrIs
  <2> QED BY <1>4, <1>7, <2>1, <2>2
<1> QED BY ONLY <1>12, <1>13, <1>14, <1>17, <1>18 DEF r, P

MayDivide(n, f, x, plus1, D, d) ==
  /\ n \in Nat /\ n >= 2 /\ f \in NumbersOf(n) /\ x \in Nat /\ plus1 \in 0 .. 1
  /\ IsDivisor(d, D, n) /\ (d.pure => d.log2 <= 2 * LimbBits)

DividesExactly(n, f, x, plus1, D, d) ==
  LET r == fixnum_div(f, d, n + x, plus1)
      N == IF plus1 = 1 THEN Place(n) ELSE Value(f)
  IN  /\ r.limbs \in NumbersOf(n)
      /\ Value(r.limbs) = N \div D /\ r.rest = (N % D) % Place(2)

(* fixnum_div (fixnum.c:420-467) is the long division. *)
LEMMA DivIs ==
  ASSUME NEW n, NEW f0, NEW x, NEW plus1, NEW D, NEW d, MayDivide(n, f0, x, plus1, D, d)
  PROVE  DividesExactly(n, f0, x, plus1, D, d)
<1> SUFFICES ASSUME n \in Nat, n >= 2, f0 \in NumbersOf(n), x \in Nat, plus1 \in 0 .. 1,
                    IsDivisor(d, D, n), d.pure => d.log2 <= 2 * LimbBits
             PROVE  LET r == fixnum_div(f0, d, n + x, plus1)
                        N == IF plus1 = 1 THEN Place(n) ELSE Value(f0)
                    IN  /\ r.limbs \in NumbersOf(n)
                        /\ Value(r.limbs) = N \div D /\ r.rest = (N % D) % Place(2)
  BY DEF MayDivide, DividesExactly
<1> DEFINE w == n + x
           t == LimbBits * n
           l == d.log2
           c == t - l
           N == IF plus1 = 1 THEN Place(n) ELSE Value(f0)
           zeros == [k \in DOMAIN f0 |-> 0]
           f == IF plus1 = 1 THEN zeros ELSE f0
           b == [k \in 1 .. w |-> IF k = w - Len(f) /\ plus1 = 1 THEN 1 ELSE Widened(f, w)[k]]
           a == Widened(d.max_left_shift, w)
           r == fixnum_div(f0, d, w, plus1)
<1>1. /\ D \in Nat /\ D >= 2 /\ D >= 1 /\ l \in Nat /\ l >= 1 /\ l < t /\ 2^l <= D /\ D < 2^(l + 1)
      /\ d.pure \in BOOLEAN /\ (d.pure <=> D = 2^l)
      /\ d.max_left_shift \in NumbersOf(n) /\ Value(d.max_left_shift) = D * 2^(c - 1)
  BY DEF IsDivisor
<1>2. w \in Nat /\ w >= 2 /\ w >= n /\ DOMAIN f0 = 1 .. n /\ n >= 1 /\ w >= 1
  BY DEF NumbersOf
<1>3. zeros \in NumbersOf(n) /\ Value(zeros) = 0
  <2>1. zeros = [k \in 1 .. n |-> 0] /\ B \in Int
    BY <1>2, LimbIs
  <2>2. NumberOf([k \in 1 .. n |-> 0], B) = 0
    BY <2>1, Zeros
  <2>3. 0 \in Limbs
    BY LimbIs
  <2> QED BY <2>1, <2>2, <2>3 DEF Value, B, NumbersOf
<1>4. f \in NumbersOf(n) /\ Len(f) = n /\ DOMAIN f = 1 .. n /\ Value(f) \in Nat /\ Value(f) < Place(n)
  <2>1. f \in NumbersOf(n)
    BY <1>3
  <2> HIDE DEF f
  <2> QED BY <2>1, ValueRange DEF NumbersOf
<1>5. N \in Nat /\ N <= Place(n) /\ Place(n) \in Nat /\ Place(n) >= 1
  <2>1. Value(f0) \in Nat /\ Value(f0) < Place(n)
    BY ValueRange
  <2> QED BY <2>1, Places
<1>6. plus1 = 1 => Value(f) = 0
  BY <1>3
<1>7. N = plus1 * Place(n) + Value(f)
  <2>1. CASE plus1 = 1
    <3>1. 1 * Place(n) + 0 = Place(n)
      BY <1>5
    <3> QED BY <1>6, <2>1, <3>1
  <2>2. CASE plus1 = 0
    <3>1. Value(f) = Value(f0) /\ N = Value(f0)
      BY <2>2
    <3>2. 0 * Place(n) + Value(f0) = Value(f0)
      BY <1>4, <1>5, <3>1
    <3> QED BY <2>2, <3>1, <3>2
  <2> QED BY <2>1, <2>2
<1>8. t \in Nat /\ c \in Nat /\ c >= 1 /\ BitLength(f) - d.log2 = c /\ Place(n) = 2^t /\ l \in Nat /\ l <= t
  <2>1. t \in Nat
    BY LimbIs
  <2>2. BitLength(f) = t
    BY ONLY <1>4 DEF BitLength, t
  <2>3. Place(n) = 2^t
    BY ONLY DEF Place, t
  <2>4. l \in Nat /\ l < t
    BY <1>1
  <2> HIDE DEF t, l
  <2>5. c \in Nat /\ c >= 1
    BY ONLY <2>1, <2>4 DEF c
  <2>6. BitLength(f) - d.log2 = c
    BY ONLY <2>2 DEF c, l
  <2>7. l <= t
    BY ONLY <2>1, <2>4
  <2> QED BY ONLY <2>1, <2>3, <2>4, <2>5, <2>6, <2>7
<1>9. Place(2) \in Nat /\ Place(2) >= 1
  BY Places
<1>10. plus1 = 1 => N = Place(n)
  OBVIOUS
<1> HIDE DEF N, c, l, t
<1>11. CASE d.pure
  <2>1. r = fixnum_shr_in(f, l, plus1)
    BY <1>11 DEF fixnum_div, l
  <2>2. l \in 1 .. 2 * LimbBits
    BY <1>1, <1>11, LimbIs DEF l
  <2>3. LET q == fixnum_shr_in(f, l, plus1)
        IN  /\ q.limbs \in NumbersOf(n)
            /\ Value(q.limbs) = (plus1 * Place(n) + Value(f)) \div 2^l
            /\ q.rest = Value(f) % 2^l
    <3> HIDE DEF f
    <3> QED BY ONLY <1>4, <2>2, n \in Nat, n >= 2, plus1 \in 0 .. 1, ShrInIs
  <2>4. D = 2^l
    BY <1>1, <1>11
  <2>5. Value(f) % D = N % D
    <3>1. CASE plus1 = 0
      <4>1. N = Value(f)
        BY <3>1 DEF N
      <4> QED BY <4>1
    <3>2. CASE plus1 = 1
      <4>1. 2^t % 2^l = 0
        BY ONLY <1>8, PowerMod
      <4>2. N = 2^t
        BY ONLY <1>8, <1>10, <3>2
      <4>3. 0 % D = 0
        BY ONLY <1>1, ModSmall
      <4> QED BY ONLY <1>6, <2>4, <3>2, <4>1, <4>2, <4>3
    <3> QED BY <3>1, <3>2
  <2>6. (N % D) % Place(2) = N % D
    <3>1. (N % D) \in 0 .. D - 1
      <4>1. N \in Int
        BY <1>5
      <4> QED BY ONLY <1>1, <4>1, Quotients
    <3>2. 2^l <= 2^(LimbBits * 2)
      <4>1. LimbBits * 2 \in Nat /\ l <= LimbBits * 2
        BY <2>2, LimbIs
      <4> QED BY ONLY <1>1, <4>1, TwoGrows
    <3> PICK z \in Nat : z = N % D
      BY <3>1
    <3>3. z < Place(2)
      BY <1>1, <1>9, <2>4, <3>1, <3>2 DEF Place
    <3>4. z % Place(2) = z
      BY ONLY <1>9, <3>3, z \in Nat, ModSmall
    <3> QED BY <3>4
  <2> QED BY ONLY <1>7, <2>1, <2>3, <2>4, <2>5, <2>6 DEF N, r, w
<1>12. CASE ~d.pure
  <2> DEFINE first == [f |-> zeros, a |-> a, b |-> b]
             V == DivStates(n, w)
             Go(k, s) == DivStep(s, plus1, k = 0)
             step == [p \in (0 .. c - 1) \X V |-> Go(p[1], p[2])]
             Loop(h) == h = [i \in 0 .. BitLength(f) - d.log2 |->
               IF i = 0
                 THEN [f |-> [k \in DOMAIN f |-> 0], a |-> Widened(d.max_left_shift, w), b |-> b]
                 ELSE LET s    == h[i - 1]
                          u    == fixnum_sub(s.b, s.a)
                          take == Subtracts(u.carry < 0, plus1, i = 1)
                      IN  [f |-> fixnum_add_uint16(fixnum_shl(s.f, 1).limbs, IF take THEN 1 ELSE 0).limbs,
                           a |-> fixnum_shr(s.a, 1).limbs,
                           b |-> IF take THEN u.limbs ELSE fixnum_add(u.limbs, s.a).limbs]]
             loop == CHOOSE h : Loop(h)
  <2>1. r = [limbs |-> loop[c].f, rest |-> loop[c].b[w - 1] * 2^LimbBits + loop[c].b[w]]
    BY <1>8, <1>12 DEF fixnum_div
  <2>2. a \in NumbersOf(w) /\ Value(a) = D * 2^(c - 1)
    <3> PICK y \in NumbersOf(n) : y = d.max_left_shift
      BY <1>1
    <3>1. Widened(y, n + x) \in NumbersOf(n + x) /\ Value(Widened(y, n + x)) = Value(y)
      BY ONLY n \in Nat, x \in Nat, y \in NumbersOf(n), WidenedIs
    <3>2. a = Widened(y, n + x)
      BY DEF a, w
    <3>3. Value(y) = D * 2^(c - 1)
      BY ONLY <1>1, y = d.max_left_shift
    <3> QED BY ONLY <3>1, <3>2, <3>3 DEF w
  <2>3. b \in NumbersOf(w) /\ Value(b) = N % Place(w)
    <3>1. Widened(f, w) \in NumbersOf(w) /\ Value(Widened(f, w)) = Value(f)
      <4> PICK y \in NumbersOf(n) : y = f
        BY <1>4
      <4>1. Widened(y, n + x) \in NumbersOf(n + x) /\ Value(Widened(y, n + x)) = Value(y)
        BY ONLY n \in Nat, x \in Nat, y \in NumbersOf(n), WidenedIs
      <4> HIDE DEF f
      <4> QED BY ONLY <4>1, y = f DEF w
    <3>2. \A k \in 1 .. w : Widened(f, w)[k] = IF k <= x THEN 0 ELSE f[k - x]
      <4> PICK y \in NumbersOf(n) : y = f
        BY <1>4
      <4>1. \A k \in 1 .. n + x : Widened(y, n + x)[k] = IF k <= x THEN 0 ELSE y[k - x]
        BY ONLY n \in Nat, x \in Nat, y \in NumbersOf(n), WidenedIs
      <4> HIDE DEF f
      <4> QED BY ONLY <4>1, y = f DEF w
    <3>3. w - Len(f) = x
      BY <1>4
    <3>4. b = [k \in 1 .. w |-> IF k = x /\ plus1 = 1 THEN 1 ELSE Widened(f, w)[k]]
      BY <3>3
    <3> HIDE DEF b, f
    <3>5. Place(n) <= Place(w) /\ Place(w) \in Nat /\ Place(w) >= 1
      <4>1. t <= LimbBits * w /\ LimbBits * w \in Nat
        BY <1>2, LimbIs DEF t
      <4>2. 2^t <= 2^(LimbBits * w)
        BY ONLY <1>8, <4>1, TwoGrows
      <4> QED BY <1>2, <1>8, <4>2, Places DEF Place
    <3>6. CASE plus1 = 0
      <4>1. b = Widened(f, w)
        <5>1. Widened(f, w) = [k \in 1 .. w |-> Widened(f, w)[k]]
          BY <3>1 DEF NumbersOf
        <5> QED BY <3>4, <3>6, <5>1
      <4>2. N = Value(f)
        BY <3>6 DEF N, f
      <4>3. N % Place(w) = N
        <5>1. N < Place(w)
          BY <1>4, <1>5, <3>5, <4>2
        <5> QED BY ONLY <1>5, <3>5, <5>1, ModSmall
      <4> QED BY <3>1, <4>1, <4>2, <4>3
    <3>7. CASE plus1 = 1
      <4>1. \A k \in 1 .. n : f[k] = 0
        BY <1>2, <3>7 DEF f
      <4>2. b = [k \in 1 .. w |-> IF k = x THEN 1 ELSE 0]
        <5>1. ASSUME NEW k \in 1 .. w PROVE Widened(f, w)[k] = 0
          <6>1. k <= x \/ k - x \in 1 .. n
            BY <1>2
          <6> QED BY <3>2, <4>1, <6>1
        <5> QED BY <3>4, <3>7, <5>1
      <4>3. b \in NumbersOf(w)
        <5>1. 0 \in Limbs /\ 1 \in Limbs
          BY LimbIs
        <5> QED BY <4>2, <5>1 DEF NumbersOf
      <4>4. CASE x = 0
        <5>1. b = [k \in 1 .. w |-> 0]
          BY <4>2, <4>4
        <5>2. Value(b) = 0
          <6>1. B \in Int
            BY LimbIs
          <6>2. NumberOf([k \in 1 .. w |-> 0], B) = 0
            BY ONLY <1>2, <6>1, Zeros
          <6> QED BY <5>1, <6>2 DEF Value, B
        <5>3. N = Place(w)
          BY <1>10, <3>7, <4>4
        <5>4. N % N = 0
          <6>1. N >= 1
            BY <1>5, <1>10, <3>7
          <6>2. N = 1 * N + 0 /\ 0 \in 0 .. N - 1 /\ N \in Int /\ 1 \in Int
            BY <1>5, <6>1
          <6> QED BY ONLY <1>5, <6>1, <6>2, QuotientIs
        <5> QED BY <4>3, <5>2, <5>3, <5>4
      <4>5. CASE x >= 1
        <5>1. x \in 1 .. w /\ w - x = n
          BY <4>5
        <5>2. Value(b) = 1 * Power(B, n)
          <6>1. B \in Nat /\ 1 \in Int
            BY LimbIs
          <6>2. NumberOf([k \in 1 .. w |-> IF k = x THEN 1 ELSE 0], B) = 1 * Power(B, w - x)
            BY ONLY <1>2, <5>1, <6>1, OneDigit
          <6> QED BY <4>2, <5>1, <6>2 DEF Value, B
        <5>3. Power(B, n) = Place(n)
          BY PlaceIs
        <5>4. Value(b) = N
          BY <1>5, <1>10, <3>7, <5>2, <5>3
        <5>5. N < Place(w)
          <6>1. Value(b) < Place(w)
            BY <1>2, <4>3, ValueRange
          <6> QED BY <5>4, <6>1
        <5>6. N % Place(w) = N
          BY ONLY <1>5, <3>5, <5>5, ModSmall
        <5> QED BY <4>3, <5>4, <5>6
      <4> QED BY <4>4, <4>5
    <3> QED BY <3>6, <3>7
  <2> HIDE DEF a, b, r, zeros
  <2>4. first \in V
    BY <1>3, <2>2, <2>3 DEF DivStates
  <2>5. step \in [(0 .. c - 1) \X V -> V]
    <3>1. ASSUME NEW k \in 0 .. c - 1, NEW s \in V PROVE Go(k, s) \in V
      <4>1. (k = 0) \in BOOLEAN
        OBVIOUS
      <4> HIDE DEF w
      <4> QED BY <1>2, <4>1, DivStepType
    <3> HIDE DEF V, Go
    <3>2. ASSUME NEW p \in (0 .. c - 1) \X V PROVE Go(p[1], p[2]) \in V
      <4>1. PICK k \in 0 .. c - 1, s \in V : p = <<k, s>>
        OBVIOUS
      <4> QED BY <3>1, <4>1
    <3> QED BY <3>2
  <2>6. PICK h : LoopsTo(h, c, V, first, step)
    <3> HIDE DEF V, first, step
    <3> QED BY <1>8, <2>4, <2>5, Loops
  <2>7. h \in [0 .. c -> V] /\ h[0] = first
    <3> HIDE DEF V, first, step
    <3> QED BY <2>6 DEF LoopsTo
  <2>8. ASSUME NEW k \in 0 .. c - 1 PROVE h[k + 1] = Go(k, h[k]) /\ h[k] \in V
    <3> HIDE DEF V, first, Go
    <3>1. k \in 0 .. c
      BY <1>8
    <3>2. h[k] \in V
      BY <2>7, <3>1
    <3>3. h[k + 1] = step[<<k, h[k]>>]
      <4> HIDE DEF step
      <4> QED BY <2>6 DEF LoopsTo
    <3> QED BY <3>2, <3>3
  <2>9. first = [f |-> [k \in DOMAIN f |-> 0], a |-> Widened(d.max_left_shift, w), b |-> b]
    BY <1>2, <1>4 DEF zeros, a
  <2> HIDE DEF f
  <2>10. Loop(h)
    <3>1. ASSUME NEW i \in 0 .. c, i # 0 PROVE h[i] = DivStep(h[i - 1], plus1, i = 1)
      <4>1. i - 1 \in 0 .. c - 1 /\ (i - 1) + 1 = i /\ (i - 1 = 0 <=> i = 1)
        BY <1>8, <3>1
      <4>2. h[i] = DivStep(h[i - 1], plus1, i - 1 = 0)
        BY <2>8, <4>1
      <4>3. (i - 1 = 0) = (i = 1)
        BY <4>1
      <4> QED BY ONLY <4>2, <4>3
    <3> HIDE DEF V, first, Go, step
    <3>2. h = [i \in 0 .. c |-> IF i = 0 THEN first ELSE DivStep(h[i - 1], plus1, i = 1)]
      <4>1. h = [i \in 0 .. c |-> h[i]]
        BY <2>7
      <4>2. \A i \in 0 .. c : h[i] = IF i = 0 THEN first ELSE DivStep(h[i - 1], plus1, i = 1)
        BY <2>7, <3>1
      <4> QED BY ONLY <4>1, <4>2
    <3> QED BY ONLY <1>8, <2>9, <3>2 DEF DivStep
  <2>11. Loop(loop)
    <3> HIDE DEF Loop
    <3> QED BY <2>10
  <2> HIDE DEF loop
  <2>12. loop[0] = first /\ \A k \in 0 .. c - 1 : loop[k + 1] = Go(k, loop[k])
    <3>1. loop = [i \in 0 .. c |-> IF i = 0 THEN first ELSE DivStep(loop[i - 1], plus1, i = 1)]
      <4> HIDE DEF first, Go, V, step
      <4> QED BY ONLY <1>8, <2>9, <2>11 DEF DivStep
    <3> HIDE DEF first, V, step, Loop
    <3>2. 0 \in 0 .. c
      BY <1>8
    <3>3. loop[0] = first
      BY <3>1, <3>2
    <3>4. ASSUME NEW k \in 0 .. c - 1 PROVE loop[k + 1] = Go(k, loop[k])
      <4>1. k + 1 \in 0 .. c /\ (k + 1) - 1 = k /\ k + 1 # 0 /\ (k + 1 = 1 <=> k = 0)
        BY <1>8
      <4>2. loop[k + 1] = DivStep(loop[(k + 1) - 1], plus1, k + 1 = 1)
        BY <3>1, <4>1
      <4>3. (k + 1 = 1) = (k = 0)
        BY <4>1
      <4> QED BY ONLY <4>1, <4>2, <4>3
    <3> QED BY <3>3, <3>4
  <2> HIDE DEF Loop
  <2> DEFINE M(k) == D * 2^(c - k)
             Inv(k) == /\ loop[k] \in V
                       /\ Value(loop[k].f) = N \div M(k)
                       /\ Value(loop[k].b) = (N % M(k)) % Place(w)
                       /\ k < c => Value(loop[k].a) = D * 2^((c - 1) - k)
                       /\ k # 0 => (N % M(k)) % Place(w) = N % M(k) /\ N % M(k) < Place(w)
  <2>13. M(0) = D * 2^c /\ N < M(0)
    <3>1. 2^(l + c) = 2^l * 2^c /\ l + c = t
      <4>1. l + c = t
        BY <1>1, <1>8 DEF c
      <4> QED BY <1>1, <1>8, <4>1, TwoSum
    <3>2. D > 2^l
      <4>1. 2^l \in Nat
        BY <1>1, TwoPower
      <4> QED BY <1>1, <1>12, <4>1
    <3>3. 2^c \in Nat /\ 2^c >= 1 /\ 2^l \in Nat
      BY <1>1, <1>8, TwoPower
    <3>4. D * 2^c > 2^l * 2^c
      <4>1. \A u, v, z \in Nat : u > v /\ z >= 1 => u * z > v * z
        OBVIOUS
      <4> QED BY ONLY <1>1, <3>2, <3>3, <4>1
    <3>5. D * 2^c \in Nat /\ 2^l * 2^c \in Nat
      BY <1>1, <3>3
    <3> PICK u \in Nat, v \in Nat : u = D * 2^c /\ v = 2^l * 2^c
      BY <3>5
    <3>6. N <= v /\ v < u
      BY <1>5, <1>8, <3>1, <3>4
    <3>7. N < u
      BY <1>5, <3>6
    <3>8. c - 0 = c
      BY <1>8
    <3> QED BY <3>7, <3>8
  <2>14. Inv(0)
    <3>1. N \div M(0) = 0 /\ N % M(0) = N
      <4>1. M(0) \in Nat
        <5>1. 2^c \in Nat
          BY <1>8, TwoPower
        <5> QED BY <1>1, <2>13, <5>1
      <4> HIDE DEF M
      <4> QED BY ONLY <1>5, <2>13, <4>1, ModSmall
    <3>2. loop[0].f = zeros /\ loop[0].a = a /\ loop[0].b = b /\ loop[0] \in V
      <4> HIDE DEF V
      <4> QED BY <2>4, <2>12
    <3>3. (c - 1) - 0 = c - 1
      BY <1>8
    <3> HIDE DEF M, V, first
    <3> QED BY <1>3, <2>2, <2>3, <3>1, <3>2, <3>3
  <2>15. ASSUME NEW k \in 0 .. c - 1, Inv(k) PROVE Inv(k + 1)
    <3> DEFINE E == M(k + 1)
               s == loop[k]
    <3>1. k \in Nat /\ k < c /\ k + 1 \in 0 .. c /\ c - (k + 1) = (c - 1) - k /\ (c - 1) - k \in Nat
          /\ ((c - 1) - k) + 1 = c - k /\ (c - 1) - k \in 0 .. c - 1
      BY <1>8
    <3>2. E = D * 2^((c - 1) - k)
      BY <3>1
    <3>3. E \in Nat /\ E < Place(n) /\ E >= 2 /\ M(k) = 2 * E
      <4>1. c - 1 \in Nat /\ \A j \in 0 .. c - 1 : 2^j \in Nat /\ D * 2^j \in Nat /\ D * 2^j < 2^t
        <5>1. (t - l) - 1 \in Nat /\ \A j \in 0 .. (t - l) - 1 : 2^j \in Nat /\ D * 2^j \in Nat /\ D * 2^j < 2^t
          BY ONLY <1>1, <1>8, LeftmostFits
        <5> QED BY ONLY <5>1 DEF c
      <4>2. E \in Nat /\ E < Place(n)
        BY ONLY <1>8, <3>1, <3>2, <4>1
      <4>3. 2^((c - 1) - k) \in Nat /\ 2^((c - 1) - k) >= 1 /\ 2^(((c - 1) - k) + 1) = 2 * 2^((c - 1) - k)
        BY ONLY <3>1, TwoPower
      <4>4. \A u, v \in Nat : (u >= 2 /\ v >= 1 => u * v >= 2) /\ u * (2 * v) = 2 * (u * v)
        OBVIOUS
      <4>5. E >= 2
        BY ONLY <1>1, <3>2, <4>3, <4>4
      <4>6. M(k) = D * (2 * 2^((c - 1) - k))
        BY ONLY <3>1, <4>3
      <4>7. M(k) = 2 * E
        BY ONLY <1>1, <3>2, <4>3, <4>4, <4>6
      <4> QED BY ONLY <4>2, <4>5, <4>7
    <3> HIDE DEF E
    <3>4. s \in V /\ Value(s.f) = N \div (2 * E) /\ Value(s.b) = (N % (2 * E)) % Place(w) /\ Value(s.a) = E
      <4> HIDE DEF M, V
      <4> QED BY ONLY <2>15, <3>1, <3>2, <3>3
    <3>5. plus1 = 0 \/ ~(k = 0) => N % (2 * E) < Place(w)
      <4>1. CASE k # 0
        <5> HIDE DEF M, V
        <5> QED BY ONLY <2>15, <3>3, <4>1
      <4>2. CASE k = 0 /\ plus1 = 0
        <5>1. N < 2 * E /\ 2 * E \in Nat
          <6> HIDE DEF M
          <6> QED BY <2>13, <3>3, <4>2
        <5>2. N % (2 * E) = N
          <6> PICK z \in Nat : z = 2 * E
            BY <5>1
          <6>1. N < z
            BY <5>1
          <6>2. N % z = N
            BY ONLY <1>5, <6>1, z \in Nat, ModSmall
          <6> QED BY <6>2
        <5>3. N < Place(w)
          <6>1. N < Place(n)
            <7>1. N = Value(f)
              BY <4>2 DEF N, f
            <7> QED BY <1>4, <7>1
          <6>2. Place(n) <= Place(w) /\ Place(w) \in Nat
            <7>1. t <= LimbBits * w /\ LimbBits * w \in Nat
              BY <1>2, LimbIs DEF t
            <7>2. 2^t <= 2^(LimbBits * w)
              BY ONLY <1>8, <7>1, TwoGrows
            <7> QED BY <1>2, <1>8, <7>2, Places DEF Place
          <6> QED BY <1>5, <6>1, <6>2
        <5> QED BY <5>2, <5>3
      <4> QED BY <4>1, <4>2
    <3>6. k = 0 => N < 2 * E
      <4> HIDE DEF M
      <4> QED BY <2>13, <3>3
    <3>7. LET q == DivStep(s, plus1, k = 0)
          IN  /\ Value(q.f) = N \div E /\ Value(q.b) = N % E /\ (N % E) % Place(w) = N % E
              /\ N % E < Place(w) /\ Value(q.a) = E \div 2
      <4> PICK fi \in BOOLEAN : fi = (k = 0)
        OBVIOUS
      <4>1. n \in Nat /\ n >= 2 /\ w \in Nat /\ w >= n /\ plus1 \in 0 .. 1
        BY <1>2
      <4>2. N \in Nat /\ N <= Place(n)
        BY <1>5
      <4>3. E \in Nat /\ E >= 2 /\ E < Place(n)
        BY <3>3
      <4>4. s \in DivStates(n, w)
        BY ONLY <3>4 DEF V
      <4>5. Value(s.a) = E /\ Value(s.f) = N \div (2 * E) /\ Value(s.b) = (N % (2 * E)) % Place(w)
        BY ONLY <3>4
      <4>6. (plus1 = 1 => N = Place(n)) /\ (plus1 = 0 \/ ~fi => N % (2 * E) < Place(w)) /\ (fi => N < 2 * E)
        BY ONLY <1>10, <3>5, <3>6, fi = (k = 0)
      <4> HIDE DEF s, M, w, V
      <4>7. LET q == DivStep(s, plus1, fi)
            IN  /\ Value(q.f) = N \div E /\ Value(q.b) = N % E /\ (N % E) % Place(w) = N % E
                /\ N % E < Place(w) /\ Value(q.a) = E \div 2
        BY ONLY <4>1, <4>2, <4>3, <4>4, <4>5, <4>6, fi \in BOOLEAN, DivStepIs
      <4> QED BY ONLY <4>7, fi = (k = 0)
    <3>8. loop[k + 1] = DivStep(s, plus1, k = 0)
      BY <2>12
    <3>9. loop[k + 1] \in V
      <4> PICK fi \in BOOLEAN : fi = (k = 0)
        OBVIOUS
      <4>1. n \in Nat /\ n >= 2 /\ w \in Nat /\ w >= 2 /\ plus1 \in 0 .. 1
        BY <1>2
      <4>2. s \in DivStates(n, w)
        BY ONLY <3>4 DEF V
      <4> HIDE DEF s, w
      <4>3. DivStep(s, plus1, fi) \in DivStates(n, w)
        BY ONLY <4>1, <4>2, fi \in BOOLEAN, DivStepType
      <4>4. loop[k + 1] = DivStep(s, plus1, fi)
        BY ONLY <3>8, fi = (k = 0)
      <4> QED BY ONLY <4>3, <4>4 DEF V
    <3>10. k + 1 < c => E \div 2 = D * 2^((c - 1) - (k + 1))
      <4>1. ASSUME k + 1 < c PROVE E \div 2 = D * 2^((c - 1) - (k + 1))
        <5>1. (c - 1) - (k + 1) \in Nat /\ ((c - 1) - (k + 1)) + 1 = (c - 1) - k
          BY <1>8, <4>1
        <5>2. 2^(((c - 1) - (k + 1)) + 1) = 2 * 2^((c - 1) - (k + 1)) /\ 2^((c - 1) - (k + 1)) \in Nat
          BY ONLY <5>1, TwoPower
        <5> PICK z \in Nat : z = 2^((c - 1) - (k + 1))
          BY <5>2
        <5>3. E = D * (2 * z)
          BY ONLY <3>2, <5>1, <5>2, z = 2^((c - 1) - (k + 1))
        <5>4. D * z \in Nat /\ D * (2 * z) = (D * z) * 2
          BY ONLY <1>1, z \in Nat
        <5>5. \A y \in Nat : (y * 2) \div 2 = y
          OBVIOUS
        <5> QED BY <5>3, <5>4, <5>5
      <4> QED BY <4>1
    <3>11. E = M(k + 1)
      BY DEF E
    <3> HIDE DEF M, V, s, Go
    <3> QED BY ONLY <3>7, <3>8, <3>9, <3>10, <3>11
  <2>16. Inv(c)
    <3> DEFINE Yes == {k \in 0 .. c : Inv(k)}
    <3>1. 0 \in Yes
      <4>1. 0 \in 0 .. c
        BY <1>8
      <4> HIDE DEF Inv
      <4> QED BY <2>14, <4>1
    <3>2. ASSUME NEW k \in 0 .. c - 1, k \in Yes PROVE k + 1 \in Yes
      <4>1. k + 1 \in 0 .. c
        BY <1>8
      <4> HIDE DEF Inv
      <4> QED BY <2>15, <3>2, <4>1
    <3>3. \A k \in 0 .. c : k \in Yes
      <4> HIDE DEF Yes
      <4> QED BY <1>8, <3>1, <3>2, InductTo
    <3>4. c \in 0 .. c
      BY <1>8
    <3> HIDE DEF Inv
    <3> QED BY <3>3, <3>4
  <2>17. M(c) = D
    <3>1. c - c = 0 /\ D * 1 = D
      BY <1>1, <1>8
    <3> QED BY <3>1, TwoToZero
  <2>18. c # 0
    BY <1>8
  <2>19. loop[c].f \in NumbersOf(n) /\ loop[c].b \in NumbersOf(w) /\ Value(loop[c].f) = N \div D
         /\ Value(loop[c].b) = N % D
    <3>1. loop[c] \in V /\ Value(loop[c].f) = N \div D /\ Value(loop[c].b) = N % D
      <4> HIDE DEF M, V
      <4> QED BY ONLY <2>16, <2>17, <2>18
    <3> QED BY <3>1 DEF DivStates
  <2>20. loop[c].b[w - 1] * 2^LimbBits + loop[c].b[w] = Value(loop[c].b) % Place(2)
    <3> HIDE DEF w
    <3> QED BY ONLY <1>2, <2>19, LastTwo
  <2>21. r.limbs = loop[c].f /\ r.rest = loop[c].b[w - 1] * 2^LimbBits + loop[c].b[w]
    BY ONLY <2>1
  <2>22. r.limbs \in NumbersOf(n) /\ Value(r.limbs) = N \div D /\ r.rest = (N % D) % Place(2)
    BY ONLY <2>19, <2>20, <2>21
  <2> QED BY ONLY <2>22 DEF N, r, w
<1> QED BY <1>1, <1>11, <1>12
-----------------------------------------------------------------------------
(* What the jobs are. *)
LEMMA JobKinds ==
  ASSUME NEW j \in Jobs
  PROVE  /\ j.op = "shift" => j \in ShiftJobs
         /\ j.op = "field" => j \in FieldJobs
         /\ j.op = "divide" => j \in DivideJobs
         /\ j.op = "divide_by" => j \in DivideByJobs
         /\ j.op = "encode" => j \in EncodeJobs
         /\ j.op = "decode" => j \in DecodeJobs
<1>1. \A h \in ShiftJobs : h.op = "shift"
  BY DEF ShiftJobs
<1>2. \A h \in FieldJobs : h.op = "field"
  BY DEF FieldJobs
<1>3. \A h \in DivideJobs : h.op = "divide"
  BY DEF DivideJobs
<1>4. \A h \in DivideByJobs : h.op = "divide_by"
  BY DEF DivideByJobs
<1>5. \A h \in EncodeJobs : h.op = "encode"
  BY DEF EncodeJobs
<1>6. \A h \in DecodeJobs : h.op = "decode"
  BY DEF DecodeJobs
<1> QED BY <1>1, <1>2, <1>3, <1>4, <1>5, <1>6 DEF Jobs

LEMMA SizeIs ==
  ASSUME NEW n \in Sizes
  PROVE  n \in Nat /\ n >= 2
BY NumbersAssumption

LEMMA LengthIs ==
  ASSUME NEW n \in Nat, NEW f \in NumbersOf(n)
  PROVE  Len(f) = n /\ 2^BitLength(f) = Place(n)
<1>1. Len(f) = n
  BY ValueRange
<1> QED BY ONLY <1>1 DEF BitLength, Place

LEMMA ValueIs ==
  ASSUME NEW m \in Values
  PROVE  m \in 2 .. Place(2) - 1
<1>1. 2 * LimbBits = LimbBits * 2
  BY LimbIs
<1>2. Values \subseteq 2 .. 2^(2 * LimbBits) - 1
  BY NumbersAssumption
<1> QED BY ONLY m \in Values, <1>1, <1>2 DEF Place

LEMMA ShiftIs ==
  ASSUME NEW j \in Jobs, j.op = "shift"
  PROVE  LET left    == fixnum_shl(j.f, j.by)
             right   == fixnum_shr(j.f, j.by)
             v       == Value(j.f)
             modulus == 2^BitLength(j.f)
         IN  /\ Value(left.limbs) = (v * 2^j.by) % modulus
             /\ left.carry <=> v * 2^j.by >= modulus
             /\ Value(right.limbs) = v \div 2^j.by
             /\ right.rest = v % 2^j.by
<1>1. j \in ShiftJobs
  BY JobKinds
<1>2. PICK n \in Sizes : j.f \in NumbersOf(n) /\ j.by \in 0 .. 2 * LimbBits
  BY <1>1 DEF ShiftJobs
<1>3. n \in Nat /\ n >= 2 /\ n >= 1
  BY SizeIs
<1> PICK f \in NumbersOf(n), by \in 0 .. 2 * LimbBits : f = j.f /\ by = j.by
  BY <1>2
<1>4. 2^BitLength(f) = Place(n)
  BY <1>3, LengthIs
<1>5. LET left == fixnum_shl(f, by)
      IN  Value(left.limbs) = (Value(f) * 2^by) % Place(n) /\ (left.carry <=> Value(f) * 2^by >= Place(n))
  BY ONLY <1>3, f \in NumbersOf(n), by \in 0 .. 2 * LimbBits, ShlIs
<1>6. LET right == fixnum_shr(f, by)
      IN  Value(right.limbs) = Value(f) \div 2^by /\ right.rest = Value(f) % 2^by
  BY ONLY <1>3, f \in NumbersOf(n), by \in 0 .. 2 * LimbBits, ShrIs
<1> QED BY ONLY <1>4, <1>5, <1>6, f = j.f, by = j.by

LEMMA FieldKept ==
  ASSUME NEW V \in Nat, NEW p \in Nat, p >= 1, NEW k \in Nat, k >= 1, NEW in \in 0 .. k - 1
  PROVE  ((V + (in - ((V \div p) % k)) * p) \div p) % k = in
<1>1. V \in Int /\ V \div p \in Int /\ (V \div p) \div k \in Int /\ (V \div p) % k \in 0 .. k - 1
      /\ V \div p = ((V \div p) \div k) * k + ((V \div p) % k)
  BY Quotients
<1> PICK u \in Int, T \in Int, F \in 0 .. k - 1 : u = V \div p /\ T = (V \div p) \div k /\ F = (V \div p) % k
  BY <1>1
<1>2. u = T * k + F
  BY <1>1
<1>3. in - F \in Int /\ in \in Nat /\ F \in Nat /\ in \in Int /\ in < k
  OBVIOUS
<1> PICK x \in Int : x = in - F
  BY <1>3
<1>4. (x * p + V) \div p = x + u
  <2>1. (x * p + V) \div p = x + (V \div p)
    BY ONLY x \in Int, <1>1, p \in Nat, p >= 1, ModPlus
  <2> QED BY ONLY <2>1, u = V \div p
<1>5. x + u = T * k + in
  <2>1. T * k \in Int
    OBVIOUS
  <2> PICK y \in Int : y = T * k
    BY <2>1
  <2> QED BY ONLY <1>2, <1>3, y = T * k, y \in Int, x = in - F, x \in Int, u \in Int
<1>6. (T * k + in) % k = in % k
  BY ONLY T \in Int, <1>3, k \in Nat, k >= 1, ModPlus
<1>7. in % k = in
  BY ONLY <1>3, k \in Nat, ModSmall
<1>8. V + x * p = x * p + V
  <2>1. x * p \in Int
    OBVIOUS
  <2> PICK y \in Int : y = x * p
    BY <2>1
  <2> QED BY y = x * p
<1> QED BY ONLY <1>4, <1>5, <1>6, <1>7, <1>8, x = in - F, F = (V \div p) % k

LEMMA FieldOfJob ==
  ASSUME NEW j \in Jobs, j.op = "field"
  PROVE  LET g     == fixnum_poke(j.f, j.offset, j.size, j.in)
             v     == Value(j.f)
             field == (v \div 2^j.offset) % 2^Clipped(j.f, j.offset, j.size)
         IN  /\ Value(g) = v + (j.in - field) * 2^j.offset
             /\ fixnum_peek(g, j.offset, j.size) = j.in
<1>1. j \in FieldJobs
  BY JobKinds
<1>2. PICK n \in Sizes : /\ j.f \in NumbersOf(n) /\ j.offset \in 0 .. LimbBits * n - 1
                         /\ j.size \in 1 .. 2 * LimbBits + 1
                         /\ j.in \in 0 .. 2^(2 * LimbBits + 1) - 1 /\ j.in < 2^Clipped(j.f, j.offset, j.size)
  BY <1>1 DEF FieldJobs
<1>3. n \in Nat /\ n >= 2
  BY SizeIs
<1> PICK f \in NumbersOf(n), o \in 0 .. LimbBits * n - 1, s \in 1 .. 2 * LimbBits + 1 :
      f = j.f /\ o = j.offset /\ s = j.size
  BY <1>2
<1> PICK in : in = j.in
  OBVIOUS
<1>4. Clipped(f, o, s) \in 1 .. 2 * LimbBits + 1 /\ o \in Nat
  BY ONLY <1>3, f \in NumbersOf(n), o \in 0 .. LimbBits * n - 1, s \in 1 .. 2 * LimbBits + 1, FieldIs
<1> PICK c \in Nat : c = Clipped(f, o, s)
  BY <1>4, LimbIs
<1>5. 2^o \in Nat /\ 2^o >= 1 /\ 2^c \in Nat /\ 2^c >= 1
  BY <1>4, TwoPower
<1> PICK p \in Nat, k \in Nat : p = 2^o /\ k = 2^c
  BY <1>5
<1>6. in \in 0 .. k - 1
  <2>1. in \in Nat
    BY <1>2
  <2>2. in < k
    BY <1>2
  <2> QED BY <2>1, <2>2
<1> PICK V \in Nat : V = Value(f)
  BY <1>3, ValueRange
<1> DEFINE g == fixnum_poke(f, o, s, in)
<1>7. g \in NumbersOf(n) /\ Value(g) = V + (in - ((V \div p) % k)) * p
  <2>1. in \in 0 .. 2^Clipped(f, o, s) - 1
    BY ONLY <1>6, k = 2^c, c = Clipped(f, o, s)
  <2>2. LET h == fixnum_poke(f, o, s, in)
            F == (Value(f) \div 2^o) % 2^Clipped(f, o, s)
        IN  h \in NumbersOf(n) /\ Value(h) = Value(f) + (in - F) * 2^o
    BY ONLY <2>1, <1>3, f \in NumbersOf(n), o \in 0 .. LimbBits * n - 1, s \in 1 .. 2 * LimbBits + 1, PokeIs
  <2> QED BY ONLY <2>2, V = Value(f), p = 2^o, k = 2^c, c = Clipped(f, o, s)
<1> HIDE DEF g
<1>8. fixnum_peek(g, o, s) = (Value(g) \div p) % k
  <2>1. fixnum_peek(g, o, s) = (Value(g) \div 2^o) % 2^Clipped(g, o, s)
    BY ONLY <1>3, <1>7, o \in 0 .. LimbBits * n - 1, s \in 1 .. 2 * LimbBits + 1, PeekIs
  <2>2. Clipped(g, o, s) = Clipped(f, o, s)
    <3>1. Len(g) = n /\ Len(f) = n
      BY <1>3, <1>7, LengthIs
    <3> QED BY ONLY <3>1 DEF Clipped, BitLength
  <2> QED BY ONLY <2>1, <2>2, p = 2^o, k = 2^c, c = Clipped(f, o, s)
<1>9. ((V + (in - ((V \div p) % k)) * p) \div p) % k = in
  <2>1. p >= 1 /\ k >= 1
    BY <1>5
  <2> QED BY ONLY <2>1, <1>6, V \in Nat, p \in Nat, k \in Nat, FieldKept
<1>10. fixnum_peek(g, o, s) = in
  BY ONLY <1>7, <1>8, <1>9
<1> QED BY ONLY <1>7, <1>10, f = j.f, o = j.offset, s = j.size, in = j.in, V = Value(f), p = 2^o, k = 2^c,
                c = Clipped(f, o, s) DEF g

LEMMA DivisionOfJob ==
  ASSUME NEW j \in Jobs, j.op \in {"divide", "divide_by"},
         NEW d, d = IF j.op = "divide" THEN DivisorOfMultiplier(Multiplier(j.m), Len(j.f))
                    ELSE DivisorOfFixnum(j.d, fixnum_popcnt(j.d, 0)),
         j.op = "divide_by" => ~DivAborts(d, j.plus1)
  PROVE  LET r        == fixnum_div(j.f, d, j.n, j.plus1)
             dividend == IF j.plus1 = 1 THEN 2^BitLength(j.f) ELSE Value(j.f)
             divisor  == IF j.op = "divide" THEN j.m ELSE Value(j.d)
         IN  /\ Value(r.limbs) = dividend \div divisor
             /\ r.rest = (dividend % divisor) % 2^(2 * LimbBits)
<1>1. PICK n \in Sizes, x \in Extras :
        /\ j.f \in NumbersOf(n) /\ j.plus1 \in 0 .. 1 /\ j.n = n + x
        /\ j.op = "divide" => j.m \in Values
        /\ j.op = "divide_by" => j.d \in NumbersOf(n) /\ LimbBits * n <= 2^8 /\ Value(j.d) > 1
  <2>1. CASE j.op = "divide"
    <3>1. j \in DivideJobs
      BY <2>1, JobKinds
    <3> QED BY <2>1, <3>1 DEF DivideJobs
  <2>2. CASE j.op = "divide_by"
    <3>1. j \in DivideByJobs
      BY <2>2, JobKinds
    <3> QED BY <2>2, <3>1 DEF DivideByJobs, DivisorSizes
  <2> QED BY <2>1, <2>2
<1>2. n \in Nat /\ n >= 2
  BY SizeIs
<1>3. x \in Nat
  BY NumbersAssumption
<1> PICK f \in NumbersOf(n), plus1 \in 0 .. 1 : f = j.f /\ plus1 = j.plus1
  BY <1>1
<1>4. Len(f) = n /\ 2^BitLength(f) = Place(n)
  BY <1>2, LengthIs
<1> DEFINE D == IF j.op = "divide" THEN j.m ELSE Value(j.d)
<1>5. IsDivisor(d, D, n) /\ (d.pure => d.log2 <= 2 * LimbBits)
  <2>1. CASE j.op = "divide"
    <3> PICK m \in 2 .. Place(2) - 1 : m = j.m
      BY <1>1, <2>1, ValueIs
    <3>1. d = DivisorOfMultiplier(Multiplier(m), n)
      BY <1>4, <2>1
    <3>2. LET e == DivisorOfMultiplier(Multiplier(m), n)
          IN  IsDivisor(e, m, n) /\ e.log2 <= 2 * LimbBits - 1
      BY ONLY <1>2, m \in 2 .. Place(2) - 1, DivisorOfMultiplierIs
    <3>3. IsDivisor(d, m, n) /\ d.log2 <= 2 * LimbBits - 1
      BY ONLY <3>1, <3>2
    <3>4. d.log2 \in Nat
      BY ONLY <3>3 DEF IsDivisor
    <3>5. d.log2 <= 2 * LimbBits
      BY ONLY <3>3, <3>4, LimbIs
    <3> QED BY <2>1, <3>3, <3>5
  <2>2. CASE j.op = "divide_by"
    <3> PICK g \in NumbersOf(n) : g = j.d
      BY <1>1, <2>2
    <3>1. LimbBits * n <= 2^8 /\ Value(g) > 1
      BY <1>1, <2>2
    <3>2. IsDivisor(DivisorOfFixnum(g, fixnum_popcnt(g, 0)), Value(g), n)
      BY ONLY <1>2, <3>1, g \in NumbersOf(n), DivisorOfFixnumIs
    <3>3. IsDivisor(d, D, n)
      BY <2>2, <3>2
    <3>4. ASSUME d.pure PROVE d.log2 <= 2 * LimbBits
      <4>1. ~((d.log2 % 2^8) > 2 * LimbBits)
        BY <2>2, <3>4 DEF DivAborts, ShrInAborts
      <4>2. d.log2 \in Nat /\ d.log2 < LimbBits * n
        BY ONLY <3>3 DEF IsDivisor
      <4>3. 2^8 \in Nat
        BY TwoPower
      <4> PICK y \in Nat : y = LimbBits * n
        BY <1>2, LimbIs
      <4> PICK z \in Nat, l \in Nat : z = 2^8 /\ l = d.log2
        BY <4>2, <4>3
      <4>4. l < z
        BY <3>1, <4>2
      <4>5. l % z = l
        BY ONLY <4>4, l \in Nat, z \in Nat, ModSmall
      <4> QED BY <4>1, <4>5, LimbIs
    <3> QED BY <3>3, <3>4
  <2> QED BY <2>1, <2>2
<1>6. j.n = n + x /\ 2 * LimbBits = LimbBits * 2
  BY <1>1, LimbIs
<1> HIDE DEF D
<1>7. DividesExactly(n, f, x, plus1, D, d)
  <2>1. MayDivide(n, f, x, plus1, D, d)
    BY ONLY <1>2, <1>3, <1>5, f \in NumbersOf(n), plus1 \in 0 .. 1 DEF MayDivide
  <2> QED BY ONLY <2>1, DivIs
<1> QED BY ONLY <1>4, <1>6, <1>7, f = j.f, plus1 = j.plus1 DEF D, Place, DividesExactly
-----------------------------------------------------------------------------
LEMMA PowerPositive ==
  ASSUME NEW r \in Nat, r >= 1, NEW k \in Nat
  PROVE  Power(r, k) >= 1
<1> DEFINE Yes == {j \in Nat : Power(r, j) >= 1}
<1>1. 0 \in Yes
  BY PowerLaws
<1>2. ASSUME NEW j \in Nat, j \in Yes PROVE j + 1 \in Yes
  <2>1. Power(r, j) \in Nat /\ Power(r, j + 1) = Power(r, j) * r /\ Power(r, j) >= 1
    BY <1>2, PowerLaws
  <2> PICK p \in Nat : p = Power(r, j)
    BY <2>1
  <2>2. p * r >= 1
    BY <2>1
  <2> QED BY <2>1, <2>2
<1>3. \A j \in Nat : j \in Yes
  <2> HIDE DEF Yes
  <2> QED BY <1>1, <1>2, Induct
<1> QED BY <1>3

(* A digit before the others. *)
LEMMA Prepended ==
  ASSUME NEW r \in Nat, r >= 1, NEW i \in Nat, NEW out \in [1 .. i -> 0 .. r - 1], NEW digit \in 0 .. r - 1
  PROVE  LET all == <<digit>> \o out IN
           /\ all \in [1 .. i + 1 -> 0 .. r - 1]
           /\ NumberOf(all, r) = digit * Power(r, i) + NumberOf(out, r)
<1> DEFINE all == <<digit>> \o out
           S == 0 .. r - 1
<1>1. out \in Seq(S) /\ Len(out) = i /\ <<digit>> \in Seq(S) /\ Len(<<digit>>) = 1
  OBVIOUS
<1> HIDE DEF S
<1>2. all \in Seq(S) /\ Len(all) = 1 + i
  BY <1>1, ConcatProperties
<1>3. all \in [1 .. i + 1 -> S]
  <2>1. Len(all) = i + 1
    BY <1>2
  <2>2. all \in [1 .. Len(all) -> S]
    BY ONLY <1>2, LenProperties
  <2> QED BY ONLY <2>1, <2>2
<1>4. all[1] = digit /\ \A k \in 1 .. i : all[k + 1] = out[k]
  <2>1. all[1] = digit
    BY <1>1, ConcatProperties
  <2>2. ASSUME NEW k \in 1 .. i PROVE all[k + 1] = out[k]
    <3>1. k + 1 \in Nat /\ k + 1 > 1 /\ k + 1 <= 1 + i /\ (k + 1) - 1 = k /\ k + 1 \in 1 .. 1 + i
      OBVIOUS
    <3>2. all[k + 1] = out[(k + 1) - 1]
      BY <1>1, <3>1, ConcatProperties
    <3> QED BY <3>1, <3>2
  <2> QED BY <2>1, <2>2
<1> HIDE DEF all
<1>5. all \in [1 .. i + 1 -> Int]
  BY <1>3 DEF S
<1>6. NumberOf(all, r) = all[1] * Power(r, i) + NumberOf([k \in 1 .. i |-> all[k + 1]], r)
  BY ONLY <1>5, i \in Nat, r \in Nat, NumberFirst
<1>7. [k \in 1 .. i |-> all[k + 1]] = out
  <2>1. out = [k \in 1 .. i |-> out[k]]
    OBVIOUS
  <2> QED BY ONLY <1>4, <2>1
<1> QED BY ONLY <1>3, <1>4, <1>6, <1>7 DEF all, S

EncodeStates(n) == [limbs : NumbersOf(n), out : Seq(Nat)]

EncodeStep(s, d, scratch) ==
  LET q == fixnum_div(s.limbs, d, scratch, 0)
  IN  [limbs |-> q.limbs, out |-> <<q.rest>> \o s.out]

LEMMA EncodeStepIs ==
  ASSUME NEW n \in Nat, n >= 2, NEW x \in Nat, NEW w \in 2 .. Place(2) - 1, NEW s \in EncodeStates(n)
  PROVE  LET r     == EncodeStep(s, DivisorOfMultiplier(Multiplier(w), n), n + x)
             digit == Value(s.limbs) % w
         IN  /\ r \in EncodeStates(n)
             /\ Value(r.limbs) = Value(s.limbs) \div w
             /\ digit \in 0 .. w - 1 /\ r.out = <<digit>> \o s.out
<1> PICK d : d = DivisorOfMultiplier(Multiplier(w), n)
  OBVIOUS
<1>1. IsDivisor(d, w, n) /\ (d.pure => d.log2 <= 2 * LimbBits)
  <2>1. IsDivisor(d, w, n) /\ d.log2 <= 2 * LimbBits - 1
    BY DivisorOfMultiplierIs
  <2>2. d.log2 \in Nat
    BY ONLY <2>1 DEF IsDivisor
  <2> QED BY ONLY <2>1, <2>2, LimbIs
<1> PICK f \in NumbersOf(n), out \in Seq(Nat) : f = s.limbs /\ out = s.out
  BY DEF EncodeStates
<1> DEFINE q == fixnum_div(f, d, n + x, 0)
<1>2. 0 \in 0 .. 1
  OBVIOUS
<1>3. q.limbs \in NumbersOf(n) /\ Value(q.limbs) = Value(f) \div w /\ q.rest = (Value(f) % w) % Place(2)
  <2>1. MayDivide(n, f, x, 0, w, d)
    BY ONLY <1>1, <1>2, n \in Nat, n >= 2, x \in Nat, f \in NumbersOf(n) DEF MayDivide
  <2>2. DividesExactly(n, f, x, 0, w, d)
    BY ONLY <2>1, DivIs
  <2>3. 0 # 1
    OBVIOUS
  <2> QED BY ONLY <2>2, <2>3 DEF DividesExactly, q
<1> HIDE DEF q
<1>4. Value(f) \in Int /\ w \in Nat /\ w >= 1 /\ Place(2) \in Nat /\ w < Place(2)
  <2>1. Value(f) \in Nat
    BY ONLY n \in Nat, f \in NumbersOf(n), ValueRange
  <2>2. Place(2) \in Nat
    BY ONLY Places
  <2>3. w \in Nat /\ w >= 2 /\ w < Place(2)
    BY ONLY w \in 2 .. Place(2) - 1, <2>2
  <2> QED BY ONLY <2>1, <2>2, <2>3
<1>5. Value(f) % w \in 0 .. w - 1
  BY ONLY <1>4, Quotients
<1>6. q.rest = Value(f) % w
  <2> PICK z \in Nat : z = Value(f) % w
    BY <1>4, <1>5
  <2>1. z < Place(2)
    BY <1>4, <1>5
  <2>2. z % Place(2) = z
    BY ONLY <1>4, <2>1, z \in Nat, ModSmall
  <2> QED BY ONLY <1>3, <2>2, z = Value(f) % w
<1>7. <<q.rest>> \o out \in Seq(Nat)
  <2>1. <<q.rest>> \in Seq(Nat)
    BY <1>4, <1>5, <1>6
  <2> QED BY <2>1, ConcatProperties
<1>8. EncodeStep(s, d, n + x) = [limbs |-> q.limbs, out |-> <<q.rest>> \o out]
  BY ONLY f = s.limbs, out = s.out DEF EncodeStep, q
<1>9. EncodeStep(s, d, n + x) \in EncodeStates(n)
  <2>1. q.limbs \in NumbersOf(n)
    BY ONLY <1>3
  <2> DEFINE e == EncodeStep(s, d, n + x)
             digits == <<q.rest>> \o out
  <2>2. e = [limbs |-> q.limbs, out |-> digits] /\ digits \in Seq(Nat)
    BY ONLY <1>7, <1>8
  <2> HIDE DEF digits, e
  <2>3. e \in EncodeStates(n)
    BY ONLY <2>1, <2>2 DEF EncodeStates
  <2> QED BY ONLY <2>3 DEF e
<1>10. EncodeStep(s, d, n + x).limbs = q.limbs /\ EncodeStep(s, d, n + x).out = <<q.rest>> \o out
  BY ONLY <1>8
<1> QED BY ONLY <1>3, <1>5, <1>6, <1>9, <1>10, f = s.limbs, out = s.out, d = DivisorOfMultiplier(Multiplier(w), n)

MayEncode(n, x, w, f, size, shift) ==
  /\ n \in Nat /\ n >= 2 /\ x \in Nat /\ w \in 2 .. Place(2) - 1 /\ f \in NumbersOf(n)
  /\ size \in Nat /\ shift \in 0 .. 2 * LimbBits

LastDigits(n, x, w, f, size, shift) ==
  LET out == base_encode(f, size, Multiplier(w), shift, n + x) IN
    /\ out \in [1 .. size -> 0 .. w - 1]
    /\ NumberOf(out, w) = (Value(f) \div 2^shift) % Power(w, size)

(* base_encode_buffer (base.c:35-62): the last digits of the number. *)
LEMMA EncodeIs ==
  ASSUME NEW n, NEW x, NEW w, NEW f, NEW size, NEW shift, MayEncode(n, x, w, f, size, shift)
  PROVE  LastDigits(n, x, w, f, size, shift)
<1> SUFFICES ASSUME n \in Nat, n >= 2, x \in Nat, w \in 2 .. Place(2) - 1, f \in NumbersOf(n),
                    size \in Nat, shift \in 0 .. 2 * LimbBits
             PROVE  LET out == base_encode(f, size, Multiplier(w), shift, n + x) IN
                      /\ out \in [1 .. size -> 0 .. w - 1]
                      /\ NumberOf(out, w) = (Value(f) \div 2^shift) % Power(w, size)
  BY DEF MayEncode, LastDigits
<1> DEFINE d == DivisorOfMultiplier(Multiplier(w), n)
           first == [limbs |-> fixnum_shr(f, shift).limbs, out |-> <<>>]
           V == EncodeStates(n)
           Go(s) == EncodeStep(s, d, n + x)
           step == [p \in (0 .. size - 1) \X V |-> Go(p[2])]
           Loop(h) == h = [i \in 0 .. size |->
              IF i = 0 THEN [limbs |-> fixnum_shr(f, shift).limbs, out |-> <<>>]
              ELSE LET s == h[i - 1]
                       q == fixnum_div(s.limbs, d, n + x, 0)
                   IN  [limbs |-> q.limbs, out |-> <<q.rest>> \o s.out]]
           loop == CHOOSE h : Loop(h)
           v == Value(f) \div 2^shift
<1>1. Len(f) = n /\ w \in Nat /\ w >= 1 /\ w >= 2 /\ n >= 1
  BY ValueRange
<1>2. base_encode(f, size, Multiplier(w), shift, n + x) = loop[size].out
  BY <1>1 DEF base_encode
<1>3. fixnum_shr(f, shift).limbs \in NumbersOf(n) /\ Value(fixnum_shr(f, shift).limbs) = v
  BY <1>1, ShrIs
<1>4. first \in V /\ first.out = <<>> /\ Value(first.limbs) = v
  BY <1>3 DEF EncodeStates
<1>5. v \in Nat
  <2>1. Value(fixnum_shr(f, shift).limbs) \in Nat
    BY <1>3, ValueRange
  <2> QED BY <1>3, <2>1
<1>6. \A s \in V : /\ Go(s) \in V /\ Value(Go(s).limbs) = Value(s.limbs) \div w
                   /\ Value(s.limbs) % w \in 0 .. w - 1
                   /\ Go(s).out = <<Value(s.limbs) % w>> \o s.out
  BY EncodeStepIs
<1>7. step \in [(0 .. size - 1) \X V -> V]
  <2> HIDE DEF V, Go
  <2>1. ASSUME NEW p \in (0 .. size - 1) \X V PROVE Go(p[2]) \in V
    <3>1. p[2] \in V
      OBVIOUS
    <3> QED BY <1>6, <3>1
  <2> QED BY <2>1
<1> HIDE DEF v
<1>8. PICK h : LoopsTo(h, size, V, first, step)
  <2> HIDE DEF V, first, step
  <2> QED BY <1>4, <1>7, Loops
<1>9. h \in [0 .. size -> V] /\ h[0] = first
  <2> HIDE DEF V, first, step
  <2> QED BY <1>8 DEF LoopsTo
<1>10. ASSUME NEW k \in 0 .. size - 1 PROVE h[k + 1] = Go(h[k])
  <2> HIDE DEF V, first, Go
  <2>1. k \in 0 .. size
    OBVIOUS
  <2>2. h[k] \in V
    BY <1>9, <2>1
  <2>3. h[k + 1] = step[<<k, h[k]>>]
    <3> HIDE DEF step
    <3> QED BY <1>8 DEF LoopsTo
  <2> QED BY <2>2, <2>3
<1>11. Loop(h)
  <2>1. ASSUME NEW i \in 0 .. size, i # 0 PROVE h[i] = EncodeStep(h[i - 1], d, n + x)
    <3>1. i - 1 \in 0 .. size - 1 /\ (i - 1) + 1 = i
      BY <2>1
    <3> QED BY <1>10, <3>1
  <2> HIDE DEF V, Go, step, d
  <2>2. h = [i \in 0 .. size |-> IF i = 0 THEN first ELSE EncodeStep(h[i - 1], d, n + x)]
    <3> HIDE DEF first
    <3>1. h = [i \in 0 .. size |-> h[i]]
      BY <1>9
    <3>2. \A i \in 0 .. size : h[i] = IF i = 0 THEN first ELSE EncodeStep(h[i - 1], d, n + x)
      BY <1>9, <2>1
    <3> QED BY ONLY <3>1, <3>2
  <2> QED BY ONLY <2>2 DEF EncodeStep
<1>12. Loop(loop)
  <2> HIDE DEF Loop
  <2> QED BY <1>11
<1> HIDE DEF loop
<1>13. loop[0] = first /\ \A k \in 0 .. size - 1 : loop[k + 1] = Go(loop[k])
  <2>1. loop = [i \in 0 .. size |-> IF i = 0 THEN first ELSE EncodeStep(loop[i - 1], d, n + x)]
    <3> HIDE DEF Go, V, step, d
    <3> QED BY ONLY <1>12 DEF EncodeStep
  <2> HIDE DEF first, V, step, Loop, d
  <2>2. 0 \in 0 .. size
    OBVIOUS
  <2>3. loop[0] = first
    BY <2>1, <2>2
  <2>4. ASSUME NEW k \in 0 .. size - 1 PROVE loop[k + 1] = Go(loop[k])
    <3>1. k + 1 \in 0 .. size /\ (k + 1) - 1 = k /\ k + 1 # 0
      OBVIOUS
    <3>2. loop[k + 1] = EncodeStep(loop[(k + 1) - 1], d, n + x)
      BY <2>1, <3>1
    <3> QED BY ONLY <3>1, <3>2
  <2> QED BY <2>3, <2>4
<1> HIDE DEF Loop, first, V, Go
<1> DEFINE Inv(k) == /\ loop[k] \in V
                     /\ Value(loop[k].limbs) = v \div Power(w, k)
                     /\ loop[k].out \in [1 .. k -> 0 .. w - 1]
                     /\ NumberOf(loop[k].out, w) = v % Power(w, k)
           Yes == {k \in 0 .. size : Inv(k)}
<1>14. Inv(0)
  <2>1. Power(w, 0) = 1 /\ 0 \in Nat
    BY <1>1, PowerLaws
  <2>2. v \div 1 = v /\ v % 1 = 0
    BY <1>5
  <2>3. <<>> \in [1 .. 0 -> 0 .. w - 1]
    BY <1>1
  <2>4. NumberOf(<<>>, w) = 0
    <3>1. <<>> = [k \in 1 .. 0 |-> 0] /\ w \in Int
      BY <1>1
    <3>2. NumberOf([k \in 1 .. 0 |-> 0], w) = 0
      BY ONLY <2>1, <3>1, Zeros
    <3> QED BY ONLY <3>1, <3>2
  <2> QED BY ONLY <1>4, <1>13, <2>1, <2>2, <2>3, <2>4
<1>15. ASSUME NEW k \in 0 .. size - 1, Inv(k) PROVE Inv(k + 1)
  <2>1. k \in Nat
    OBVIOUS
  <2>2. Power(w, k) \in Nat /\ Power(w, k + 1) = Power(w, k) * w
    BY ONLY <1>1, <2>1, PowerLaws
  <2>3. Power(w, k) >= 1
    BY ONLY <1>1, <2>1, PowerPositive
  <2> PICK P \in Nat : P = Power(w, k)
    BY <2>2
  <2>4. v \div (P * w) = (v \div P) \div w /\ v % (P * w) = ((v \div P) % w) * P + (v % P)
    <3>1. P >= 1
      BY <2>3
    <3> QED BY ONLY <1>1, <1>5, <3>1, P \in Nat, TwoStage
  <2> DEFINE s == loop[k]
             digit == Value(s.limbs) % w
  <2>5. s \in V /\ Value(s.limbs) = v \div P /\ s.out \in [1 .. k -> 0 .. w - 1] /\ NumberOf(s.out, w) = v % P
    BY ONLY <1>15, P = Power(w, k)
  <2>6. loop[k + 1] = Go(s)
    BY <1>13
  <2> HIDE DEF s
  <2>7. /\ Go(s) \in V /\ Value(Go(s).limbs) = Value(s.limbs) \div w
        /\ digit \in 0 .. w - 1 /\ Go(s).out = <<digit>> \o s.out
    BY ONLY <1>6, <2>5
  <2> HIDE DEF digit
  <2> PICK out \in [1 .. k -> 0 .. w - 1] : out = s.out
    BY <2>5
  <2>8. /\ <<digit>> \o out \in [1 .. k + 1 -> 0 .. w - 1]
        /\ NumberOf(<<digit>> \o out, w) = digit * Power(w, k) + NumberOf(out, w)
    BY ONLY <1>1, <2>1, <2>7, out \in [1 .. k -> 0 .. w - 1], Prepended
  <2>9. digit = (v \div P) % w
    BY ONLY <2>5 DEF digit
  <2>10. NumberOf(<<digit>> \o out, w) = v % Power(w, k + 1)
    BY ONLY <2>2, <2>4, <2>5, <2>8, <2>9, P = Power(w, k), out = s.out
  <2>11. Value(Go(s).limbs) = v \div Power(w, k + 1)
    BY ONLY <2>2, <2>4, <2>5, <2>7, P = Power(w, k)
  <2> QED BY ONLY <2>6, <2>7, <2>8, <2>10, <2>11, out = s.out
<1>16. Inv(size)
  <2>1. 0 \in Yes
    <3>1. 0 \in 0 .. size
      OBVIOUS
    <3> HIDE DEF Inv
    <3> QED BY <1>14, <3>1
  <2>2. ASSUME NEW k \in 0 .. size - 1, k \in Yes PROVE k + 1 \in Yes
    <3>1. k + 1 \in 0 .. size
      OBVIOUS
    <3> HIDE DEF Inv
    <3> QED BY <1>15, <2>2, <3>1
  <2>3. \A k \in 0 .. size : k \in Yes
    <3> HIDE DEF Yes
    <3> QED BY <2>1, <2>2, InductTo
  <2>4. size \in 0 .. size
    OBVIOUS
  <2> HIDE DEF Inv
  <2> QED BY <2>3, <2>4
<1> QED BY ONLY <1>2, <1>16 DEF v
-----------------------------------------------------------------------------
LEMMA ProductMod ==
  ASSUME NEW x \in Nat, NEW y \in Nat, NEW k \in Nat, k >= 1
  PROVE  ((x % k) * y) % k = (x * y) % k
<1>1. x \in Int /\ x \div k \in Int /\ x % k \in 0 .. k - 1 /\ x = (x \div k) * k + (x % k)
  BY Quotients
<1> PICK q \in Int, m \in Nat : q = x \div k /\ m = x % k
  BY <1>1
<1>2. x = q * k + m
  BY <1>1
<1>3. q * y \in Int /\ m * y \in Int /\ x * y = (q * y) * k + m * y
  BY <1>2
<1>4. ((q * y) * k + m * y) % k = (m * y) % k
  BY ONLY <1>3, k \in Nat, k >= 1, ModPlus
<1> QED BY ONLY <1>3, <1>4, m = x % k

(* One digit more: what comes of the prefix u, of which only the remainder *)
(* by P is known.                                                          *)
LEMMA OneMore ==
  ASSUME NEW u \in Nat, NEW w \in Nat, w >= 2, NEW digit \in Nat, NEW P \in Nat, P >= 1
  PROVE  /\ ((((u % P) * w) % P) + digit) % P = (u * w + digit) % P
         /\ (u % P) * w >= P => u * w + digit >= P
         /\ u * w + digit >= u /\ u * w + digit \in Nat
<1>1. u \in Int /\ u \div P \in Int /\ u % P \in 0 .. P - 1 /\ u = (u \div P) * P + (u % P)
  BY Quotients
<1>2. u % P <= u
  <2>1. u \div P \in Nat
    <3>1. u < P + 1 \/ u >= P
      OBVIOUS
    <3> QED BY AtLeastOnce
  <2> PICK q \in Nat, m \in Nat : q = u \div P /\ m = u % P
    BY <1>1, <2>1
  <2>2. q * P \in Nat
    OBVIOUS
  <2> PICK z \in Nat : z = q * P
    BY <2>2
  <2> QED BY ONLY <1>1, z = q * P, q = u \div P, m = u % P, z \in Nat, m \in Nat
<1>3. ((u % P) * w) % P = (u * w) % P
  BY ONLY u \in Nat, w \in Nat, P \in Nat, P >= 1, ProductMod
<1>4. u * w \in Nat /\ u * w >= u
  OBVIOUS
<1> PICK z \in Nat : z = u * w
  BY <1>4
<1>5. ((z % P) + digit) % P = (z + digit) % P
  <2>1. z \in Int /\ digit \in Int
    OBVIOUS
  <2> QED BY ONLY <2>1, P \in Nat, P >= 1, SumMod
<1>6. (u % P) * w <= z
  <2> PICK m \in Nat : m = u % P
    BY <1>1
  <2>1. m <= u
    BY <1>2
  <2>2. \A a, b, c \in Nat : a <= b => a * c <= b * c
    OBVIOUS
  <2>3. m * w <= u * w
    BY ONLY <2>1, <2>2, m \in Nat, u \in Nat, w \in Nat
  <2> QED BY ONLY <2>3, m = u % P, z = u * w
<1>7. (u % P) * w >= P => z + digit >= P
  <2>1. (u % P) * w \in Nat
    BY <1>1
  <2> PICK y \in Nat : y = (u % P) * w
    BY <2>1
  <2> QED BY <1>6
<1>8. ((((u % P) * w) % P) + digit) % P = (u * w + digit) % P
  <2>1. ((u % P) * w) % P = z % P
    BY ONLY <1>3, z = u * w, Zenon
  <2>2. ((((u % P) * w) % P) + digit) % P = (z + digit) % P
    BY ONLY <1>5, <2>1, Zenon
  <2> QED BY ONLY <2>2, z = u * w, Zenon
<1>9. z + digit >= u /\ z + digit \in Nat
  BY ONLY <1>4, z = u * w, z \in Nat, digit \in Nat, u \in Nat
<1> QED BY ONLY <1>7, <1>8, <1>9, z = u * w, Zenon

(* With a power of two nothing is lost in the addition. *)
LEMMA OneMorePure ==
  ASSUME NEW u \in Nat, NEW t \in Nat, NEW l \in Nat, l <= t, NEW digit \in Nat, digit < 2^l, u * 2^l < 2^t
  PROVE  u * 2^l + digit < 2^t
<1>1. PICK d \in Nat : t = d + l
  <2>1. t - l \in Nat /\ t = (t - l) + l
    OBVIOUS
  <2> QED BY <2>1
<1>2. 2^t = 2^d * 2^l /\ 2^d \in Nat /\ 2^l \in Nat /\ 2^l >= 1
  BY <1>1, TwoSum, TwoPower
<1> PICK p \in Nat, q \in Nat : p = 2^l /\ q = 2^d
  BY <1>2
<1>3. u * p < q * p /\ digit < p /\ p >= 1
  BY <1>2
<1>4. u < q
  <2>1. \A a, b, c \in Nat : a >= b => a * c >= b * c
    OBVIOUS
  <2>2. u >= q => u * p >= q * p
    BY ONLY <2>1, u \in Nat, q \in Nat, p \in Nat
  <2>3. u * p \in Nat /\ q * p \in Nat
    OBVIOUS
  <2> QED BY <1>3, <2>2, <2>3
<1>5. (u + 1) * p <= q * p
  <2>1. \A a, b, c \in Nat : a <= b => a * c <= b * c
    OBVIOUS
  <2>2. u + 1 <= q /\ u + 1 \in Nat
    BY <1>4
  <2> QED BY ONLY <2>1, <2>2, q \in Nat, p \in Nat
<1>6. (u + 1) * p = u * p + p /\ u * p \in Nat /\ q * p \in Nat
  OBVIOUS
<1> PICK x \in Nat, y \in Nat : x = u * p /\ y = q * p
  BY <1>6
<1>7. x + digit < y
  BY ONLY <1>3, <1>5, <1>6, x = u * p, y = q * p, x \in Nat, y \in Nat, p \in Nat, digit \in Nat
<1> QED BY ONLY <1>2, <1>7, x = u * p, y = q * p, p = 2^l, q = 2^d

DecodeStates(n) == [limbs : NumbersOf(n), carry : BOOLEAN]

LEMMA MulStates ==
  ASSUME NEW n \in Nat, n >= 2, NEW f \in NumbersOf(n), NEW w \in 2 .. Place(2) - 1
  PROVE  fixnum_mul16(f, Multiplier(w)) \in DecodeStates(n)
<1> DEFINE r == fixnum_mul16(f, Multiplier(w))
<1>1. r.limbs \in NumbersOf(n) /\ r.carry \in BOOLEAN
  BY MulIs
<1>2. \E l, c : r = [limbs |-> l, carry |-> c]
  BY DEF fixnum_mul16, fixnum_shl
<1>3. PICK l, c : r = [limbs |-> l, carry |-> c]
  BY <1>2
<1>4. l \in NumbersOf(n) /\ c \in BOOLEAN
  BY ONLY <1>1, <1>3
<1> QED BY ONLY <1>3, <1>4 DEF DecodeStates

(* What is known of the state s after the digits that make u. *)
Decoded(s, u, n, w) ==
  /\ ~s.carry => Value(s.limbs) = u % Place(n)
  /\ u < Place(n) => ~s.carry
  /\ Multiplier(w).pure /\ ~s.carry => u < Place(n)

NextDecoded(s, w, digit) == IF s.carry THEN s ELSE DecodeStep(s, Multiplier(w), digit)

LEMMA DecodeStepIs ==
  ASSUME NEW n \in Nat, n >= 2, NEW w \in 2 .. Place(2) - 1, NEW s \in DecodeStates(n),
         NEW digit \in 0 .. w - 1
  PROVE  /\ NextDecoded(s, w, digit) \in DecodeStates(n)
         /\ \A u \in Nat : Decoded(s, u, n, w) => Decoded(NextDecoded(s, w, digit), u * w + digit, n, w)
<1> DEFINE m == Multiplier(w)
           P == Place(n)
           r == NextDecoded(s, w, digit)
           p == fixnum_mul16(s.limbs, m)
           sum == fixnum_add_uint16(p.limbs, digit)
<1>1. s.limbs \in NumbersOf(n) /\ s.carry \in BOOLEAN
  BY DEF DecodeStates
<1>2. P \in Nat /\ P >= 1 /\ w \in Nat /\ w >= 2 /\ digit \in Nat /\ digit < w /\ digit \in 0 .. Place(2) - 1
  BY Places
<1>3. p \in DecodeStates(n)
  BY <1>1, MulStates
<1>4. p.limbs \in NumbersOf(n) /\ p.carry \in BOOLEAN
  BY ONLY <1>3 DEF DecodeStates
<1>5. Value(p.limbs) = (Value(s.limbs) * w) % P /\ (p.carry <=> Value(s.limbs) * w >= P)
  BY <1>1, MulIs
<1> HIDE DEF p
<1>6. sum.limbs \in NumbersOf(n) /\ Value(sum.limbs) = (Value(p.limbs) + digit) % P
  <2> PICK f \in NumbersOf(n) : f = p.limbs
    BY <1>4
  <2>1. Len(f) = n
    BY ValueRange
  <2>2. Uint16(n, digit) \in NumbersOf(n) /\ Value(Uint16(n, digit)) = digit
    BY ONLY <1>2, n \in Nat, n >= 2, Uint16Is
  <2> PICK g \in NumbersOf(n) : g = Uint16(n, digit)
    BY <2>2
  <2>3. fixnum_add(f, g).limbs \in NumbersOf(n) /\ Value(fixnum_add(f, g).limbs) = (Value(f) + Value(g)) % Place(n)
    BY ONLY n \in Nat, f \in NumbersOf(n), g \in NumbersOf(n), AddIs
  <2>4. sum = fixnum_add(f, g)
    BY ONLY <2>1, f = p.limbs, g = Uint16(n, digit) DEF fixnum_add_uint16
  <2> QED BY ONLY <2>2, <2>3, <2>4, f = p.limbs, g = Uint16(n, digit)
<1>7. r = IF s.carry THEN s ELSE IF p.carry THEN p ELSE [p EXCEPT !.limbs = sum.limbs]
  BY DEF NextDecoded, DecodeStep, p
<1> HIDE DEF sum, m
<1>8. [p EXCEPT !.limbs = sum.limbs] \in DecodeStates(n) /\ [p EXCEPT !.limbs = sum.limbs].limbs = sum.limbs
      /\ [p EXCEPT !.limbs = sum.limbs].carry = p.carry
  <2> PICK l \in NumbersOf(n) : l = sum.limbs
    BY <1>6
  <2> QED BY ONLY <1>3, l \in NumbersOf(n), l = sum.limbs DEF DecodeStates
<1>9. r \in DecodeStates(n)
  BY <1>3, <1>7, <1>8
<1> HIDE DEF r
<1>10. ASSUME NEW u \in Nat, Decoded(s, u, n, w) PROVE Decoded(r, u * w + digit, n, w)
  <2> DEFINE next == u * w + digit
  <2>0. /\ ((((u % P) * w) % P) + digit) % P = next % P
        /\ (u % P) * w >= P => next >= P
        /\ next >= u /\ next \in Nat
    BY ONLY <1>2, u \in Nat, OneMore
  <2>1. /\ ~s.carry => Value(s.limbs) = u % P
        /\ u < P => ~s.carry
        /\ Multiplier(w).pure /\ ~s.carry => u < P
    BY ONLY <1>10 DEF Decoded
  <2> HIDE DEF next, P
  <2>2. CASE s.carry
    <3>1. r = s /\ r.carry
      BY <1>7, <2>2
    <3>2. ~(u < P)
      BY <2>1, <2>2
    <3>3. ~(next < P)
      BY ONLY <1>2, <2>0, <3>2, u \in Nat
    <3> QED BY ONLY <3>1, <3>3 DEF Decoded, P, next
  <2>3. CASE ~s.carry /\ p.carry
    <3>1. r = p
      BY <1>7, <2>3
    <3>2. (u % P) * w >= P
      BY <1>5, <2>1, <2>3
    <3>3. ~(next < P)
      BY ONLY <1>2, <2>0, <3>2
    <3>4. r.carry
      BY <2>3, <3>1
    <3> QED BY ONLY <3>3, <3>4 DEF Decoded, P, next
  <2>4. CASE ~s.carry /\ ~p.carry
    <3>1. ~r.carry /\ r.limbs = sum.limbs
      BY <1>7, <1>8, <2>4
    <3>2. Value(s.limbs) = u % P
      BY <2>1, <2>4
    <3>3. Value(r.limbs) = next % P
      BY ONLY <1>5, <1>6, <2>0, <3>1, <3>2
    <3>4. ASSUME Multiplier(w).pure PROVE next < P
      <4>1. u < P
        BY <2>1, <2>4, <3>4
      <4>2. u % P = u
        BY ONLY <1>2, <4>1, u \in Nat, ModSmall
      <4>3. ~(u * w >= P)
        BY <1>5, <2>4, <3>2, <4>2
      <4> DEFINE l == Multiplier(w).log2
                 t == LimbBits * n
      <4>4. w = 2^l /\ l \in Nat /\ l <= 2 * LimbBits - 1
        BY <3>4, MultiplierIs, LimbIs
      <4>5. t \in Nat /\ l <= t
        <5>1. LimbBits * n >= LimbBits * 2 /\ LimbBits * n \in Nat
          <6>1. \A a, b \in Nat : b >= 2 => a * b \in Nat /\ a * b >= a * 2
            OBVIOUS
          <6> QED BY ONLY <6>1, n \in Nat, n >= 2, LimbIs
        <5> HIDE DEF l
        <5> QED BY <4>4, <5>1, LimbIs
      <4>6. P = 2^t
        BY ONLY DEF P, Place, t
      <4> HIDE DEF l, t
      <4>7. u * 2^l < 2^t
        <5>1. u * w \in Nat
          BY <1>2
        <5>2. u * w < P
          BY <1>2, <4>3, <5>1
        <5> QED BY ONLY <4>4, <4>6, <5>2
      <4>8. digit < 2^l
        BY ONLY <1>2, <4>4
      <4>9. u * 2^l + digit < 2^t
        BY ONLY <1>2, <4>4, <4>5, <4>7, <4>8, u \in Nat, OneMorePure
      <4> QED BY ONLY <4>4, <4>6, <4>9 DEF next
    <3> QED BY ONLY <3>1, <3>3, <3>4 DEF Decoded, P, next
  <2> QED BY ONLY <2>2, <2>3, <2>4, <1>1, <1>4 DEF next
<1> QED BY ONLY <1>9, <1>10 DEF r
(* base_decode_fixnum (base.c:64-93): what the digits make, up to the       *)
(* carry of the last addition.                                             *)
LEMMA DecodeIs ==
  ASSUME NEW n \in Nat, n >= 2, NEW w \in 2 .. Place(2) - 1, NEW size \in Nat, size >= 1,
         NEW digits \in [1 .. size -> 0 .. w - 1], NEW shift \in 0 .. 2 * LimbBits
  PROVE  LET r == base_decode(n, Multiplier(w), digits, shift)
             v == NumberOf(digits, w)
         IN  /\ v < Place(n) => ~r.overflow
             /\ ~r.overflow => Value(r.limbs) = (v * 2^shift) % Place(n)
             /\ Multiplier(w).pure => (r.overflow <=> v >= Place(n))
<1> DEFINE m == Multiplier(w)
           N == size - 1
           first == [limbs |-> Uint16(n, digits[1]), carry |-> FALSE]
           V == DecodeStates(n)
           Go(k, s) == NextDecoded(s, w, digits[k + 2])
           step == [p \in (0 .. N - 1) \X V |-> Go(p[1], p[2])]
           Loop(h) == h = [i \in 1 .. Len(digits) |->
              IF i = 1 THEN [limbs |-> Uint16(n, digits[1]), carry |-> FALSE]
              ELSE LET s == h[i - 1] IN
                   IF s.carry THEN s ELSE DecodeStep(s, m, digits[i])]
           loop == CHOOSE h : Loop(h)
           end == loop[size]
           r == base_decode(n, m, digits, shift)
           v == NumberOf(digits, w)
<1>1. Len(digits) = size /\ N \in Nat /\ w \in Nat /\ w >= 2 /\ w \in Int /\ size \in 1 .. size
      /\ digits \in [1 .. size -> Int] /\ 1 \in 1 .. size
  OBVIOUS
<1>2. r = [limbs    |-> IF end.carry THEN end.limbs ELSE fixnum_shl(end.limbs, shift).limbs,
           overflow |-> end.carry]
  BY <1>1 DEF base_decode
<1>3. first \in V /\ Value(first.limbs) = digits[1] /\ first.carry = FALSE
  <2>1. digits[1] \in 0 .. w - 1
    BY <1>1
  <2>2. Place(2) \in Nat
    BY Places
  <2>3. digits[1] \in 0 .. Place(2) - 1
    <3> PICK y \in 0 .. w - 1 : y = digits[1]
      BY <2>1
    <3>1. y \in 0 .. Place(2) - 1
      BY ONLY <2>2, y \in 0 .. w - 1, w \in 2 .. Place(2) - 1
    <3> QED BY ONLY <3>1, y = digits[1]
  <2> PICK x \in 0 .. Place(2) - 1 : x = digits[1]
    BY ONLY <2>3
  <2>4. Uint16(n, x) \in NumbersOf(n) /\ Value(Uint16(n, x)) = x
    BY ONLY n \in Nat, n >= 2, x \in 0 .. Place(2) - 1, Uint16Is
  <2> QED BY ONLY <2>4, x = digits[1] DEF DecodeStates
<1>4. step \in [(0 .. N - 1) \X V -> V]
  <2>1. ASSUME NEW k \in 0 .. N - 1, NEW s \in V PROVE Go(k, s) \in V
    <3>1. digits[k + 2] \in 0 .. w - 1
      <4>1. k + 2 \in 1 .. size
        OBVIOUS
      <4> QED BY <4>1
    <3> PICK x \in 0 .. w - 1 : x = digits[k + 2]
      BY <3>1
    <3>2. NextDecoded(s, w, x) \in DecodeStates(n)
      <4>1. s \in DecodeStates(n)
        OBVIOUS
      <4> QED BY ONLY <4>1, n \in Nat, n >= 2, w \in 2 .. Place(2) - 1, x \in 0 .. w - 1, DecodeStepIs
    <3> QED BY ONLY <3>2, x = digits[k + 2]
  <2> HIDE DEF V, Go, N
  <2>2. ASSUME NEW p \in (0 .. N - 1) \X V PROVE Go(p[1], p[2]) \in V
    <3>1. PICK k \in 0 .. N - 1, s \in V : p = <<k, s>>
      OBVIOUS
    <3> QED BY <2>1, <3>1
  <2> QED BY <2>2
<1>5. PICK g : LoopsTo(g, N, V, first, step)
  <2> HIDE DEF V, first, step, N
  <2> QED BY <1>1, <1>3, <1>4, Loops
<1>6. g \in [0 .. N -> V] /\ g[0] = first
  <2> HIDE DEF V, first, step, N
  <2> QED BY <1>5 DEF LoopsTo
<1>7. ASSUME NEW k \in 0 .. N - 1 PROVE g[k + 1] = Go(k, g[k])
  <2> HIDE DEF V, first, Go
  <2>1. k \in 0 .. N
    OBVIOUS
  <2>2. g[k] \in V
    <3> HIDE DEF N
    <3> QED BY <1>6, <2>1
  <2>3. g[k + 1] = step[<<k, g[k]>>]
    <3> HIDE DEF step, N
    <3> QED BY <1>5 DEF LoopsTo
  <2> HIDE DEF N
  <2> QED BY <2>2, <2>3
<1> DEFINE h == [i \in 1 .. size |-> g[i - 1]]
<1>8. Loop(h)
  <2>1. ASSUME NEW i \in 1 .. size PROVE h[i] = IF i = 1 THEN first ELSE NextDecoded(h[i - 1], w, digits[i])
    <3>1. CASE i = 1
      <4>1. i - 1 = 0
        BY <3>1
      <4> HIDE DEF first, V
      <4> QED BY <1>6, <3>1, <4>1
    <3>2. CASE i # 1
      <4>1. i - 2 \in 0 .. N - 1 /\ (i - 2) + 1 = i - 1 /\ (i - 2) + 2 = i /\ i - 1 \in 1 .. size /\ (i - 1) - 1 = i - 2
        BY <3>2
      <4>2. g[(i - 2) + 1] = Go(i - 2, g[i - 2])
        <5> HIDE DEF Go, N
        <5> QED BY <1>7, <4>1
      <4>3. h[i - 1] = g[i - 2] /\ h[i] = g[i - 1]
        BY <4>1
      <4> HIDE DEF h
      <4> QED BY ONLY <3>2, <4>1, <4>2, <4>3
    <3> QED BY <3>1, <3>2
  <2> HIDE DEF V, Go, step, m
  <2>2. h = [i \in 1 .. size |-> IF i = 1 THEN first ELSE NextDecoded(h[i - 1], w, digits[i])]
    <3>1. h = [i \in 1 .. size |-> h[i]]
      OBVIOUS
    <3> HIDE DEF h, first
    <3> QED BY ONLY <2>1, <3>1
  <2> HIDE DEF h
  <2> QED BY ONLY <1>1, <2>2 DEF NextDecoded, m
<1>9. Loop(loop)
  <2> HIDE DEF Loop, h
  <2> QED BY <1>8
<1> HIDE DEF loop
<1>10. loop[1] = first /\ \A k \in 1 .. size - 1 : loop[k + 1] = NextDecoded(loop[k], w, digits[k + 1])
  <2>1. loop = [i \in 1 .. size |-> IF i = 1 THEN first ELSE NextDecoded(loop[i - 1], w, digits[i])]
    <3> HIDE DEF V, Go, step
    <3> QED BY ONLY <1>1, <1>9 DEF NextDecoded
  <2> HIDE DEF first, V, step, Loop, m
  <2>2. loop[1] = first
    BY <1>1, <2>1
  <2>3. ASSUME NEW k \in 1 .. size - 1 PROVE loop[k + 1] = NextDecoded(loop[k], w, digits[k + 1])
    <3>1. k + 1 \in 1 .. size /\ (k + 1) - 1 = k /\ k + 1 # 1
      OBVIOUS
    <3>2. loop[k + 1] = NextDecoded(loop[(k + 1) - 1], w, digits[k + 1])
      BY <2>1, <3>1
    <3> QED BY ONLY <3>1, <3>2
  <2> QED BY <2>2, <2>3
<1> HIDE DEF Loop, first, V, Go, h, step
<1>11. PICK U : PrefixRuns(U, size, digits, w) /\ v = U[size]
  BY ONLY <1>1, size \in Nat, NumberRuns
<1>12. U[0] = 0 /\ \A k \in 0 .. size - 1 : U[k + 1] = U[k] * w + digits[k + 1]
  BY <1>11 DEF PrefixRuns
<1> HIDE DEF v, m, r
<1> DEFINE Inv(k) == loop[k] \in V /\ U[k] \in Nat /\ Decoded(loop[k], U[k], n, w)
           Yes == {k \in 0 .. N : Inv(k + 1)}
<1>13. Inv(1)
  <2>1. U[1] = digits[1] /\ digits[1] \in 0 .. w - 1
    <3>1. 0 \in 0 .. size - 1 /\ 0 + 1 = 1
      OBVIOUS
    <3>2. U[0 + 1] = U[0] * w + digits[0 + 1]
      BY <1>12, <3>1
    <3>3. 0 * w = 0 /\ digits[1] \in 0 .. w - 1
      BY <1>1
    <3>4. U[1] = 0 + digits[1]
      BY ONLY <1>12, <3>1, <3>2, <3>3
    <3> QED BY <3>3, <3>4
  <2>2. U[1] < Place(n) /\ Place(n) \in Nat
    <3>1. Value(first.limbs) < Place(n)
      <4>1. first.limbs \in NumbersOf(n)
        BY <1>3 DEF V, DecodeStates
      <4> QED BY <4>1, ValueRange
    <3> QED BY <1>3, <2>1, <3>1, Places
  <2> PICK u \in Nat : u = U[1]
    BY <1>1, <2>1
  <2>3. u % Place(n) = u
    BY ONLY <2>2, u = U[1], u \in Nat, ModSmall
  <2> QED BY ONLY <1>3, <1>10, <2>1, <2>2, <2>3, u = U[1], u \in Nat DEF Decoded
<1>14. ASSUME NEW k \in 1 .. size - 1, Inv(k) PROVE Inv(k + 1)
  <2>1. k \in 0 .. size - 1 /\ k + 1 \in 1 .. size
    OBVIOUS
  <2>2. digits[k + 1] \in 0 .. w - 1
    BY <2>1
  <2> PICK x \in 0 .. w - 1 : x = digits[k + 1]
    BY <2>2
  <2> PICK s : s = loop[k]
    OBVIOUS
  <2>3. s \in DecodeStates(n)
    BY ONLY <1>14, s = loop[k] DEF V
  <2> PICK u \in Nat : u = U[k]
    BY <1>14
  <2>4. NextDecoded(s, w, x) \in DecodeStates(n)
        /\ \A y \in Nat : Decoded(s, y, n, w) => Decoded(NextDecoded(s, w, x), y * w + x, n, w)
    BY ONLY <2>3, n \in Nat, n >= 2, w \in 2 .. Place(2) - 1, x \in 0 .. w - 1, DecodeStepIs
  <2>5. Decoded(s, u, n, w)
    BY ONLY <1>14, s = loop[k], u = U[k]
  <2>6. Decoded(NextDecoded(s, w, x), u * w + x, n, w)
    BY ONLY <2>4, <2>5, u \in Nat
  <2>7. loop[k + 1] = NextDecoded(s, w, x)
    BY ONLY <1>10, s = loop[k], x = digits[k + 1], k \in 1 .. size - 1
  <2>8. U[k + 1] = u * w + x
    BY ONLY <1>12, <2>1, u = U[k], x = digits[k + 1]
  <2>9. u * w + x \in Nat
    <3>1. x \in Nat /\ w \in Nat
      OBVIOUS
    <3> QED BY ONLY <3>1, u \in Nat
  <2> QED BY ONLY <2>4, <2>6, <2>7, <2>8, <2>9 DEF V
<1>15. Inv(size)
  <2>1. 0 \in Yes
    <3>1. 0 \in 0 .. N /\ 0 + 1 = 1
      BY <1>1
    <3> HIDE DEF Inv, N
    <3> QED BY <1>13, <3>1
  <2>2. ASSUME NEW k \in 0 .. N - 1, k \in Yes PROVE k + 1 \in Yes
    <3>1. k + 1 \in 0 .. N /\ k + 1 \in 1 .. size - 1
      OBVIOUS
    <3> HIDE DEF Inv, N
    <3>2. Inv(k + 1)
      BY <2>2
    <3>3. Inv((k + 1) + 1)
      BY <1>14, <3>1, <3>2
    <3> QED BY <3>1, <3>3
  <2>3. \A k \in 0 .. N : k \in Yes
    <3> HIDE DEF Yes, N
    <3> QED BY <1>1, <2>1, <2>2, InductTo
  <2>4. N \in 0 .. N /\ N + 1 = size
    BY <1>1
  <2> HIDE DEF Inv, N
  <2>5. Inv(N + 1)
    BY <2>3, <2>4
  <2> QED BY <2>4, <2>5
<1>16. end \in DecodeStates(n) /\ v \in Nat /\ Decoded(end, v, n, w)
  BY ONLY <1>11, <1>15 DEF V
<1> HIDE DEF end, Inv
<1>17. end.limbs \in NumbersOf(n) /\ end.carry \in BOOLEAN
  BY ONLY <1>16 DEF DecodeStates
<1>18. r.overflow = end.carry
  BY ONLY <1>2
<1>19. ~end.carry => Value(r.limbs) = (v * 2^shift) % Place(n)
  <2> SUFFICES ASSUME ~end.carry PROVE Value(r.limbs) = (v * 2^shift) % Place(n)
    OBVIOUS
  <2> PICK f \in NumbersOf(n) : f = end.limbs
    BY <1>17
  <2>1. Value(fixnum_shl(f, shift).limbs) = (Value(f) * 2^shift) % Place(n)
    <3>1. n >= 1
      OBVIOUS
    <3> QED BY ONLY <3>1, n \in Nat, f \in NumbersOf(n), shift \in 0 .. 2 * LimbBits, ShlIs
  <2>2. r.limbs = fixnum_shl(f, shift).limbs
    BY ONLY <1>2, ~end.carry, f = end.limbs
  <2>3. Value(f) = v % Place(n)
    BY ONLY <1>16, ~end.carry, f = end.limbs DEF Decoded
  <2>4. 2^shift \in Nat
    <3>1. shift \in Nat
      BY LimbIs
    <3> QED BY <3>1, TwoPower
  <2> PICK p \in Nat : p = 2^shift
    BY <2>4
  <2>5. ((v % Place(n)) * p) % Place(n) = (v * p) % Place(n)
    <3>1. Place(n) \in Nat /\ Place(n) >= 1 /\ v \in Nat
      BY <1>16, Places
    <3> QED BY ONLY <3>1, p \in Nat, ProductMod
  <2> QED BY ONLY <2>1, <2>2, <2>3, <2>5, p = 2^shift
<1>20. v < Place(n) => ~end.carry
  BY ONLY <1>16 DEF Decoded
<1>21. m.pure => (end.carry <=> v >= Place(n))
  <2>1. m.pure /\ ~end.carry => v < Place(n)
    BY ONLY <1>16 DEF Decoded, m
  <2>2. Place(n) \in Nat /\ v \in Nat
    BY <1>16, Places
  <2> QED BY ONLY <1>20, <2>1, <2>2
<1> QED BY ONLY <1>18, <1>19, <1>20, <1>21 DEF v, m, r
-----------------------------------------------------------------------------
(* A number without its last bits. *)
LEMMA Truncated ==
  ASSUME NEW v \in Nat, NEW p \in Nat, p >= 1
  PROVE  v \div p \in Nat /\ v \div p <= v /\ (v \div p) * p = v - (v % p) /\ v - (v % p) \in 0 .. v
<1>1. v \in Int /\ v \div p \in Int /\ v % p \in 0 .. p - 1 /\ v = (v \div p) * p + (v % p)
  BY Quotients
<1>2. v \div p \in Nat
  BY AtLeastOnce
<1> PICK q \in Nat, m \in Nat : q = v \div p /\ m = v % p
  BY <1>1, <1>2
<1>3. q * p \in Nat /\ q * p >= q
  OBVIOUS
<1> PICK z \in Nat : z = q * p
  BY <1>3
<1>4. v = z + m
  BY ONLY <1>1, q = v \div p, m = v % p, z = q * p
<1>5. z >= q
  BY ONLY <1>3, z = q * p
<1>6. q <= v /\ z = v - m /\ v - m \in 0 .. v
  BY ONLY <1>4, <1>5, z \in Nat, m \in Nat, q \in Nat
<1> QED BY ONLY <1>6, q = v \div p, m = v % p, z = q * p, q \in Nat

LEMMA EncodeOfJob ==
  ASSUME NEW j \in Jobs, j.op = "encode"
  PROVE  LET out     == base_encode(j.f, j.size, Multiplier(j.m), j.shift, j.n)
             back    == base_decode(Len(j.f), Multiplier(j.m), out, j.shift)
             v       == Value(j.f)
             modulus == Power(j.m, j.size)
         IN  /\ NumberOf(out, j.m) = (v \div 2^j.shift) % modulus
             /\ \A k \in DOMAIN out : out[k] < j.m
             /\ v \div 2^j.shift < modulus =>
                  /\ ~back.overflow
                  /\ Value(back.limbs) = v - (v % 2^j.shift)
<1>1. j \in EncodeJobs
  BY JobKinds
<1>2. PICK n \in Sizes, m \in Values, x \in Extras :
        /\ j.f \in NumbersOf(n) /\ j.m = m /\ j.size \in Counts[m]
        /\ j.shift \in 0 .. 2 * LimbBits /\ j.n = n + x
  BY <1>1 DEF EncodeJobs
<1>3. n \in Nat /\ n >= 2 /\ x \in Nat /\ j.size \in Nat /\ j.size >= 1
  <2>1. x \in Nat /\ Counts[m] \subseteq Nat \ {0}
    BY NumbersAssumption
  <2>2. j.size \in Nat /\ j.size # 0
    BY <1>2, <2>1
  <2> QED BY <2>1, <2>2, SizeIs
<1> PICK w \in 2 .. Place(2) - 1 : w = j.m
  BY <1>2, ValueIs
<1> PICK f \in NumbersOf(n), shift \in 0 .. 2 * LimbBits, size \in Nat : f = j.f /\ shift = j.shift /\ size = j.size
  BY <1>2, <1>3
<1>4. size >= 1
  BY <1>3
<1>5. LET e == base_encode(f, size, Multiplier(w), shift, n + x)
      IN  e \in [1 .. size -> 0 .. w - 1] /\ NumberOf(e, w) = (Value(f) \div 2^shift) % Power(w, size)
  <2>1. MayEncode(n, x, w, f, size, shift)
    BY ONLY <1>3, w \in 2 .. Place(2) - 1, f \in NumbersOf(n), shift \in 0 .. 2 * LimbBits, size \in Nat DEF MayEncode
  <2>2. LastDigits(n, x, w, f, size, shift)
    BY ONLY <2>1, EncodeIs
  <2> QED BY ONLY <2>2 DEF LastDigits
<1> PICK out \in [1 .. size -> 0 .. w - 1] : out = base_encode(f, size, Multiplier(w), shift, n + x)
  BY <1>5
<1>6. LET r == base_decode(n, Multiplier(w), out, shift)
          u == NumberOf(out, w)
      IN  /\ u < Place(n) => ~r.overflow
          /\ ~r.overflow => Value(r.limbs) = (u * 2^shift) % Place(n)
  BY ONLY <1>3, <1>4, w \in 2 .. Place(2) - 1, shift \in 0 .. 2 * LimbBits, size \in Nat,
          out \in [1 .. size -> 0 .. w - 1], DecodeIs
<1>7. Value(f) \in Nat /\ Value(f) < Place(n) /\ Len(f) = n /\ Place(n) \in Nat /\ w \in Nat /\ w >= 1
  BY <1>3, ValueRange, Places
<1>8. 2^shift \in Nat /\ 2^shift >= 1
  <2>1. shift \in Nat
    BY LimbIs
  <2> QED BY <2>1, TwoPower
<1> PICK v \in Nat, p \in Nat : v = Value(f) /\ p = 2^shift
  BY <1>7, <1>8
<1>9. v \div p \in Nat /\ v \div p <= v /\ (v \div p) * p = v - (v % p) /\ v - (v % p) \in 0 .. v
  <2>1. p >= 1
    BY <1>8
  <2> QED BY ONLY <2>1, v \in Nat, p \in Nat, Truncated
<1>10. Power(w, size) \in Nat
  BY ONLY <1>7, size \in Nat, PowerLaws
<1> PICK modulus \in Nat : modulus = Power(w, size)
  BY <1>10
<1>11. NumberOf(out, w) = (v \div p) % modulus
  BY ONLY <1>5, v = Value(f), p = 2^shift, modulus = Power(w, size),
          out = base_encode(f, size, Multiplier(w), shift, n + x)
<1>12. \A k \in DOMAIN out : out[k] < w
  <2>1. w \in Int
    OBVIOUS
  <2> QED BY <2>1
<1> DEFINE back == base_decode(n, Multiplier(w), out, shift)
<1>13. ASSUME v \div p < modulus PROVE ~back.overflow /\ Value(back.limbs) = v - (v % p)
  <2> PICK q \in Nat : q = v \div p
    BY <1>9
  <2> PICK y \in Nat : y = v - (v % p)
    BY <1>9
  <2>1. q % modulus = q
    BY ONLY <1>13, q = v \div p, q \in Nat, modulus \in Nat, ModSmall
  <2>2. NumberOf(out, w) = q
    BY ONLY <1>11, <2>1, q = v \div p
  <2>3. q < Place(n) /\ y < Place(n) /\ q * p = y
    <3>1. q <= v /\ y <= v /\ v < Place(n)
      BY <1>7, <1>9
    <3>2. q * p = y
      BY ONLY <1>9, q = v \div p, y = v - (v % p)
    <3> QED BY ONLY <1>7, <3>1, <3>2, q \in Nat, y \in Nat, v \in Nat
  <2>4. ~back.overflow
    BY ONLY <1>6, <2>2, <2>3
  <2>5. Value(back.limbs) = (q * p) % Place(n)
    BY ONLY <1>6, <2>2, <2>4, p = 2^shift
  <2>6. y % Place(n) = y
    BY ONLY <1>7, <2>3, y \in Nat, ModSmall
  <2> QED BY ONLY <2>3, <2>4, <2>5, <2>6, y = v - (v % p)
<1> HIDE DEF back
<1>14. back = base_decode(Len(j.f), Multiplier(j.m), out, j.shift)
  BY ONLY <1>7, f = j.f, w = j.m, shift = j.shift DEF back
<1>15. out = base_encode(j.f, j.size, Multiplier(j.m), j.shift, j.n)
  BY ONLY <1>2, out = base_encode(f, size, Multiplier(w), shift, n + x), f = j.f, w = j.m, shift = j.shift, size = j.size
<1>16. v = Value(j.f) /\ p = 2^j.shift /\ modulus = Power(j.m, j.size)
  BY ONLY v = Value(f), p = 2^shift, modulus = Power(w, size), f = j.f, w = j.m, shift = j.shift, size = j.size
<1> QED BY ONLY <1>11, <1>12, <1>13, <1>14, <1>15, <1>16, w = j.m

LEMMA DecodeOfJob ==
  ASSUME NEW j \in Jobs, j.op = "decode"
  PROVE  LET r       == base_decode(j.n, Multiplier(j.m), j.digits, j.shift)
             v       == NumberOf(j.digits, j.m)
             modulus == 2^(LimbBits * j.n)
         IN  /\ v < modulus => ~r.overflow
             /\ ~r.overflow => Value(r.limbs) = (v * 2^j.shift) % modulus
             /\ Multiplier(j.m).pure => (r.overflow <=> v >= modulus)
<1>1. j \in DecodeJobs
  BY JobKinds
<1>2. PICK m \in Values : \E k \in Counts[m] :
        /\ j.digits \in [1 .. k -> 0 .. m - 1] /\ j.m = m
        /\ j.shift \in 0 .. 2 * LimbBits /\ j.n \in Sizes
  BY <1>1 DEF DecodeJobs
<1>3. PICK k \in Counts[m] :
        /\ j.digits \in [1 .. k -> 0 .. m - 1] /\ j.m = m
        /\ j.shift \in 0 .. 2 * LimbBits /\ j.n \in Sizes
  BY <1>2
<1>4. k \in Nat /\ k >= 1
  <2>1. Counts[m] \subseteq Nat \ {0}
    BY NumbersAssumption
  <2>2. k \in Nat /\ k # 0
    BY <2>1
  <2> QED BY <2>2
<1> PICK w \in 2 .. Place(2) - 1 : w = j.m
  BY <1>3, ValueIs
<1> PICK digits \in [1 .. k -> 0 .. w - 1], shift \in 0 .. 2 * LimbBits, n \in Sizes :
      digits = j.digits /\ shift = j.shift /\ n = j.n
  BY <1>3
<1>5. n \in Nat /\ n >= 2
  BY SizeIs
<1>6. LET r == base_decode(n, Multiplier(w), digits, shift)
          v == NumberOf(digits, w)
      IN  /\ v < Place(n) => ~r.overflow
          /\ ~r.overflow => Value(r.limbs) = (v * 2^shift) % Place(n)
          /\ Multiplier(w).pure => (r.overflow <=> v >= Place(n))
  BY ONLY <1>4, <1>5, w \in 2 .. Place(2) - 1, digits \in [1 .. k -> 0 .. w - 1], shift \in 0 .. 2 * LimbBits, DecodeIs
<1> QED BY ONLY <1>6, w = j.m, digits = j.digits, shift = j.shift, n = j.n DEF Place
-----------------------------------------------------------------------------
(* What a call returns is what the property says of it; a call that has    *)
(* not returned, and one of another kind, satisfies the property as well.  *)
Exact == job \in Jobs /\ ShiftsAreExact /\ FieldsAreExact /\ DivisionIsExact /\ ConversionInverts

LEMMA InitExact == Init => Exact
BY DEF Init, Exact, ShiftsAreExact, FieldsAreExact, DivisionIsExact, ConversionInverts, Returned

LEMMA ShiftStep ==
  ASSUME job \in Jobs, Shift
  PROVE  Exact'
<1>1. /\ job' = job /\ job.op = "shift"
      /\ result' = [left |-> fixnum_shl(job.f, job.by), right |-> fixnum_shr(job.f, job.by)]
  BY DEF Shift, Returns
<1>2. ShiftsAreExact'
  BY <1>1, ShiftIs DEF ShiftsAreExact, Returned
<1>3. FieldsAreExact' /\ DivisionIsExact' /\ ConversionInverts'
  BY <1>1 DEF FieldsAreExact, DivisionIsExact, ConversionInverts, Returned
<1> QED BY <1>1, <1>2, <1>3 DEF Exact

LEMMA FieldStep ==
  ASSUME job \in Jobs, Field
  PROVE  Exact'
<1>1. /\ job' = job /\ job.op = "field"
      /\ LET g == fixnum_poke(job.f, job.offset, job.size, job.in)
         IN  result' = [limbs |-> g, peeked |-> fixnum_peek(g, job.offset, job.size)]
  BY DEF Field, Returns
<1>2. FieldsAreExact'
  BY <1>1, FieldOfJob DEF FieldsAreExact, Returned
<1>3. ShiftsAreExact' /\ DivisionIsExact' /\ ConversionInverts'
  BY <1>1 DEF ShiftsAreExact, DivisionIsExact, ConversionInverts, Returned
<1> QED BY <1>1, <1>2, <1>3 DEF Exact

LEMMA DivideStep ==
  ASSUME job \in Jobs, Divide \/ DivideBy
  PROVE  Exact'
<1>1. PICK d : /\ job' = job /\ job.op \in {"divide", "divide_by"}
               /\ d = IF job.op = "divide" THEN DivisorOfMultiplier(Multiplier(job.m), Len(job.f))
                      ELSE DivisorOfFixnum(job.d, fixnum_popcnt(job.d, 0))
               /\ job.op = "divide_by" => ~DivAborts(d, job.plus1)
               /\ result' = fixnum_div(job.f, d, job.n, job.plus1)
  <2>1. CASE Divide
    BY <2>1 DEF Divide, Returns
  <2>2. CASE DivideBy
    BY <2>2 DEF DivideBy, Returns
  <2> QED BY <2>1, <2>2
<1>2. LET dividend == IF job.plus1 = 1 THEN 2^BitLength(job.f) ELSE Value(job.f)
          divisor  == IF job.op = "divide" THEN job.m ELSE Value(job.d)
      IN  /\ Value(result'.limbs) = dividend \div divisor
          /\ result'.rest = (dividend % divisor) % 2^(2 * LimbBits)
  BY <1>1, DivisionOfJob
<1>3. DivisionIsExact'
  BY <1>1, <1>2 DEF DivisionIsExact, Returned
<1>4. ShiftsAreExact' /\ FieldsAreExact' /\ ConversionInverts'
  BY <1>1 DEF ShiftsAreExact, FieldsAreExact, ConversionInverts, Returned
<1> QED BY <1>1, <1>3, <1>4 DEF Exact

LEMMA EncodeStepExact ==
  ASSUME job \in Jobs, Encode
  PROVE  Exact'
<1>1. /\ job' = job /\ job.op = "encode"
      /\ result' = base_encode(job.f, job.size, Multiplier(job.m), job.shift, job.n)
  BY DEF Encode, Returns
<1>2. ConversionInverts'
  BY <1>1, EncodeOfJob DEF ConversionInverts, Returned
<1>3. ShiftsAreExact' /\ FieldsAreExact' /\ DivisionIsExact'
  BY <1>1 DEF ShiftsAreExact, FieldsAreExact, DivisionIsExact, Returned
<1> QED BY <1>1, <1>2, <1>3 DEF Exact

LEMMA DecodeStepExact ==
  ASSUME job \in Jobs, Decode
  PROVE  Exact'
<1>1. /\ job' = job /\ job.op = "decode"
      /\ result' = base_decode(job.n, Multiplier(job.m), job.digits, job.shift)
  BY DEF Decode, Returns
<1>2. ConversionInverts'
  BY <1>1, DecodeOfJob DEF ConversionInverts, Returned
<1>3. ShiftsAreExact' /\ FieldsAreExact' /\ DivisionIsExact'
  BY <1>1 DEF ShiftsAreExact, FieldsAreExact, DivisionIsExact, Returned
<1> QED BY <1>1, <1>2, <1>3 DEF Exact

LEMMA NextExact == Exact /\ [Next]_vars => Exact'
<1> SUFFICES ASSUME Exact, [Next]_vars PROVE Exact'
  OBVIOUS
<1>0. job \in Jobs
  BY DEF Exact
<1>1. CASE Shift
  BY <1>0, <1>1, ShiftStep
<1>2. CASE Field
  BY <1>0, <1>2, FieldStep
<1>3. CASE Divide \/ DivideBy
  BY <1>0, <1>3, DivideStep
<1>4. CASE Encode
  BY <1>0, <1>4, EncodeStepExact
<1>5. CASE Decode
  BY <1>0, <1>5, DecodeStepExact
<1>6. CASE UNCHANGED vars
  BY <1>6 DEF vars, Exact, ShiftsAreExact, FieldsAreExact, DivisionIsExact, ConversionInverts, Returned
<1> QED BY <1>1, <1>2, <1>3, <1>4, <1>5, <1>6 DEF Next

LEMMA AlwaysExact == Spec => []Exact
BY InitExact, NextExact, PTL DEF Spec

(* Shifts of numbers of any length, with limbs of any width, multiply and  *)
(* divide by powers of two (fixnum.c:117-173).                             *)
THEOREM Shifts == Spec => []ShiftsAreExact
<1>1. Exact => ShiftsAreExact
  BY DEF Exact
<1> QED BY <1>1, AlwaysExact, PTL

(* A field that is written is what is read, and nothing else changes, with *)
(* whatever number of limbs it spreads over (fixnum.c:249-329).            *)
THEOREM Fields == Spec => []FieldsAreExact
<1>1. Exact => FieldsAreExact
  BY DEF Exact
<1> QED BY <1>1, AlwaysExact, PTL

(* Division gives quotient and remainder, for both kinds of divisors and   *)
(* for a dividend that does not fit (fixnum.c:331-467).                    *)
THEOREM Division == Spec => []DivisionIsExact
<1>1. Exact => DivisionIsExact
  BY DEF Exact
<1> QED BY <1>1, AlwaysExact, PTL

(* Digits in any base that fits two limbs are those of the number, and     *)
(* make it again (base.c:35-93).                                           *)
THEOREM Conversion == Spec => []ConversionInverts
<1>1. Exact => ConversionInverts
  BY DEF Exact
<1> QED BY <1>1, AlwaysExact, PTL
=============================================================================
