--------------------------- MODULE DicewareProofs ---------------------------
(***************************************************************************)
(* Proofs about Diceware: the words come back and the choice is even, for  *)
(* any list, sizes, values and cipher.  First, powers and logarithms; then *)
(* chains, which are functions from how often the cipher was applied to    *)
(* what it made, and the invariant that says where on one the program is.  *)
(***************************************************************************)
EXTENDS Diceware, Induction

LEMMA Monotone ==
  ASSUME NEW a \in Nat, NEW b \in Nat, NEW k \in Nat, a <= b
  PROVE  a * k <= b * k
<1>1. b - a \in Nat /\ (b - a) * k \in Nat /\ b * k = a * k + (b - a) * k
  OBVIOUS
<1>2. a * k \in Nat /\ b * k \in Nat
  OBVIOUS
<1> QED BY <1>1, <1>2

LEMMA PowerLaws ==
  /\ Power[0] = 1
  /\ \A k \in Nat : Power[k] \in Nat /\ Power[k] >= 1 /\ Power[k + 1] = Power[k] * WordCount
<1>0. WordCount \in Nat /\ WordCount > 1
  BY SizesAssumption
<1> DEFINE R(f) == [k \in Nat |-> IF k = 0 THEN 1 ELSE f[k - 1] * WordCount]
           step == [s \in Nat \X Nat |-> s[2] * WordCount]
<1>1. PICK f : Recurses(f, Nat, 1, step)
  <2>1. IsStep(step, Nat)
    BY <1>0 DEF IsStep
  <2> HIDE DEF step
  <2> QED BY <2>1, Recursion
<1>2. f \in [Nat -> Nat] /\ f[0] = 1 /\ \A n \in Nat : f[n + 1] = f[n] * WordCount
  BY <1>1 DEF Recurses
<1>3. f = R(f)
  <2>1. ASSUME NEW k \in Nat, k # 0 PROVE f[k] = f[k - 1] * WordCount
    <3>1. k - 1 \in Nat /\ (k - 1) + 1 = k
      BY <2>1
    <3>2. f[(k - 1) + 1] = f[k - 1] * WordCount
      BY <3>1, <1>2
    <3> QED BY <3>1, <3>2
  <2> QED BY <2>1, <1>2
<1>4. Power = R(Power)
  <2> DEFINE P == CHOOSE q : q = R(q)
  <2>1. P = R(P)
    <3> HIDE DEF R
    <3> QED BY <1>3
  <2>2. Power = P
    BY DEF Power
  <2> HIDE DEF P, R
  <2> QED BY <2>1, <2>2
<1>5. Power[0] = 1 /\ \A k \in Nat : Power[k + 1] = Power[k] * WordCount
  <2>1. PICK q : q = Power
    OBVIOUS
  <2>2. q = R(q)
    <3> HIDE DEF R
    <3> QED BY <1>4, <2>1
  <2>3. q[0] = 1
    BY <2>2
  <2>4. ASSUME NEW k \in Nat PROVE q[k + 1] = q[k] * WordCount
    <3>1. k + 1 \in Nat /\ k + 1 # 0 /\ (k + 1) - 1 = k
      OBVIOUS
    <3>2. q[k + 1] = R(q)[k + 1]
      <4> HIDE DEF R
      <4> QED BY <2>2
    <3>3. R(q)[k + 1] = q[(k + 1) - 1] * WordCount
      BY ONLY <3>1 DEF R
    <3> QED BY ONLY <3>1, <3>2, <3>3
  <2> HIDE DEF R
  <2> QED BY <2>1, <2>3, <2>4
<1> DEFINE Yes == {k \in Nat : Power[k] \in Nat /\ Power[k] >= 1}
<1>6. 0 \in Yes
  BY <1>5
<1>7. ASSUME NEW k \in Nat, k \in Yes PROVE k + 1 \in Yes
  <2>1. Power[k] \in Nat /\ Power[k] >= 1 /\ Power[k + 1] = Power[k] * WordCount
    BY <1>7, <1>5
  <2>2. \A x \in Nat : x >= 1 => x * WordCount \in Nat /\ x * WordCount >= 1
    BY <1>0
  <2> QED BY <2>1, <2>2
<1> HIDE DEF Yes
<1>8. \A k \in Nat : k \in Yes
  BY <1>6, <1>7, Induct
<1> QED BY <1>5, <1>8 DEF Yes

LEMMA PowerGrows ==
  ASSUME NEW a \in Nat, NEW b \in Nat, a < b
  PROVE  Power[a] < Power[b]
<1> DEFINE Yes == {k \in Nat : Power[a] < Power[a + k + 1]}
<1>0. \A k \in Nat : Power[k] < Power[k + 1]
  <2> SUFFICES ASSUME NEW k \in Nat PROVE Power[k] < Power[k + 1]
    OBVIOUS
  <2>1. Power[k] \in Nat /\ Power[k] >= 1 /\ Power[k + 1] = Power[k] * WordCount
    BY PowerLaws
  <2>2. WordCount \in Nat /\ WordCount >= 2
    BY SizesAssumption
  <2>3. \A x \in Nat : x >= 1 => x < x * WordCount
    BY <2>2
  <2> QED BY <2>1, <2>3
<1>1. 0 \in Yes
  BY <1>0
<1>2. ASSUME NEW k \in Nat, k \in Yes PROVE k + 1 \in Yes
  <2>1. a + k + 1 \in Nat /\ a + (k + 1) + 1 = (a + k + 1) + 1 /\ Power[a] < Power[a + k + 1]
    BY <1>2
  <2>2. Power[a + k + 1] < Power[(a + k + 1) + 1]
    BY <2>1, <1>0
  <2>3. Power[a] \in Nat /\ Power[a + k + 1] \in Nat /\ Power[(a + k + 1) + 1] \in Nat
    BY <2>1, PowerLaws
  <2> QED BY <2>1, <2>2, <2>3
<1>3. \A k \in Nat : k \in Yes
  <2> HIDE DEF Yes
  <2> QED BY <1>1, <1>2, Induct
<1>4. b - a - 1 \in Nat /\ a + (b - a - 1) + 1 = b
  OBVIOUS
<1> QED BY <1>3, <1>4

(* There are at least as many numbers of k words as of k bits. *)
LEMMA PowerIsMore == ASSUME NEW k \in Nat PROVE 2^k <= Power[k]
<1> DEFINE Yes == {a \in Nat : 2^a <= Power[a]}
<1>1. 0 \in Yes
  BY PowerLaws, TwoToZero
<1>2. ASSUME NEW a \in Nat, a \in Yes PROVE a + 1 \in Yes
  <2>1. Power[a] \in Nat /\ Power[a + 1] = Power[a] * WordCount
    BY PowerLaws
  <2>2. 2^(a + 1) = 2 * 2^a /\ 2^a \in Nat /\ 2^a <= Power[a]
    BY <1>2, TwoPower
  <2>3. WordCount \in Nat /\ WordCount >= 2
    BY SizesAssumption
  <2>4. \A x, y \in Nat : x <= y => 2 * x <= y * WordCount
    <3>1. \A y \in Nat : y * 2 <= y * WordCount
      BY <2>3
    <3> QED BY <3>1, <2>3
  <2> QED BY <2>1, <2>2, <2>4
<1> HIDE DEF Yes
<1>3. \A a \in Nat : a \in Yes
  BY <1>1, <1>2, Induct
<1> QED BY <1>3 DEF Yes

LEMMA Log2Is ==
  ASSUME NEW x \in Nat, x >= 1
  PROVE  Log2(x) \in 0 .. x /\ 2^Log2(x) <= x /\ x < 2^(Log2(x) + 1)
<1> DEFINE Is(l, y) == l \in 0 .. y /\ 2^l <= y /\ y < 2^(l + 1)
           Yes == {y \in Nat : \E l : Is(l, y + 1)}
<1>1. 0 \in Yes
  <2>1. 2^(0 + 1) = 2 * 2^0 /\ 2^0 = 1
    BY TwoPower, TwoToZero
  <2>2. Is(0, 0 + 1)
    BY <2>1
  <2> QED BY <2>2
<1>2. ASSUME NEW y \in Nat, y \in Yes PROVE y + 1 \in Yes
  <2>1. PICK l : Is(l, y + 1)
    BY <1>2
  <2>2. /\ l \in Nat /\ l <= y + 1 /\ 2^l \in Nat /\ 2^(l + 1) \in Nat /\ 2^l >= 1
        /\ 2^(l + 1) = 2 * 2^l /\ 2^((l + 1) + 1) = 2 * 2^(l + 1)
    BY <2>1, TwoPower
  <2>3. CASE y + 2 < 2^(l + 1)
    <3>1. Is(l, (y + 1) + 1)
      BY <2>1, <2>2, <2>3
    <3> QED BY <3>1
  <2>4. CASE ~(y + 2 < 2^(l + 1))
    <3>1. Is(l + 1, (y + 1) + 1)
      BY <2>1, <2>2, <2>4
    <3> QED BY <3>1
  <2> QED BY <2>3, <2>4
<1>3. \A y \in Nat : y \in Yes
  <2> HIDE DEF Yes
  <2> QED BY <1>1, <1>2, Induct
<1>4. x - 1 \in Nat /\ (x - 1) + 1 = x
  OBVIOUS
<1>5. \E l : Is(l, x)
  <2>1. x - 1 \in Yes
    BY <1>3, <1>4
  <2> HIDE DEF Is
  <2> QED BY <2>1, <1>4
<1> QED BY <1>5 DEF Log2
------------------------------------------------------------------------------
(* The sizes of the secrets, and the numbers of words that are accepted.   *)
Fits(k) == Power[k] < 2^SizeOf(k)

LEMMA BlocksIs ==
  ASSUME NEW a \in Nat
  PROVE  /\ Blocks(a) \in Nat
         /\ a <= Blocks(a) * Unit /\ Blocks(a) * Unit < a + Unit
<1>0. Unit \in Nat /\ Unit >= 1
  BY SizesAssumption
<1> DEFINE x == a + Unit - 1
<1>1. x \in Nat /\ Blocks(a) = x \div Unit
  BY <1>0 DEF Blocks
<1>2. /\ x \div Unit \in Nat /\ x % Unit \in 0 .. Unit - 1
      /\ x = (x \div Unit) * Unit + (x % Unit)
  <2> HIDE DEF x
  <2>1. x \in Int /\ Unit \in Nat /\ Unit >= 1
    BY <1>0, <1>1
  <2>2. /\ x \div Unit \in Int /\ x % Unit \in 0 .. Unit - 1
        /\ x = (x \div Unit) * Unit + (x % Unit)
        /\ x \in Nat => x \div Unit \in Nat
    BY ONLY <2>1, Quotients, Zenon
  <2> QED BY <2>2, <1>1
<1> DEFINE b == Blocks(a) * Unit
           r == x % Unit
<1>3. b \in Nat /\ r \in 0 .. Unit - 1 /\ x = b + r
  <2> HIDE DEF x
  <2>1. b = (x \div Unit) * Unit
    BY <1>1
  <2>2. b \in Nat
    BY <2>1, <1>0, <1>2
  <2> QED BY <2>1, <2>2, <1>2
<1> HIDE DEF b, r
<1>4. a <= b /\ b < a + Unit
  BY <1>0, <1>3
<1> QED BY <1>1, <1>2, <1>4 DEF b

LEMMA BlocksAre ==
  ASSUME NEW a \in Nat
  PROVE  /\ \A b \in Nat : a <= b => Blocks(a) <= Blocks(b)
         /\ \A k \in Nat : a < Unit * k => Blocks(a) <= k
<1>0. Unit \in Nat /\ Unit >= 1
  BY SizesAssumption
<1>1. Blocks(a) \in Nat /\ Blocks(a) * Unit < a + Unit
  BY BlocksIs
<1>2. ASSUME NEW b \in Nat, a <= b PROVE Blocks(a) <= Blocks(b)
  <2>1. Blocks(b) \in Nat /\ b <= Blocks(b) * Unit
    BY BlocksIs
  <2>2. SUFFICES ASSUME Blocks(b) + 1 <= Blocks(a) PROVE FALSE
    BY <1>1, <2>1
  <2>3. (Blocks(b) + 1) * Unit <= Blocks(a) * Unit
    BY <2>2, <1>0, <1>1, <2>1, Monotone
  <2>4. (Blocks(b) + 1) * Unit = Blocks(b) * Unit + Unit
    BY <1>0, <2>1
  <2>5. Blocks(b) * Unit \in Nat /\ Blocks(a) * Unit \in Nat
    BY <1>0, <1>1, <2>1
  <2> QED BY <1>0, <1>1, <1>2, <2>1, <2>3, <2>4, <2>5
<1>3. ASSUME NEW k \in Nat, a < Unit * k PROVE Blocks(a) <= k
  <2>1. SUFFICES ASSUME k + 1 <= Blocks(a) PROVE FALSE
    BY <1>1
  <2>2. (k + 1) * Unit <= Blocks(a) * Unit
    BY <2>1, <1>0, <1>1, Monotone
  <2>3. (k + 1) * Unit = Unit * k + Unit /\ Unit * k \in Nat /\ Blocks(a) * Unit \in Nat
    BY <1>0, <1>1
  <2> QED BY <1>0, <1>1, <1>3, <2>2, <2>3
<1> QED BY <1>1, <1>2, <1>3

LEMMA LogGrows ==
  ASSUME NEW x \in Nat, NEW y \in Nat, x >= 1, x <= y
  PROVE  Log2(x) \in Nat /\ Log2(y) \in Nat /\ Log2(x) <= Log2(y)
<1>1. Log2(x) \in Nat /\ 2^Log2(x) <= x
  BY Log2Is
<1>2. y >= 1
  OBVIOUS
<1>3. Log2(y) \in Nat /\ y < 2^(Log2(y) + 1)
  BY <1>2, Log2Is
<1> DEFINE a == Log2(x)
           b == Log2(y)
<1>4. a \in Nat /\ b \in Nat /\ 2^a \in Nat /\ 2^(b + 1) \in Nat /\ 2^a < 2^(b + 1)
  <2>1. 2^a \in Nat /\ 2^(b + 1) \in Nat
    BY <1>1, <1>3, TwoPower
  <2> QED BY <1>1, <1>3, <2>1
<1> HIDE DEF a, b
<1>5. a < b + 1
  BY <1>4, TwoGrows
<1> QED BY <1>4, <1>5 DEF a, b

LEMMA LogBelow ==
  ASSUME NEW x \in Nat, x >= 1, NEW l \in Nat, x < 2^l
  PROVE  Log2(x) \in Nat /\ Log2(x) < l
<1> DEFINE a == Log2(x)
<1>1. a \in Nat /\ 2^a <= x
  BY Log2Is
<1> HIDE DEF a
<1>2. 2^a \in Nat /\ 2^l \in Nat
  BY <1>1, TwoPower
<1>3. a < l
  BY <1>1, <1>2, TwoGrows
<1> QED BY <1>1, <1>3 DEF a

LEMMA LimitIs == Unit * MaxBlocks \in Nat /\ Limit \in Nat /\ Limit >= 1
<1>1. Unit * MaxBlocks \in Nat
  BY SizesAssumption
<1> QED BY <1>1, TwoPower DEF Limit

LEMMA Small ==
  ASSUME NEW x \in Nat, NEW k \in Nat, x < k
  PROVE  x % k = x
<1>1. k >= 1 /\ x = 0 * k + x /\ x \in 0 .. k - 1
  OBVIOUS
<1> QED BY <1>1, QuotientIs

(* What has room in the largest secret has a size no larger than that.     *)
LEMMA SizeIs ==
  ASSUME NEW k \in Nat, Power[k] < Limit
  PROVE  /\ Truncated(k) = Power[k] /\ Log2(Power[k]) \in Nat
         /\ Blocks(Log2(Power[k])) \in Nat /\ SizeOf(k) = Unit * Blocks(Log2(Power[k]))
         /\ SizeOf(k) \in Nat /\ 2^SizeOf(k) \in Nat /\ 2^SizeOf(k) <= Limit
<1>0. Power[k] \in Nat /\ Power[k] >= 1
  BY PowerLaws
<1>1. Truncated(k) = Power[k]
  BY <1>0, LimitIs, Small DEF Truncated
<1> DEFINE l == Log2(Power[k])
<1>2. l \in Nat /\ l < Unit * MaxBlocks
  BY <1>0, LimitIs, LogBelow DEF Limit
<1>3. SizeOf(k) = Unit * Blocks(l)
  BY <1>1 DEF SizeOf
<1> HIDE DEF l
<1>4. Blocks(l) \in Nat /\ Blocks(l) <= MaxBlocks
  BY <1>2, BlocksIs, BlocksAre, SizesAssumption
<1>5. Unit * Blocks(l) \in Nat /\ Unit * Blocks(l) <= Unit * MaxBlocks
  <2>1. Unit \in Nat /\ MaxBlocks \in Nat
    BY SizesAssumption
  <2>2. Blocks(l) * Unit <= MaxBlocks * Unit
    BY <1>4, <2>1, Monotone
  <2> QED BY <1>4, <2>1, <2>2
<1>6. 2^SizeOf(k) \in Nat /\ 2^SizeOf(k) <= Limit
  BY <1>3, <1>5, LimitIs, TwoPower, TwoGrows DEF Limit
<1> QED BY <1>1, <1>2, <1>3, <1>4, <1>5, <1>6 DEF l

(* One word more would not fit in the size of a number of words that is    *)
(* accepted: that is what the check for room of another word is for.       *)
LEMMA NoRoom ==
  ASSUME NEW k \in Nat, Power[k] < Limit, Accepts(k)
  PROVE  2^SizeOf(k) <= Power[k + 1]
<1>1. /\ k + 1 \in Nat /\ Power[k] \in Nat /\ Power[k + 1] \in Nat
      /\ Power[k] >= 1 /\ Power[k] <= Power[k + 1]
  <2>1. k + 1 \in Nat /\ Power[k] < Power[k + 1]
    BY PowerGrows
  <2> QED BY <2>1, PowerLaws
<1>2. /\ Truncated(k) = Power[k] /\ SizeOf(k) = Unit * Blocks(Log2(Power[k]))
      /\ SizeOf(k) \in Nat /\ 2^SizeOf(k) \in Nat /\ 2^SizeOf(k) <= Limit
      /\ Blocks(Log2(Power[k])) \in Nat /\ Log2(Power[k]) \in Nat
  BY SizeIs
<1>3. SUFFICES ASSUME Power[k + 1] < 2^SizeOf(k) PROVE FALSE
  BY <1>1, <1>2
<1>4. Power[k + 1] < Limit
  BY <1>1, <1>2, <1>3, LimitIs
<1>5. Truncated(k + 1) = Power[k + 1] /\ Blocks(Log2(Power[k + 1])) \in Nat
  BY <1>1, <1>4, SizeIs
<1> DEFINE a == Log2(Power[k])
           b == Log2(Power[k + 1])
<1>6. a \in Nat /\ b \in Nat /\ a <= b
  BY <1>1, LogGrows
<1>7. b < Unit * Blocks(a)
  <2>1. Power[k + 1] >= 1
    BY <1>1
  <2> QED BY <1>1, <1>2, <1>3, <2>1, LogBelow
<1>8. Blocks(a) # Blocks(b)
  BY <1>2, <1>5 DEF Accepts
<1> HIDE DEF a, b
<1>9. Blocks(a) \in Nat /\ Blocks(b) \in Nat /\ Blocks(a) <= Blocks(b) /\ Blocks(b) <= Blocks(a)
  BY <1>6, <1>7, BlocksIs, BlocksAre
<1> QED BY <1>8, <1>9

(* The decoder finds how many words fit by counting: it is the number that *)
(* the encoder took.                                                       *)
LEMMA FittingIs ==
  ASSUME NEW k \in Nat, bits \in Nat, Power[k] < 2^bits, 2^bits <= Power[k + 1]
  PROVE  Fitting = k
<1>1. 2^bits \in Nat /\ 2^k \in Nat /\ 2^k <= Power[k] /\ Power[k] \in Nat
  BY TwoPower, PowerIsMore, PowerLaws
<1>2. k \in 0 .. bits
  <2>1. 2^k < 2^bits
    BY <1>1
  <2> QED BY <2>1, TwoGrows
<1>3. ASSUME NEW j \in 0 .. bits, Power[j] < 2^bits, Power[j + 1] >= 2^bits PROVE j = k
  <2>0. ASSUME NEW a \in Nat, NEW b \in Nat, a < b, Power[b] < 2^bits, 2^bits <= Power[a + 1]
        PROVE  FALSE
    <3>1. Power[a + 1] \in Nat /\ Power[b] \in Nat /\ Power[a + 1] <= Power[b]
      <4>1. a + 1 \in Nat /\ (a + 1 = b \/ a + 1 < b)
        BY <2>0
      <4>2. Power[a + 1] \in Nat /\ Power[b] \in Nat
        BY <4>1, PowerLaws
      <4> QED BY <4>1, <4>2, PowerGrows
    <3> QED BY <2>0, <3>1, <1>1
  <2>1. j \in Nat /\ Power[j + 1] \in Nat /\ 2^bits <= Power[j + 1]
    <3>1. j \in Nat /\ j + 1 \in Nat
      BY <1>3
    <3> QED BY <3>1, <1>1, <1>3, PowerLaws
  <2>2. ~(j < k) /\ ~(k < j)
    BY <1>3, <2>0, <2>1
  <2> QED BY <2>1, <2>2
<1>4. Power[k + 1] >= 2^bits
  <2>1. k + 1 \in Nat /\ Power[k + 1] \in Nat
    BY PowerLaws
  <2> QED BY <2>1, <1>1
<1> QED BY <1>2, <1>3, <1>4 DEF Fitting
------------------------------------------------------------------------------
(* What holds throughout.  The cipher is a permutation as far as it was    *)
(* drawn; the size of the secret is that of the number of words.           *)
TypeInv ==
  /\ typed \in [count : 1 .. MaxWords, number : Values]
  /\ bits \in Nat /\ out \in Nat /\ m \in Nat /\ m < 2^bits /\ h \in Nat /\ g \in Nat

CipherInv ==
  /\ cipher \subseteq Nat \X Nat
  /\ phase \in {"checking", "walking"} => \A p \in cipher : p[2] \in Values
  /\ \A p, q \in cipher : p[1] = q[1] <=> p[2] = q[2]

Accepted == Power[typed.count] < Limit /\ Accepts(typed.count)

SizeInv ==
  /\ typed.number < Power[typed.count]
  /\ phase = "checking" => m = 0
  /\ phase \notin {"checking", "refused"} => Accepted /\ bits = SizeOf(typed.count)

(* A chain of the cipher: from the words through values that are none, one *)
(* after the other and never the same twice.                               *)
IsChain(c, n, start, pairs) ==
  /\ c \in [0 .. n -> Values] /\ c[0] = start.number
  /\ \A j \in 1 .. n : c[j] >= Power[start.count] /\ <<c[j - 1], c[j]>> \in pairs
  /\ \A i, j \in 0 .. n : c[i] = c[j] => i = j

(* The walk is at the end of the chain, or as many steps from its start as *)
(* there are to go back, or somewhere on it.                               *)
IsAt(j, n, now, steps) ==
  /\ now \in {"walking", "counted", "select"} => j = n
  /\ now = "back" => steps <= j

ChainInv ==
  phase \in {"walking", "counted", "select", "back", "stored"} /\ Fits(typed.count) =>
    \E n \in Nat : \E c : \E j \in 0 .. n :
       IsChain(c, n, typed, cipher) /\ m <= n /\ out = c[j] /\ IsAt(j, n, phase, g)

DivisorInv ==
  phase = "select" =>
    /\ \E memory \in Memory : d = DivisorOf(m + 1, memory)
    /\ h = Quotient(2^bits, d)

WordsInv == Fits(typed.count) => SameWords

DicewareInv == TypeInv /\ CipherInv /\ SizeInv /\ ChainInv /\ DivisorInv /\ WordsInv
------------------------------------------------------------------------------
LEMMA InitHolds == ASSUME Init PROVE DicewareInv
<1>1. TypeInv
  BY DEF Init, TypeInv
<1>2. CipherInv /\ SizeInv
  BY DEF Init, CipherInv, SizeInv
<1>3. ChainInv /\ DivisorInv /\ WordsInv
  BY DEF Init, ChainInv, DivisorInv, WordsInv, SameWords
<1> QED BY <1>1, <1>2, <1>3 DEF DicewareInv

LEMMA TypedIs ==
  ASSUME TypeInv
  PROVE  /\ typed.count \in Nat /\ typed.number \in Values /\ typed.number \in Nat
         /\ typed = [count |-> typed.count, number |-> typed.number]
         /\ Power[typed.count] \in Nat /\ Power[typed.count] >= 1
         /\ 2^bits \in Nat /\ 2^bits >= 1
<1>1. typed.count \in Nat /\ typed.number \in Values /\ typed.number \in Nat
  <2>1. MaxWords \in Nat /\ Values \subseteq Nat
    BY SizesAssumption
  <2>2. typed.count \in 1 .. MaxWords /\ typed.number \in Values
    BY DEF TypeInv
  <2>3. \A k \in 1 .. MaxWords : k \in Nat
    BY <2>1
  <2> QED BY <2>1, <2>2, <2>3, Zenon
<1>2. typed = [count |-> typed.count, number |-> typed.number]
  BY DEF TypeInv
<1>3. bits \in Nat
  BY DEF TypeInv
<1> QED BY <1>1, <1>2, <1>3, PowerLaws, TwoPower

(* The number of the words that were typed is stored as it is. *)
LEMMA StoredIs ==
  ASSUME NEW x \in Nat, NEW size \in Nat
  PROVE  Stored(x, size) \in Nat /\ (x < 2^size => Stored(x, size) = x)
<1>1. WordCount \in Nat /\ WordCount >= 1 /\ 2^size \in Nat /\ 2^size >= 1
  BY SizesAssumption, TwoPower
<1> DEFINE r == x % WordCount
<1>2. r \in 0 .. WordCount - 1 /\ r <= x
  <2>1. /\ x \div WordCount \in Nat /\ r \in 0 .. WordCount - 1
        /\ x = (x \div WordCount) * WordCount + (x % WordCount)
    <3>1. x \in Int
      OBVIOUS
    <3>2. /\ x \div WordCount \in Int /\ x % WordCount \in 0 .. WordCount - 1
          /\ x = (x \div WordCount) * WordCount + (x % WordCount)
          /\ x \in Nat => x \div WordCount \in Nat
      BY ONLY <3>1, <1>1, Quotients, Zenon
    <3> QED BY <3>2
  <2> DEFINE q == (x \div WordCount) * WordCount
  <2>2. q \in Nat /\ x = q + r
    BY <2>1, <1>1
  <2> HIDE DEF q, r
  <2> QED BY <2>1, <2>2
<1> HIDE DEF r
<1>3. x - r \in Nat
  BY <1>2
<1> DEFINE z == IF x - r < 2^size THEN x ELSE x - r
<1>4. z \in Nat /\ Stored(x, size) = z % 2^size /\ (x < 2^size => z = x)
  BY <1>1, <1>2, <1>3 DEF Stored, r
<1> HIDE DEF z
<1>5. z % 2^size \in Nat
  BY <1>1, <1>4
<1> QED BY <1>1, <1>4, <1>5, Small

LEMMA CheckHolds == ASSUME DicewareInv, Check PROVE DicewareInv'
<1> DEFINE k == typed.count
<1>1. /\ phase = "checking" /\ UNCHANGED <<typed, cipher, m, h, d, g, words>>
      /\ \/ /\ phase' = "walking" /\ Accepted
            /\ bits' = SizeOf(k) /\ out' = Stored(typed.number, SizeOf(k))
         \/ phase' = "refused" /\ UNCHANGED <<bits, out>>
  BY DEF Check, Accepted
<1>2. TypeInv /\ CipherInv /\ SizeInv
  BY DEF DicewareInv
<1>3. k \in Nat /\ typed.number \in Nat /\ typed.number < Power[k] /\ Power[k] \in Nat
  BY <1>2, TypedIs DEF SizeInv
<1>4. CipherInv' /\ SizeInv'
  BY <1>1, <1>2 DEF CipherInv, SizeInv, Accepted
<1>5. DivisorInv' /\ WordsInv'
  BY <1>1 DEF DivisorInv, WordsInv, SameWords
<1>6. CASE phase' = "refused" /\ UNCHANGED <<bits, out>>
  <2>1. TypeInv' /\ ChainInv'
    BY <1>1, <1>2, <1>6 DEF TypeInv, ChainInv
  <2> QED BY <2>1, <1>4, <1>5 DEF DicewareInv
<1>7. CASE /\ phase' = "walking" /\ Accepted
           /\ bits' = SizeOf(k) /\ out' = Stored(typed.number, SizeOf(k))
  <2>1. SizeOf(k) \in Nat /\ 2^SizeOf(k) \in Nat
    BY <1>3, <1>7, SizeIs DEF Accepted
  <2>2. TypeInv'
    <3>1. out' \in Nat /\ bits' \in Nat /\ 2^bits' = 2^SizeOf(k)
      BY <1>3, <1>7, <2>1, StoredIs
    <3>2. m' = 0 /\ m' < 2^bits'
      BY <1>1, <1>2, <1>7, <2>1, TwoPower DEF SizeInv
    <3> QED BY <1>1, <1>2, <3>1, <3>2 DEF TypeInv
  <2>3. ASSUME Fits(k)
        PROVE  \E n \in Nat : \E c : \E j \in 0 .. n :
                 IsChain(c, n, typed', cipher') /\ m' <= n /\ out' = c[j] /\ IsAt(j, n, phase', g')
    <3> DEFINE c == [j \in 0 .. 0 |-> typed.number]
    <3>1. out' = typed.number
      <4>1. typed.number < 2^SizeOf(k)
        BY <1>3, <2>1, <2>3 DEF Fits
      <4> QED BY <1>3, <1>7, <2>1, <4>1, StoredIs
    <3>2. IsChain(c, 0, typed', cipher')
      <4>1. typed' = typed /\ typed.number \in Values
        BY <1>1, <1>2, TypedIs
      <4> QED BY <4>1 DEF IsChain
    <3>3. m' = 0
      BY <1>1, <1>2 DEF SizeInv
    <3>4. IsAt(0, 0, phase', g')
      BY <1>7 DEF IsAt
    <3>5. c[0] = out' /\ 0 \in 0 .. 0 /\ m' <= 0
      BY <3>1, <3>3
    <3> HIDE DEF c
    <3> QED BY <3>2, <3>4, <3>5
  <2>4. ChainInv'
    BY <2>3, <1>1, <1>7 DEF ChainInv, Fits
  <2> QED BY <2>2, <2>4, <1>4, <1>5 DEF DicewareInv
<1> QED BY <1>1, <1>6, <1>7

(* Where the encoder compares: all the numbers of the words are words. *)
LEMMA MaxIs ==
  ASSUME TypeInv, Power[typed.count] < 2^bits
  PROVE  Max = Power[typed.count] - 1
<1>1. /\ Power[typed.count] \in Nat /\ Power[typed.count] >= 1 /\ 2^bits \in Nat
  BY TypedIs
<1> DEFINE x == Power[typed.count] - 1
<1>2. x \in Nat /\ x < 2^bits
  BY <1>1
<1>3. x % 2^bits = x
  <2> HIDE DEF x
  <2> QED BY <1>1, <1>2, Small
<1> QED BY <1>3 DEF Max

(* What the cipher leads to is added at the end of a chain, when it is no  *)
(* words: it is not yet on the chain, as the cipher is a permutation.      *)
LEMMA ChainGrows ==
  ASSUME CipherInv, TypeInv, SizeInv, NEW n \in Nat, NEW c, IsChain(c, n, typed, cipher),
         NEW y \in Values, <<c[n], y>> \in cipher', cipher \subseteq cipher', CipherInv',
         y >= Power[typed.count]
  PROVE  \E b : b[n + 1] = y /\ IsChain(b, n + 1, typed, cipher')
<1> DEFINE b == [j \in 0 .. n + 1 |-> IF j = n + 1 THEN y ELSE c[j]]
<1>1. b \in [0 .. n + 1 -> Values] /\ b[0] = typed.number /\ b[n + 1] = y
  BY DEF IsChain
<1>2. ASSUME NEW j \in 1 .. n + 1
      PROVE  b[j] >= Power[typed.count] /\ <<b[j - 1], b[j]>> \in cipher'
  <2>1. CASE j = n + 1
    <3>1. b[j] = y /\ b[j - 1] = c[n]
      BY <2>1
    <3> HIDE DEF b
    <3> QED BY <3>1
  <2>2. CASE j \in 1 .. n
    <3>1. b[j] = c[j] /\ b[j - 1] = c[j - 1]
      BY <2>2
    <3>2. c[j] >= Power[typed.count] /\ <<c[j - 1], c[j]>> \in cipher
      BY <2>2 DEF IsChain
    <3> HIDE DEF b
    <3> QED BY <3>1, <3>2
  <2> QED BY <2>1, <2>2
<1>3. ASSUME NEW i \in 0 .. n PROVE c[i] # y
  <2>1. CASE i = 0
    <3>1. typed.number \in Nat /\ Power[typed.count] \in Nat /\ typed.number < Power[typed.count]
      BY TypedIs DEF SizeInv
    <3>2. y \in Nat /\ c[0] = typed.number
      BY SizesAssumption DEF IsChain
    <3> QED BY <2>1, <3>1, <3>2
  <2>2. CASE i # 0
    <3>1. i \in 1 .. n /\ i - 1 \in 0 .. n /\ n \in 0 .. n /\ i - 1 # n
      BY <2>2
    <3>2. <<c[i - 1], c[i]>> \in cipher' /\ (c[i - 1] = c[n] => i - 1 = n)
      BY <3>1 DEF IsChain
    <3>3. c[i] = y => c[i - 1] = c[n]
      <4>1. \A p, q \in cipher' : p[1] = q[1] <=> p[2] = q[2]
        BY DEF CipherInv
      <4> DEFINE p == <<c[i - 1], c[i]>>
                 q == <<c[n], y>>
      <4>2. p[1] = q[1] <=> p[2] = q[2]
        <5> HIDE DEF p, q
        <5>1. p \in cipher' /\ q \in cipher'
          BY <3>2 DEF p, q
        <5> QED BY <4>1, <5>1
      <4> QED BY <4>2
    <3> QED BY <3>1, <3>2, <3>3
  <2> QED BY <2>1, <2>2
<1>4. ASSUME NEW i \in 0 .. n + 1, NEW j \in 0 .. n + 1, b[i] = b[j] PROVE i = j
  <2>1. CASE i = n + 1 /\ j = n + 1
    BY <2>1
  <2>2. CASE i = n + 1 /\ j \in 0 .. n
    BY <2>2, <1>3, <1>4
  <2>3. CASE j = n + 1 /\ i \in 0 .. n
    BY <2>3, <1>3, <1>4
  <2>4. CASE i \in 0 .. n /\ j \in 0 .. n
    BY <2>4, <1>4 DEF IsChain
  <2> QED BY <2>1, <2>2, <2>3, <2>4
<1> HIDE DEF b
<1>5. IsChain(b, n + 1, typed, cipher')
  BY <1>1, <1>2, <1>4 DEF IsChain
<1> QED BY <1>1, <1>5

LEMMA ChainStays ==
  ASSUME NEW n \in Nat, NEW c, NEW pairs, NEW more, pairs \subseteq more,
         IsChain(c, n, typed, pairs)
  PROVE  IsChain(c, n, typed, more)
BY DEF IsChain

(* One step of the walk, to a value that the cipher leads to, whether that *)
(* was drawn before or is drawn now.                                       *)
LEMMA EncryptedHolds ==
  ASSUME DicewareInv, phase = "walking", NEW y \in Values, Encrypted(y),
         UNCHANGED <<typed, bits, h, d, g, words>>, CipherInv'
  PROVE  DicewareInv'
<1>0. TypeInv /\ CipherInv /\ SizeInv /\ ChainInv
  BY DEF DicewareInv
<1>1. cipher' = cipher \cup {<<out, y>>}
  BY DEF Encrypted
<1>2. \/ /\ Outside(y, Max) /\ out' = y /\ m' = (m + 1) % 2^bits /\ phase' = "walking"
      \/ /\ ~Outside(y, Max) /\ phase' \in {"stored", "counted"} /\ UNCHANGED <<out, m>>
  BY DEF Encrypted
<1>3. /\ m \in Nat /\ out \in Nat /\ y \in Nat /\ 2^bits \in Nat /\ 2^bits >= 1
      /\ (m + 1) % 2^bits \in Nat /\ (m + 1) % 2^bits <= m + 1
  <2>1. m \in Nat /\ out \in Nat /\ y \in Nat /\ 2^bits \in Nat /\ 2^bits >= 1
    BY <1>0, TypedIs, SizesAssumption DEF TypeInv
  <2> DEFINE z == m + 1
             w == 2^bits
  <2>2. z % w \in Nat /\ z % w <= z
    <3>1. z \in Nat /\ w \in Nat /\ w >= 1
      BY <2>1
    <3> HIDE DEF z, w
    <3>2. z % w \in 0 .. w - 1
      BY <3>1
    <3>3. CASE z < w
      BY <3>1, <3>3, Small
    <3>4. CASE ~(z < w)
      BY <3>1, <3>2, <3>4
    <3> QED BY <3>3, <3>4
  <2> QED BY <2>1, <2>2
<1>4. TypeInv'
  BY <1>0, <1>2, <1>3 DEF TypeInv
<1>5. SizeInv'
  BY <1>0, <1>2 DEF SizeInv, Accepted
<1>6. DivisorInv' /\ WordsInv'
  BY <1>2 DEF DivisorInv, WordsInv, SameWords
<1>7. ASSUME Fits(typed.count)
      PROVE  \E n \in Nat : \E c : \E j \in 0 .. n :
               IsChain(c, n, typed', cipher') /\ m' <= n /\ out' = c[j] /\ IsAt(j, n, phase', g')
  <2>1. PICK n, c : n \in Nat /\ \E j \in 0 .. n :
               IsChain(c, n, typed, cipher) /\ m <= n /\ out = c[j] /\ IsAt(j, n, phase, g)
    BY <1>0, <1>7 DEF ChainInv
  <2> n \in Nat
    BY <2>1
  <2>2. IsChain(c, n, typed, cipher) /\ m <= n /\ out = c[n] /\ n \in 0 .. n
    BY <2>1 DEF IsAt
  <2>3. Power[typed.count] < 2^bits
    BY <1>0, <1>7 DEF SizeInv, Fits
  <2>4. Outside(y, Max) <=> y >= Power[typed.count]
    <3>1. Max = Power[typed.count] - 1 /\ Power[typed.count] \in Nat
      BY <1>0, <2>3, MaxIs, TypedIs
    <3> QED BY <3>1, <1>3 DEF Outside
  <2>5. CASE phase' = "walking"
    <3>1. Outside(y, Max) /\ out' = y /\ m' = (m + 1) % 2^bits
      BY <1>2, <2>5
    <3>2. PICK b : b[n + 1] = y /\ IsChain(b, n + 1, typed, cipher')
      BY <1>0, <1>1, <2>2, <2>4, <3>1, ChainGrows
    <3>3. m' <= n + 1 /\ n + 1 \in Nat /\ n + 1 \in 0 .. n + 1
      BY <1>3, <2>2, <3>1
    <3>4. IsAt(n + 1, n + 1, phase', g')
      BY <2>5 DEF IsAt
    <3>5. IsChain(b, n + 1, typed', cipher') /\ out' = b[n + 1]
      BY <3>1, <3>2
    <3> QED BY <3>3, <3>4, <3>5
  <2>6. CASE phase' # "walking"
    <3>1. phase' \in {"stored", "counted"} /\ out' = out /\ m' = m
      BY <1>2, <2>6
    <3>2. IsChain(c, n, typed', cipher')
      BY <1>1, <2>2, ChainStays
    <3>3. IsAt(n, n, phase', g')
      BY <3>1 DEF IsAt
    <3> QED BY <2>2, <3>1, <3>2, <3>3
  <2> QED BY <2>5, <2>6
<1>8. ChainInv'
  BY <1>7 DEF ChainInv
<1> QED BY <1>4, <1>5, <1>6, <1>8 DEF DicewareInv

LEMMA EncryptHolds == ASSUME DicewareInv, Encrypt PROVE DicewareInv'
<1>0. TypeInv /\ CipherInv
  BY DEF DicewareInv
<1>1. phase = "walking" /\ UNCHANGED <<typed, bits, h, d, g, words>>
  BY DEF Encrypt
<1>2. CASE \E p \in cipher : p[1] = out
  <2>1. PICK p \in cipher : p[1] = out /\ Encrypted(p[2])
    BY <1>2 DEF Encrypt
  <2>2. p[2] \in Values /\ p = <<out, p[2]>>
    BY <1>0, <1>1, <2>1 DEF CipherInv
  <2>3. cipher' = cipher
    BY <2>1, <2>2 DEF Encrypted
  <2>4. CipherInv'
    BY <1>0, <1>1, <2>3 DEF CipherInv
  <2> QED BY <1>1, <2>1, <2>2, <2>4, EncryptedHolds
<1>3. CASE ~\E p \in cipher : p[1] = out
  <2>1. PICK y \in Images : Encrypted(y)
    BY <1>3 DEF Encrypt
  <2>2. y \in Values /\ (\A p \in cipher : p[2] # y) /\ cipher' = cipher \cup {<<out, y>>}
    BY <2>1 DEF Images, Encrypted
  <2>3. CipherInv'
    <3>1. out \in Nat
      BY <1>0 DEF TypeInv
    <3>2. cipher' \subseteq Nat \X Nat /\ \A p \in cipher' : p[2] \in Values
      <4>1. y \in Nat
        BY <2>2, SizesAssumption
      <4> QED BY <1>0, <1>1, <2>2, <3>1, <4>1 DEF CipherInv
    <3>3. ASSUME NEW p \in cipher', NEW q \in cipher' PROVE p[1] = q[1] <=> p[2] = q[2]
      <4>1. CASE p \in cipher /\ q \in cipher
        BY <1>0, <4>1 DEF CipherInv
      <4>2. CASE p = <<out, y>> /\ q \in cipher
        BY <1>3, <2>2, <4>2
      <4>3. CASE q = <<out, y>> /\ p \in cipher
        BY <1>3, <2>2, <4>3
      <4>4. CASE p = <<out, y>> /\ q = <<out, y>>
        BY <4>4
      <4> QED BY <2>2, <4>1, <4>2, <4>3, <4>4
    <3> QED BY <3>2, <3>3 DEF CipherInv
  <2> QED BY <1>1, <2>1, <2>2, <2>3, EncryptedHolds
<1> QED BY <1>2, <1>3

LEMMA QuotientType ==
  ASSUME NEW x \in Nat, NEW l \in Nat, NEW pure \in BOOLEAN, NEW value \in Nat, value >= 1
  PROVE  Quotient(x, [log2 |-> l, pure |-> pure, value |-> value]) \in Nat
<1> DEFINE divisor == [log2 |-> l, pure |-> pure, value |-> value]
           s == Shift(divisor)
<1>1. s \in Nat
  BY SizesAssumption DEF Shift
<1> HIDE DEF s
<1>2. 2^s \in Nat /\ 2^s >= 1
  BY <1>1, TwoPower
<1> DEFINE w == 2^s
<1>3. x \div value \in Nat /\ x \div w \in Nat
  <2>1. w \in Nat /\ w >= 1
    BY <1>2
  <2> HIDE DEF w
  <2> QED BY <2>1
<1>4. Quotient(x, divisor) = IF pure THEN x \div w ELSE x \div value
  BY DEF Quotient, s
<1> HIDE DEF w
<1> QED BY <1>3, <1>4

LEMMA DivideHolds == ASSUME DicewareInv, Divide PROVE DicewareInv'
<1>0. TypeInv /\ CipherInv /\ SizeInv /\ ChainInv
  BY DEF DicewareInv
<1>1. phase = "counted" /\ UNCHANGED <<typed, cipher, bits, out, m, g, words>>
  BY DEF Divide
<1>2. CipherInv' /\ WordsInv' /\ phase' \in {"abort", "select"}
  BY <1>0, <1>1 DEF CipherInv, WordsInv, SameWords, Divide
<1>3. SizeInv'
  BY <1>0, <1>1, <1>2 DEF SizeInv, Accepted
<1>4. ChainInv'
  BY <1>0, <1>1, <1>2 DEF ChainInv, IsAt
<1>5. CASE phase' = "abort"
  <2>1. TypeInv' /\ DivisorInv'
    BY <1>0, <1>1, <1>5 DEF Divide, TypeInv, DivisorInv
  <2> QED BY <2>1, <1>2, <1>3, <1>4 DEF DicewareInv
<1>6. CASE phase' = "select"
  <2>1. PICK memory \in Memory :
          /\ d' = DivisorOf(Choices, memory)
          /\ h' = Quotient(2^bits, DivisorOf(Choices, memory))
    BY <1>6 DEF Divide
  <2> DEFINE pure == Popcnt(m + 1, memory) = 1
  <2>2. /\ d' = [log2 |-> Log2(m + 1), pure |-> pure, value |-> m + 1]
        /\ pure \in BOOLEAN /\ h' = Quotient(2^bits, d')
    BY <2>1 DEF DivisorOf, Choices
  <2> HIDE DEF pure
  <2>3. m + 1 \in Nat /\ m + 1 >= 1 /\ 2^bits \in Nat /\ Log2(m + 1) \in Nat
    <3>1. m + 1 \in Nat /\ m + 1 >= 1
      BY <1>0 DEF TypeInv
    <3> QED BY <3>1, <1>0, TypedIs, Log2Is
  <2>4. h' \in Nat
    BY <2>2, <2>3, QuotientType
  <2>5. TypeInv'
    BY <1>0, <1>1, <2>4 DEF TypeInv
  <2>6. DivisorInv'
    <3>1. d' = DivisorOf(m + 1, memory)'
      BY <1>1, <2>1 DEF Choices, DivisorOf, Popcnt
    <3> QED BY <1>1, <2>2, <3>1 DEF DivisorInv
  <2> QED BY <2>5, <2>6, <1>2, <1>3, <1>4 DEF DicewareInv
<1> QED BY <1>2, <1>5, <1>6

LEMMA SelectHolds == ASSUME DicewareInv, Select PROVE DicewareInv'
<1>0. TypeInv /\ CipherInv /\ SizeInv /\ ChainInv
  BY DEF DicewareInv
<1>1. phase = "select" /\ UNCHANGED <<typed, cipher, bits, out, m, h, d, words>>
  BY DEF Select
<1>2. \/ phase' = "abort" /\ g' = g
      \/ phase' = "fatal" /\ g' = 0
      \/ phase' = "back" /\ g' \in Nat /\ g' <= m
  <2>1. PICK memory \in Memory :
          \/ phase' = "abort" /\ g' = g
          \/ /\ ~DivisorFails(h, memory)
             /\ \E quotient \in 0 .. Quotient(2^bits - 1, DivisorOf(h, memory)) :
                  /\ phase' = IF quotient > m THEN "fatal" ELSE "back"
                  /\ g' = IF quotient > m THEN 0 ELSE quotient
    BY DEF Select
  <2>2. CASE ~DivisorFails(h, memory)
    <3>1. h \in Nat /\ h >= 1
      BY <1>0, <2>2 DEF TypeInv, DivisorFails
    <3>2. Log2(h) \in Nat
      BY <3>1, Log2Is
    <3>3. 2^bits - 1 \in Nat
      BY <1>0, TypedIs
    <3>4. Quotient(2^bits - 1, DivisorOf(h, memory)) \in Nat
      BY <3>1, <3>2, <3>3, QuotientType DEF DivisorOf
    <3>5. m \in Nat
      BY <1>0 DEF TypeInv
    <3> DEFINE last == Quotient(2^bits - 1, DivisorOf(h, memory))
    <3>6. CASE ~(phase' = "abort" /\ g' = g)
      <4>1. PICK quotient \in 0 .. last :
              /\ phase' = IF quotient > m THEN "fatal" ELSE "back"
              /\ g' = IF quotient > m THEN 0 ELSE quotient
        BY <2>1, <3>6
      <4>2. last \in Nat
        BY <3>4
      <4> HIDE DEF last
      <4>3. quotient \in Nat
        BY <4>1, <4>2
      <4> QED BY <4>1, <4>3, <3>5
    <3> QED BY <3>6
  <2> QED BY <2>1, <2>2
<1>3. TypeInv' /\ CipherInv'
  BY <1>0, <1>1, <1>2 DEF TypeInv, CipherInv
<1>4. SizeInv' /\ DivisorInv' /\ WordsInv'
  BY <1>0, <1>1, <1>2 DEF SizeInv, Accepted, DivisorInv, WordsInv, SameWords
<1>5. ASSUME phase' = "back", Fits(typed.count)
      PROVE  \E n \in Nat : \E c : \E j \in 0 .. n :
               IsChain(c, n, typed', cipher') /\ m' <= n /\ out' = c[j] /\ IsAt(j, n, phase', g')
  <2>1. PICK n, c : n \in Nat /\ \E j \in 0 .. n :
               IsChain(c, n, typed, cipher) /\ m <= n /\ out = c[j] /\ IsAt(j, n, phase, g)
    BY <1>0, <1>1, <1>5 DEF ChainInv
  <2> n \in Nat
    BY <2>1
  <2>2. IsChain(c, n, typed', cipher') /\ m <= n /\ out = c[n] /\ n \in 0 .. n
    BY <1>1, <2>1 DEF IsAt
  <2>3. g' \in Nat /\ g' <= n
    BY <1>0, <1>2, <1>5, <2>2 DEF TypeInv
  <2>4. IsAt(n, n, phase', g')
    BY <1>5, <2>3 DEF IsAt
  <2> QED BY <1>1, <2>2, <2>4
<1>6. ChainInv'
  BY <1>1, <1>2, <1>5 DEF ChainInv
<1> QED BY <1>3, <1>4, <1>6 DEF DicewareInv

(* Going back goes back along the chain, and keeps the cipher one to one.  *)
LEMMA DecryptHolds ==
  ASSUME TypeInv, CipherInv, phase \notin {"checking", "walking"}, Decrypt, phase' \notin {"checking", "walking"}
  PROVE  /\ out' \in Nat /\ CipherInv' /\ cipher \subseteq cipher'
         /\ \A x : <<x, out>> \in cipher => out' = x
<1>1. PICK x \in Sources : out' = x /\ cipher' = cipher \cup {<<x, out>>}
  BY DEF Decrypt
<1> DEFINE drawn == {p \in cipher : p[2] = out}
<1>2. CASE drawn # {}
  <2>1. PICK p \in cipher : p[2] = out /\ p[1] = x
    BY <1>2 DEF Sources
  <2>2. p = <<x, out>> /\ x \in Nat
    BY <2>1 DEF CipherInv
  <2>3. cipher' = cipher
    BY <1>1, <2>1, <2>2
  <2>4. ASSUME NEW y, <<y, out>> \in cipher PROVE y = x
    <3> DEFINE q == <<y, out>>
    <3>1. q[1] = y /\ q[2] = out /\ q \in cipher
      BY <2>4
    <3> HIDE DEF q
    <3>2. p[1] = q[1] <=> p[2] = q[2]
      BY <2>1, <3>1 DEF CipherInv
    <3> QED BY <2>1, <3>1, <3>2
  <2>5. CipherInv'
    BY <2>3 DEF CipherInv
  <2> QED BY <1>1, <2>2, <2>3, <2>4, <2>5
<1>3. CASE drawn = {}
  <2>1. x \in Values /\ x \in Nat /\ \A p \in cipher : p[1] # x /\ p[2] # out
    BY <1>3, SizesAssumption DEF Sources
  <2>2. cipher' \subseteq Nat \X Nat
    BY <1>1, <2>1 DEF CipherInv, TypeInv
  <2>3. ASSUME NEW p \in cipher', NEW q \in cipher' PROVE p[1] = q[1] <=> p[2] = q[2]
    <3>1. CASE p \in cipher /\ q \in cipher
      BY <3>1 DEF CipherInv
    <3>2. CASE p = <<x, out>> /\ q \in cipher
      BY <2>1, <3>2
    <3>3. CASE q = <<x, out>> /\ p \in cipher
      BY <2>1, <3>3
    <3>4. CASE p = <<x, out>> /\ q = <<x, out>>
      BY <3>4
    <3> QED BY <1>1, <3>1, <3>2, <3>3, <3>4
  <2>4. CipherInv'
    BY <2>2, <2>3 DEF CipherInv
  <2>5. ASSUME NEW y, <<y, out>> \in cipher PROVE FALSE
    <3> DEFINE q == <<y, out>>
    <3>1. q[2] = out /\ q \in cipher
      BY <2>5
    <3> QED BY <2>1, <3>1
  <2> QED BY <1>1, <2>1, <2>4, <2>5
<1> QED BY <1>2, <1>3

LEMMA BackHolds == ASSUME DicewareInv, Back PROVE DicewareInv'
<1>0. TypeInv /\ CipherInv /\ SizeInv /\ ChainInv
  BY DEF DicewareInv
<1>1. phase = "back" /\ UNCHANGED <<typed, bits, m, h, d, words>> /\ phase' \in {"back", "stored"}
  BY DEF Back
<1>2. SizeInv' /\ DivisorInv' /\ WordsInv'
  BY <1>0, <1>1 DEF SizeInv, Accepted, DivisorInv, WordsInv, SameWords
<1>3. CASE g = 0
  <2>1. phase' = "stored" /\ UNCHANGED <<cipher, out, g>>
    BY <1>3 DEF Back
  <2>2. TypeInv' /\ CipherInv' /\ ChainInv'
    BY <1>0, <1>1, <2>1 DEF TypeInv, CipherInv, ChainInv, IsAt
  <2> QED BY <1>2, <2>2 DEF DicewareInv
<1>4. CASE g # 0
  <2>1. Decrypt /\ g' = g - 1 /\ phase' = "back"
    BY <1>1, <1>4 DEF Back
  <2>2. /\ out' \in Nat /\ CipherInv' /\ cipher \subseteq cipher'
        /\ \A x : <<x, out>> \in cipher => out' = x
    BY <1>0, <1>1, <2>1, DecryptHolds
  <2>3. TypeInv'
    BY <1>0, <1>1, <1>4, <2>1, <2>2 DEF TypeInv
  <2>4. ASSUME Fits(typed.count)
        PROVE  \E n \in Nat : \E c : \E j \in 0 .. n :
                 IsChain(c, n, typed', cipher') /\ m' <= n /\ out' = c[j] /\ IsAt(j, n, phase', g')
    <3>1a. PICK n, c : n \in Nat /\ \E j \in 0 .. n :
                 IsChain(c, n, typed, cipher) /\ m <= n /\ out = c[j] /\ IsAt(j, n, phase, g)
      BY <1>0, <1>1, <2>4 DEF ChainInv
    <3> n \in Nat
      BY <3>1a
    <3>1. PICK j \in 0 .. n :
                 IsChain(c, n, typed, cipher) /\ m <= n /\ out = c[j] /\ IsAt(j, n, phase, g)
      BY <3>1a
    <3>2. g \in Nat /\ g <= j /\ j \in Nat
      BY <1>0, <1>1, <3>1 DEF TypeInv, IsAt
    <3>3. j \in 1 .. n /\ j - 1 \in 0 .. n /\ g' <= j - 1
      BY <1>4, <2>1, <3>2
    <3>4. out' = c[j - 1]
      BY <2>2, <3>1, <3>3 DEF IsChain
    <3>5. IsChain(c, n, typed', cipher')
      BY <1>1, <2>2, <3>1, ChainStays
    <3>6. IsAt(j - 1, n, phase', g')
      BY <2>1, <3>3 DEF IsAt
    <3> QED BY <1>1, <3>1, <3>3, <3>4, <3>5, <3>6
  <2>5. ChainInv'
    BY <1>1, <2>4 DEF ChainInv
  <2> QED BY <1>2, <2>2, <2>3, <2>5 DEF DicewareInv
<1> QED BY <1>3, <1>4

LEMMA DecodeHolds == ASSUME DicewareInv, Decode PROVE DicewareInv'
<1>0. TypeInv /\ CipherInv /\ SizeInv /\ ChainInv
  BY DEF DicewareInv
<1> DEFINE k == typed.count
<1>1. /\ phase = "stored" /\ UNCHANGED <<typed, bits, m, h, d, g>>
      /\ \/ Outside(out, Largest) /\ Decrypt /\ UNCHANGED <<phase, words>>
         \/ /\ ~Outside(out, Largest) /\ words' = [count |-> Fitting, number |-> out]
            /\ phase' = "decoded" /\ UNCHANGED <<cipher, out>>
  BY DEF Decode
<1>2. SizeInv' /\ DivisorInv'
  BY <1>0, <1>1 DEF SizeInv, Accepted, DivisorInv
<1>3. ASSUME Fits(k) PROVE Fitting = k /\ Largest = Power[k] - 1 /\ Power[k] \in Nat
  <2>1. k \in Nat /\ Power[k] \in Nat /\ bits \in Nat
    BY <1>0, TypedIs DEF TypeInv
  <2>2. bits = SizeOf(k) /\ Power[k] < Limit /\ Accepts(k)
    BY <1>0, <1>1 DEF SizeInv, Accepted
  <2>3. Power[k] < 2^bits /\ 2^bits <= Power[k + 1]
    BY <1>3, <2>1, <2>2, NoRoom DEF Fits
  <2>4. Fitting = k
    BY <2>1, <2>3, FittingIs
  <2> QED BY <2>1, <2>4 DEF Largest
<1>4. ASSUME Fits(k)
      PROVE  \E n \in Nat : \E c : \E j \in 0 .. n :
               /\ IsChain(c, n, typed, cipher) /\ m <= n /\ out = c[j]
               /\ Outside(out, Largest) => j # 0
               /\ ~Outside(out, Largest) => j = 0
  <2>1a. PICK n, c : n \in Nat /\ \E j \in 0 .. n :
               IsChain(c, n, typed, cipher) /\ m <= n /\ out = c[j] /\ IsAt(j, n, phase, g)
    BY <1>0, <1>1, <1>4 DEF ChainInv
  <2> n \in Nat
    BY <2>1a
  <2>1. PICK j \in 0 .. n :
               IsChain(c, n, typed, cipher) /\ m <= n /\ out = c[j] /\ IsAt(j, n, phase, g)
    BY <2>1a
  <2>2. /\ out \in Nat /\ Power[k] \in Nat /\ typed.number \in Nat /\ typed.number < Power[k]
        /\ Outside(out, Largest) <=> out > Power[k] - 1
    BY <1>0, <1>3, <1>4, TypedIs DEF TypeInv, SizeInv, Outside
  <2>3. j = 0 => out < Power[k]
    BY <2>1, <2>2 DEF IsChain
  <2>4. j # 0 => out >= Power[k]
    <3>1. j # 0 => j \in 1 .. n
      OBVIOUS
    <3> QED BY <2>1, <3>1 DEF IsChain
  <2> QED BY <2>1, <2>2, <2>3, <2>4
<1>5. CASE Outside(out, Largest) /\ Decrypt /\ UNCHANGED <<phase, words>>
  <2>1. /\ out' \in Nat /\ CipherInv' /\ cipher \subseteq cipher'
        /\ \A x : <<x, out>> \in cipher => out' = x
    BY <1>0, <1>1, <1>5, DecryptHolds
  <2>2. TypeInv' /\ WordsInv'
    BY <1>0, <1>1, <1>5, <2>1 DEF TypeInv, WordsInv, SameWords
  <2>3. ASSUME Fits(k)
        PROVE  \E n \in Nat : \E c : \E j \in 0 .. n :
                 IsChain(c, n, typed', cipher') /\ m' <= n /\ out' = c[j] /\ IsAt(j, n, phase', g')
    <3>1a. PICK n, c : n \in Nat /\ \E j \in 0 .. n :
                 IsChain(c, n, typed, cipher) /\ m <= n /\ out = c[j] /\ j # 0
      BY <1>4, <1>5, <2>3
    <3> n \in Nat
      BY <3>1a
    <3>1. PICK j \in 0 .. n :
                 IsChain(c, n, typed, cipher) /\ m <= n /\ out = c[j] /\ j # 0
      BY <3>1a
    <3>2. j \in 1 .. n /\ j - 1 \in 0 .. n
      BY <3>1
    <3>3. out' = c[j - 1]
      BY <2>1, <3>1, <3>2 DEF IsChain
    <3>4. IsChain(c, n, typed', cipher')
      BY <1>1, <2>1, <3>1, ChainStays
    <3>5. IsAt(j - 1, n, phase', g')
      BY <1>1, <1>5 DEF IsAt
    <3> QED BY <1>1, <3>1, <3>2, <3>3, <3>4, <3>5
  <2>4. ChainInv'
    BY <1>1, <2>3 DEF ChainInv
  <2> QED BY <1>2, <2>1, <2>2, <2>4 DEF DicewareInv
<1>6. CASE /\ ~Outside(out, Largest) /\ words' = [count |-> Fitting, number |-> out]
           /\ phase' = "decoded" /\ UNCHANGED <<cipher, out>>
  <2>1. TypeInv' /\ CipherInv' /\ ChainInv'
    BY <1>0, <1>1, <1>6 DEF TypeInv, CipherInv, ChainInv
  <2>2. ASSUME Fits(k) PROVE words' = typed
    <3>1. out = typed.number
      BY <1>4, <1>6, <2>2 DEF IsChain
    <3> QED BY <1>0, <1>3, <1>6, <2>2, <3>1, TypedIs
  <2>3. WordsInv'
    BY <1>1, <2>2 DEF WordsInv, SameWords
  <2> QED BY <1>2, <2>1, <2>3 DEF DicewareInv
<1> QED BY <1>1, <1>5, <1>6

LEMMA InvHolds == Spec => []DicewareInv
<1>1. Init => DicewareInv
  BY InitHolds
<1>2. DicewareInv /\ [Next]_vars => DicewareInv'
  <2>1. ASSUME DicewareInv, UNCHANGED vars PROVE DicewareInv'
    BY <2>1 DEF vars, DicewareInv, TypeInv, CipherInv, SizeInv, Accepted, ChainInv, DivisorInv,
                DivisorOf, Popcnt, WordsInv, SameWords
  <2> QED BY <2>1, CheckHolds, EncryptHolds, DivideHolds, SelectHolds, BackHolds, DecodeHolds
          DEF Next
<1> QED BY <1>1, <1>2, PTL DEF Spec

(* The words that come back are those that were typed, for every number of *)
(* words that fits in its size, every cipher and every seed.               *)
THEOREM WordsComeBack == Spec => [](Fits(typed.count) => SameWords)
<1>1. DicewareInv => (Fits(typed.count) => SameWords)
  BY DEF DicewareInv, WordsInv
<1> QED BY <1>1, InvHolds, PTL

(* When that is so for all of them, all the words that come back are.      *)
THEOREM AllWordsComeBack == ASSUME WordsFit PROVE Spec => []SameWords
<1>1. DicewareInv => SameWords
  <2>1. ASSUME DicewareInv, phase = "decoded" PROVE Fits(typed.count)
    <3>1. typed.count \in 1 .. MaxWords /\ Power[typed.count] < Limit /\ Accepts(typed.count)
      BY <2>1 DEF DicewareInv, TypeInv, SizeInv, Accepted
    <3> QED BY <3>1 DEF WordsFit, Fits
  <2> QED BY <2>1 DEF DicewareInv, WordsInv, SameWords
<1> QED BY <1>1, InvHolds, PTL
------------------------------------------------------------------------------
(* The numbers below N in k parts of the same length and a rest. *)
LEMMA PartIs ==
  ASSUME NEW x \in Nat, NEW l \in Nat, l >= 1, NEW i \in Nat
  PROVE  /\ i * l \in Nat
         /\ x \div l = i <=> i * l <= x /\ x < i * l + l
         /\ x \div l > i <=> i * l + l <= x
<1> DEFINE q == x \div l
           r == x % l
<1>1. q \in Nat /\ r \in 0 .. l - 1 /\ x = q * l + r
  <2>1. x \in Int
    OBVIOUS
  <2>2. /\ x \div l \in Int /\ x % l \in 0 .. l - 1
        /\ x = (x \div l) * l + (x % l)
        /\ x \in Nat => x \div l \in Nat
    BY ONLY <2>1, l \in Nat, l >= 1, Quotients, Zenon
  <2> QED BY <2>2
<1> HIDE DEF q, r
<1>2. i * l \in Nat /\ q * l \in Nat /\ (i + 1) * l = i * l + l /\ (q + 1) * l = q * l + l
  BY <1>1
<1>3. ASSUME q < i PROVE x < i * l
  <2>1. (q + 1) * l <= i * l
    BY <1>1, <1>3, Monotone
  <2> QED BY <1>1, <1>2, <2>1
<1>4. ASSUME i < q PROVE i * l + l <= x
  <2>1. (i + 1) * l <= q * l
    BY <1>1, <1>4, Monotone
  <2> QED BY <1>1, <1>2, <2>1
<1>5. ASSUME i = q PROVE i * l <= x /\ x < i * l + l
  BY <1>1, <1>2, <1>5
<1>6. i * l <= x /\ x < i * l + l => q = i
  BY <1>1, <1>2, <1>3, <1>4
<1>7. i * l + l <= x => q > i
  BY <1>1, <1>2, <1>3, <1>5
<1>8. q = i <=> i * l <= x /\ x < i * l + l
  BY <1>5, <1>6
<1>9. q > i <=> i * l + l <= x
  BY <1>1, <1>4, <1>7
<1> QED BY <1>2, <1>8, <1>9 DEF q

Part(N, l, i)  == {x \in 0 .. N - 1 : x \div l = i}
Parts(N, l, k) == {x \in 0 .. N - 1 : x \div l <= k}

LEMMA EvenParts ==
  ASSUME NEW N \in Nat, NEW k \in Nat, NEW l \in Nat, l >= 1, k * l + l <= N
  PROVE  /\ \A i \in 0 .. k : Cardinality(Part(N, l, i)) = l
         /\ Cardinality(Parts(N, l, k)) = k * l + l
<1>1. k * l \in Nat
  OBVIOUS
<1>2. ASSUME NEW i \in 0 .. k
      PROVE  Cardinality(Part(N, l, i)) = l
  <2> DEFINE a == i * l
  <2>1. a \in Nat /\ a + l <= k * l + l
    <3>1. i * l <= k * l /\ i * l \in Nat
      BY Monotone
    <3> QED BY <3>1, <1>1
  <2>2. \A x \in Nat : x \div l = i <=> a <= x /\ x < a + l
    BY PartIs
  <2> HIDE DEF a
  <2>3. Part(N, l, i) = a .. a + l - 1
    <3> DEFINE P == {x \in 0 .. N - 1 : x \div l = i}
    <3>1. ASSUME NEW x \in P PROVE x \in a .. a + l - 1
      BY <2>1, <2>2
    <3>2. ASSUME NEW x \in a .. a + l - 1 PROVE x \in P
      <4>1. x \in Nat /\ x \in 0 .. N - 1
        BY <1>1, <2>1
      <4> QED BY <4>1, <2>1, <2>2
    <3> QED BY <3>1, <3>2 DEF Part
  <2>4. Cardinality(a .. a + l - 1) = l
    <3>1. a \in Int /\ a + l - 1 \in Int /\ ~(a > a + l - 1) /\ a + l - 1 - a + 1 = l
      BY <2>1
    <3> QED BY <3>1, FS_Interval
  <2> QED BY <2>3, <2>4
<1>3. Cardinality(Parts(N, l, k)) = k * l + l
  <2> DEFINE b == k * l + l
  <2>1. b \in Nat /\ b >= 1 /\ b <= N
    BY <1>1
  <2>2. \A x \in Nat : x \div l <= k <=> x < b
    <3>1. ASSUME NEW x \in Nat PROVE x \div l <= k <=> ~(x \div l > k)
      <4>1. x \div l \in Int
        BY Quotients
      <4> QED BY <4>1
    <3>2. \A x \in Nat : x \div l > k <=> b <= x
      BY PartIs
    <3> HIDE DEF b
    <3> QED BY <2>1, <3>1, <3>2
  <2> HIDE DEF b
  <2>3. Parts(N, l, k) = 0 .. b - 1
    BY <2>1, <2>2 DEF Parts
  <2>4. Cardinality(0 .. b - 1) = b
    <3>1. b - 1 \in Int /\ ~(0 > b - 1) /\ b - 1 - 0 + 1 = b
      BY <2>1
    <3> QED BY <3>1, FS_Interval
  <2> QED BY <2>3, <2>4, Zenon DEF b
<1> QED BY <1>2, <1>3

(* The first division gives the number of random numbers for each value.   *)
LEMMA DividesRight ==
  ASSUME DicewareInv, phase = "select", Exact(d)
  PROVE  h = 2^bits \div (m + 1)
<1>1. h = Quotient(2^bits, d) /\ d.value = m + 1
  BY DEF DicewareInv, DivisorInv, DivisorOf
<1> QED BY <1>1, Zenon DEF Quotient, Exact

(* The second division is by the width of a part: h, or a power of two no  *)
(* larger than h.                                                          *)
Width(divisor) == IF divisor.pure THEN 2^Shift(divisor) ELSE divisor.value

LEMMA ShiftIs ==
  ASSUME NEW l \in Nat
  PROVE  /\ l % ShiftRange \in Nat /\ l % ShiftRange <= l
         /\ l % ShiftRange # l => (l % ShiftRange) + ShiftRange <= l
<1>1. ShiftRange \in Nat /\ ShiftRange >= 1 /\ l \in Int
  BY SizesAssumption
<1> DEFINE q == l \div ShiftRange
           s == l % ShiftRange
<1>2. q \in Nat /\ s \in 0 .. ShiftRange - 1 /\ l = q * ShiftRange + s
  <2>1. /\ l \div ShiftRange \in Int /\ l % ShiftRange \in 0 .. ShiftRange - 1
        /\ l = (l \div ShiftRange) * ShiftRange + (l % ShiftRange)
        /\ l \in Nat => l \div ShiftRange \in Nat
    BY ONLY <1>1, Quotients, Zenon
  <2> QED BY <2>1
<1> HIDE DEF q, s
<1>3. q * ShiftRange \in Nat /\ (q # 0 => q * ShiftRange >= ShiftRange)
  <2>1. q >= 1 => 1 * ShiftRange <= q * ShiftRange
    BY <1>1, <1>2, Monotone
  <2> QED BY <1>1, <1>2, <2>1
<1>4. s \in Nat /\ s <= l /\ (q # 0 => s + ShiftRange <= l)
  BY <1>1, <1>2, <1>3
<1>5. q = 0 => s = l
  BY <1>1, <1>2
<1> QED BY <1>4, <1>5 DEF s

LEMMA WidthIs ==
  ASSUME NEW x \in Nat, x >= 1, NEW memory
  PROVE  LET divisor == DivisorOf(x, memory) IN
           /\ Width(divisor) \in Nat /\ Width(divisor) >= 1 /\ Width(divisor) <= x
           /\ \A y : Quotient(y, divisor) = y \div Width(divisor)
           /\ Exact(divisor) => Width(divisor) = x
           /\ divisor.pure /\ Shift(divisor) # divisor.log2 =>
                Width(divisor) * 2^ShiftRange \in Nat /\ Width(divisor) * 2^ShiftRange <= x
<1> DEFINE divisor == DivisorOf(x, memory)
           l == Log2(x)
           s == l % ShiftRange
<1>1. l \in Nat /\ 2^l <= x /\ ShiftRange \in Nat
  BY Log2Is, SizesAssumption
<1>2. divisor.log2 = l /\ divisor.value = x /\ Shift(divisor) = s
  BY DEF DivisorOf, Shift
<1>3. \A y : Quotient(y, divisor) = y \div Width(divisor)
  <2> HIDE DEF divisor
  <2>1. divisor.pure => \A y : Quotient(y, divisor) = y \div Width(divisor)
    BY DEF Quotient, Width
  <2>2. ~divisor.pure => \A y : Quotient(y, divisor) = y \div Width(divisor)
    BY DEF Quotient, Width
  <2> QED BY <2>1, <2>2
<1> HIDE DEF divisor, l
<1>4. s \in Nat /\ s <= l /\ (s # l => s + ShiftRange <= l)
  BY <1>1, ShiftIs
<1> HIDE DEF s
<1>5. CASE divisor.pure
  <2>1. Width(divisor) = 2^s
    BY <1>2, <1>5 DEF Width
  <2>2. 2^s \in Nat /\ 2^s >= 1 /\ 2^l \in Nat /\ 2^s <= 2^l
    BY <1>1, <1>4, TwoPower, TwoGrows
  <2>3. ASSUME s # l PROVE 2^s * 2^ShiftRange \in Nat /\ 2^s * 2^ShiftRange <= x
    <3>1. 2^s * 2^ShiftRange = 2^(s + ShiftRange)
      BY <1>1, <1>4, TwoSum
    <3>2. s + ShiftRange \in Nat /\ 2^(s + ShiftRange) \in Nat
      BY <1>1, <1>4, TwoPower
    <3>3. 2^(s + ShiftRange) <= 2^l
      BY <1>1, <1>4, <2>3, <3>2, TwoGrows
    <3> QED BY <1>1, <2>2, <3>1, <3>2, <3>3
  <2>4. Exact(divisor) => 2^s = x
    BY <1>2, <1>5 DEF Exact
  <2>5. 2^s <= x
    BY <1>1, <2>2
  <2>6. /\ Width(divisor) \in Nat /\ Width(divisor) >= 1 /\ Width(divisor) <= x
        /\ Exact(divisor) => Width(divisor) = x
        /\ divisor.pure /\ Shift(divisor) # divisor.log2 =>
             Width(divisor) * 2^ShiftRange \in Nat /\ Width(divisor) * 2^ShiftRange <= x
    BY <1>2, <2>1, <2>2, <2>3, <2>4, <2>5
  <2> QED BY <1>3, <2>6 DEF divisor
<1>6. CASE ~divisor.pure
  <2>1. Width(divisor) = x
    BY <1>2, <1>6 DEF Width
  <2> QED BY <1>3, <1>6, <2>1 DEF divisor
<1> QED BY <1>5, <1>6

LEMMA EvenSecond ==
  ASSUME DicewareInv, phase = "select", Exact(d), NEW memory, ~DivisorFails(h, memory)
  PROVE  Even(DivisorOf(h, memory))
<1> DEFINE N == 2^bits
           second == DivisorOf(h, memory)
           w == Width(second)
           r == N % (m + 1)
<1>1. m \in Nat /\ N \in Nat /\ h \in Nat /\ h >= 1
  BY TypedIs DEF DicewareInv, TypeInv, DivisorFails
<1>2. /\ w \in Nat /\ w >= 1 /\ w <= h /\ (Exact(second) => w = h)
      /\ \A x : Quotient(x, second) = x \div w
      /\ second.pure /\ Shift(second) # second.log2 =>
           w * 2^ShiftRange \in Nat /\ w * 2^ShiftRange <= h
  BY <1>1, WidthIs
<1>3. r \in 0 .. m /\ m * h + h \in Nat /\ N = m * h + h + r
  <2>1. N \in Int /\ m + 1 \in Nat /\ m + 1 >= 1 /\ h = N \div (m + 1)
    BY <1>1, DividesRight
  <2> HIDE DEF N
  <2>2. r \in 0 .. (m + 1) - 1 /\ N = h * (m + 1) + r
    BY ONLY <2>1, Quotients, Zenon DEF r
  <2>3. h * (m + 1) = m * h + h /\ m * h + h \in Nat
    BY <1>1
  <2> QED BY <1>1, <2>2, <2>3
<1> HIDE DEF w, r, N, second
<1>4. m * w + w \in Nat /\ m * w + w <= m * h + h
  <2>1. w * m <= h * m
    BY <1>1, <1>2, Monotone
  <2>2. w * m = m * w /\ h * m = m * h /\ m * w \in Nat /\ m * h \in Nat
    BY <1>1, <1>2
  <2> QED BY <1>1, <1>2, <2>1, <2>2
<1>5. m * w + w <= N
  BY <1>1, <1>3, <1>4
<1>6. (\A i \in 0 .. m : Cardinality(Part(N, w, i)) = w) /\ Cardinality(Parts(N, w, m)) = m * w + w
  BY <1>1, <1>2, <1>5, EvenParts
<1>7. \A i : Choosing(i, second) = Part(N, w, i)
  BY <1>2 DEF Choosing, Part, N
<1>8. Chosen(second) = Parts(N, w, m)
  BY <1>2 DEF Chosen, Parts, N
<1>9. \A i \in 0 .. m : Cardinality(Choosing(i, second)) = w
  BY <1>6, <1>7, Zenon
<1>10. Cardinality(Chosen(second)) = m * w + w
  BY <1>6, <1>8, Zenon
<1>11. 0 \in 0 .. m
  BY <1>1
<1>12. Choosing(0, second) # {}
  <2>1. Cardinality({}) = 0
    BY FS_EmptySet
  <2> QED BY <1>2, <1>9, <1>11, <2>1
<1>13. Exact(second) => N - Cardinality(Chosen(second)) <= m
  BY <1>1, <1>2, <1>3, <1>10
<1>14. ASSUME second.pure, Shift(second) # second.log2
       PROVE  Cardinality(Chosen(second)) * 2^ShiftRange <= N
  <2> DEFINE p == 2^ShiftRange
  <2>1. p \in Nat /\ w * p \in Nat /\ w * p <= h
    BY <1>2, <1>14, TwoPower, SizesAssumption
  <2> HIDE DEF p
  <2>2. (m * w + w) * p = (w * p) * (m + 1) /\ h * (m + 1) = m * h + h
    BY <1>1, <1>2, <2>1
  <2>3. (w * p) * (m + 1) <= h * (m + 1) /\ (w * p) * (m + 1) \in Nat
    BY <1>1, <2>1, Monotone
  <2>4. m * h + h <= N
    BY <1>1, <1>3
  <2>5. (m * w + w) * p <= N
    BY ONLY <1>1, <1>3, <2>2, <2>3, <2>4
  <2> QED BY <1>10, <2>5 DEF p
<1> QED BY <1>9, <1>11, <1>12, <1>13, <1>14 DEF Even, N, second

(* When a random number is divided to choose a value of the chain, each    *)
(* value is chosen by equally many (codec.c:246-262), for every size and   *)
(* cipher and whatever the divisor is taken for, if the first division was *)
(* right; and few random numbers choose none, or nearly all of them, as    *)
(* EvenChoice says.                                                        *)
THEOREM ChoiceIsEven == Spec => []EvenChoice
<1>1. ASSUME DicewareInv PROVE EvenChoice
  <2>1. SUFFICES ASSUME phase = "select", Exact(d), NEW memory \in Memory PROVE EvenFor(memory)
    BY DEF EvenChoice
  <2>2. ~DivisorFails(h, memory) => Even(DivisorOf(h, memory))
    BY <1>1, <2>1, EvenSecond
  <2> QED BY <2>2 DEF EvenFor
<1> QED BY <1>1, InvHolds, PTL
------------------------------------------------------------------------------
(* A counter that starts at zero counts right. *)
Zeroed == Memory = {0} /\ Counter > Unit * MaxBlocks + 1

(* A number with a single one in it is a power of two. *)
LEMMA OnesTell ==
  ASSUME bits \in Nat, bits + 1 < Counter, Counter \in Nat,
         NEW x \in Nat, x >= 1, x <= 2^bits, Popcnt(x, 0) = 1
  PROVE  x = 2^Log2(x)
<1> DEFINE l == Log2(x)
           Ones == {i \in 0 .. bits : (x \div 2^i) % 2 = 1}
<1>1. l \in Nat /\ 2^l \in Nat /\ 2^l <= x /\ x < 2^(l + 1) /\ 2^(l + 1) = 2 * 2^l /\ 2^l >= 1
  <2>1. l \in Nat /\ 2^l <= x /\ x < 2^(l + 1)
    BY Log2Is
  <2> QED BY <2>1, TwoPower
<1>2. 2^bits \in Nat /\ \A k \in Nat : 2^k <= x => k \in 0 .. bits
  <2>1. 2^bits \in Nat
    BY TwoPower
  <2>2. ASSUME NEW k \in Nat, 2^k <= x PROVE k \in 0 .. bits
    <3>1. 2^k \in Nat /\ 2^k <= 2^bits
      BY <2>1, <2>2, TwoPower
    <3>2. k <= bits
      BY <3>1, TwoGrows
    <3> QED BY <3>2
  <2> QED BY <2>1, <2>2
<1>3. IsFiniteSet(Ones) /\ Cardinality(Ones) = 1
  <2> DEFINE All == 0 .. bits
  <2>1. IsFiniteSet(All) /\ Cardinality(All) = bits + 1
    <3>1. 0 \in Int /\ bits \in Int /\ ~(0 > bits) /\ bits - 0 + 1 = bits + 1
      OBVIOUS
    <3> QED BY ONLY <3>1, FS_Interval
  <2>2. IsFiniteSet(Ones) /\ Cardinality(Ones) <= Cardinality(All)
    <3>1. Ones \in SUBSET All
      OBVIOUS
    <3> HIDE DEF Ones, All
    <3> QED BY <2>1, <3>1, FS_Subset
  <2>3. Cardinality(Ones) \in Nat /\ Popcnt(x, 0) = (0 + Cardinality(Ones)) % Counter
    BY <2>2, FS_CardinalityType DEF Popcnt
  <2> HIDE DEF Ones, All
  <2> DEFINE c == Cardinality(Ones)
  <2>4. c \in Nat /\ c < Counter /\ (0 + c) % Counter = 1
    BY <2>1, <2>2, <2>3
  <2>5. c % Counter = c
    <3> HIDE DEF c
    <3> QED BY <2>4, Small
  <2> QED BY <2>2, <2>4, <2>5
<1> HIDE DEF l
<1>4. l \in Ones
  <2>1. x - 2^l \in 0 .. 2^l - 1 /\ x = 1 * 2^l + (x - 2^l)
    BY <1>1
  <2>2. x \div 2^l = 1
    BY <1>1, <2>1, QuotientIs
  <2> QED BY <1>1, <1>2, <2>2
<1>5. ASSUME x # 2^l PROVE FALSE
  <2> DEFINE y == x - 2^l
             k == Log2(y)
  <2>1. y \in Nat /\ y >= 1 /\ y < 2^l /\ x = 2^l + y
    BY <1>1, <1>5
  <2> HIDE DEF y
  <2>2. k \in Nat /\ 2^k <= y /\ y < 2^(k + 1) /\ k < l
    BY <1>1, <2>1, Log2Is, LogBelow
  <2> HIDE DEF k
  <2>3. 2^k \in Nat /\ 2^k >= 1 /\ 2^(k + 1) = 2 * 2^k
    BY <2>2, TwoPower
  <2> DEFINE e == l - k - 1
             a == 2^e
  <2>4. e \in Nat /\ e + 1 \in Nat /\ (e + 1) + k = l /\ a \in Nat /\ 2^(e + 1) = 2 * a
    BY <1>1, <2>2, TwoPower
  <2>5. 2^l = (2 * a) * 2^k
    <3>1. 2^((e + 1) + k) = 2^(e + 1) * 2^k
      BY <2>2, <2>4, TwoSum
    <3> QED BY <2>4, <3>1
  <2> HIDE DEF e, a
  <2> DEFINE p == 2^k
             q == 2 * a + 1
  <2>6. q * p = (2 * a) * p + p
    BY <2>3, <2>4
  <2>7. q \in Int /\ y - p \in 0 .. p - 1 /\ x = q * p + (y - p)
    BY <1>1, <2>1, <2>2, <2>3, <2>4, <2>5, <2>6
  <2>8. x \div p = q
    <3> HIDE DEF p, q
    <3>1. p \in Nat /\ p >= 1
      BY <2>3 DEF p
    <3> QED BY <2>7, <3>1, QuotientIs
  <2>9. q % 2 = 1
    BY <2>4
  <2>10. k \in Ones
    <3>1. 2^k <= x
      BY <1>1, <2>1, <2>2, <2>3
    <3>2. k \in 0 .. bits
      BY <1>2, <2>2, <3>1
    <3> QED BY <2>8, <2>9, <3>2
  <2> HIDE DEF Ones
  <2>11. PICK i : Ones = {i}
    BY <1>3, FS_Singleton
  <2> QED BY <1>1, <1>4, <2>2, <2>10, <2>11
<1> QED BY <1>5 DEF l

(* Chains have no value twice, so that they are no longer than there are   *)
(* values.                                                                 *)
LEMMA ChainLength ==
  ASSUME DicewareInv, phase = "select", Fits(typed.count), IsFiniteSet(Values)
  PROVE  m + 1 <= Cardinality(Values)
<1>1. PICK n, c : n \in Nat /\ \E j \in 0 .. n :
         IsChain(c, n, typed, cipher) /\ m <= n /\ out = c[j] /\ IsAt(j, n, phase, g)
  BY DEF DicewareInv, ChainInv
<1> n \in Nat
  BY <1>1
<1>2. c \in Injection(0 .. n, Values)
  BY <1>1 DEF IsChain, Injection, IsInjective
<1>3. Cardinality(0 .. n) <= Cardinality(Values)
  BY <1>2, FS_Injection
<1>4. Cardinality(0 .. n) = n + 1
  BY FS_Interval
<1>5. Cardinality(Values) \in Nat /\ m \in Nat
  BY FS_CardinalityType DEF DicewareInv, TypeInv
<1> QED BY <1>1, <1>3, <1>4, <1>5

(* With a counter that starts at zero, and where no more values can be     *)
(* walked through than a shift of uint8_t can tell, the first division is  *)
(* always right, and so the choice is even whenever one is made            *)
(* (codec.c:218-262).                                                      *)
THEOREM ChoiceIsEvenOnShortChains ==
  ASSUME WordsFit, ChainsAreShort, Zeroed
  PROVE  Spec => [](phase = "select" => Exact(d) /\ EvenFor(0))
<1>1. ASSUME DicewareInv, phase = "select" PROVE Exact(d)
  <2>1. /\ typed.count \in 1 .. MaxWords /\ Power[typed.count] < Limit /\ Accepts(typed.count)
        /\ bits = SizeOf(typed.count)
    BY <1>1 DEF DicewareInv, TypeInv, SizeInv, Accepted
  <2>2. Fits(typed.count) /\ IsFiniteSet(Values) /\ Cardinality(Values) < 2^ShiftRange
    BY <2>1 DEF WordsFit, Fits, ChainsAreShort
  <2>3. m \in Nat /\ bits \in Nat /\ 2^bits \in Nat /\ m < 2^bits /\ typed.count \in Nat
    BY <1>1, TypedIs DEF DicewareInv, TypeInv
  <2>4. ShiftRange \in Nat /\ 2^ShiftRange \in Nat /\ Counter \in Nat
    BY SizesAssumption, TwoPower
  <2>5. m + 1 \in Nat /\ m + 1 >= 1 /\ m + 1 <= 2^bits /\ m + 1 < 2^ShiftRange
    <3>1. m + 1 <= Cardinality(Values) /\ Cardinality(Values) \in Nat
      BY <1>1, <2>2, ChainLength, FS_CardinalityType
    <3> QED BY <2>2, <2>3, <2>4, <3>1
  <2>6. bits + 1 < Counter
    <3>1. 2^bits <= Limit
      BY <2>1, <2>3, SizeIs
    <3>2. Unit * MaxBlocks \in Nat /\ bits <= Unit * MaxBlocks
      BY <2>3, <3>1, LimitIs, TwoGrows DEF Limit
    <3> QED BY <2>3, <2>4, <3>2 DEF Zeroed
  <2>7. d = DivisorOf(m + 1, 0)
    BY <1>1 DEF DicewareInv, DivisorInv, Zeroed
  <2>8. d.log2 = Log2(m + 1) /\ d.value = m + 1 /\ (d.pure => Popcnt(m + 1, 0) = 1)
    BY <2>7 DEF DivisorOf
  <2>9. Shift(d) = Log2(m + 1)
    <3>1. Log2(m + 1) \in Nat /\ Log2(m + 1) < ShiftRange
      BY <2>4, <2>5, LogBelow
    <3> QED BY <2>4, <2>8, <3>1, Small DEF Shift
  <2>10. d.pure => m + 1 = 2^Log2(m + 1)
    BY <2>3, <2>4, <2>5, <2>6, <2>8, OnesTell
  <2> QED BY <2>8, <2>9, <2>10 DEF Exact
<1>2. ASSUME DicewareInv, phase = "select" PROVE Exact(d) /\ EvenFor(0)
  <2>1. Exact(d)
    BY <1>1, <1>2
  <2>2. ~DivisorFails(h, 0) => Even(DivisorOf(h, 0))
    BY <1>2, <2>1, EvenSecond
  <2> QED BY <2>1, <2>2 DEF EvenFor
<1> QED BY <1>2, InvHolds, PTL
==============================================================================
