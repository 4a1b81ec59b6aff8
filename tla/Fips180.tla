------------------------------- MODULE Fips180 -------------------------------
(***************************************************************************)
(* FIPS 180-4: SHA-256 and SHA-512 as they are specified, with a word as   *)
(* the set of its one bits.  For n-bit words, n = 32 or 64.                *)
(***************************************************************************)
EXTENDS Integers, SequencesExt

RECURSIVE Sum(_, _)
Sum(x, y) == IF y = {} THEN x ELSE Sum(SymDiff(x, y), {b + 1 : b \in x \cap y})

(* Addition modulo 2^n. *)
Add(n, x, y) == Sum(x, y) \cap 0 .. n - 1

(* 3.2 *)
ROTR(n, r, x) == {(b - r) % n : b \in x}
SHR(r, x)     == {b - r : b \in {c \in x : c >= r}}
Xor3(x, y, z) == SymDiff(x, SymDiff(y, z))

(* 4.1.2, 4.1.3 *)
Ch(x, y, z)  == SymDiff(x \cap y, z \ x)
Maj(x, y, z) == Xor3(x \cap y, x \cap z, y \cap z)

SIGMA0(n, x) == IF n = 32 THEN Xor3(ROTR(n, 2, x), ROTR(n, 13, x), ROTR(n, 22, x))
                          ELSE Xor3(ROTR(n, 28, x), ROTR(n, 34, x), ROTR(n, 39, x))
SIGMA1(n, x) == IF n = 32 THEN Xor3(ROTR(n, 6, x), ROTR(n, 11, x), ROTR(n, 25, x))
                          ELSE Xor3(ROTR(n, 14, x), ROTR(n, 18, x), ROTR(n, 41, x))
sigma0(n, x) == IF n = 32 THEN Xor3(ROTR(n, 7, x), ROTR(n, 18, x), SHR(3, x))
                          ELSE Xor3(ROTR(n, 1, x), ROTR(n, 8, x), SHR(7, x))
sigma1(n, x) == IF n = 32 THEN Xor3(ROTR(n, 17, x), ROTR(n, 19, x), SHR(10, x))
                          ELSE Xor3(ROTR(n, 19, x), ROTR(n, 61, x), SHR(6, x))

(* 6.2.2, 6.4.2, step 1: word t of the message schedule is computed from  *)
(* the ones before it, W[t + 1] in a sequence.                             *)
Schedule(n, W, t) ==
  IF t < 16 THEN W
  ELSE Append(W, Add(n, Add(n, sigma1(n, W[t - 1]), W[t - 6]),
                        Add(n, sigma0(n, W[t - 14]), W[t - 15])))

(* Step 3, with the working variables a .. h as v[1] .. v[8]. *)
Step(n, v, k, w) ==
  LET T1 == Add(n, Add(n, Add(n, v[8], SIGMA1(n, v[5])), Ch(v[5], v[6], v[7])), Add(n, k, w))
      T2 == Add(n, SIGMA0(n, v[1]), Maj(v[1], v[2], v[3]))
  IN  <<Add(n, T1, T2), v[1], v[2], v[3], Add(n, v[4], T1), v[5], v[6], v[7]>>

(* 4.2.2, 4.2.3, 5.3: the constants are the first n bits of the fractional *)
(* parts of the cube roots of the first primes, the initial hash values    *)
(* those of the square roots.                                              *)
Prime == SelectSeq([p \in 1 .. 409 |-> p], LAMBDA p : p > 1 /\ \A d \in 2 .. p - 1 : p % d # 0)

BitsOf(m) == {b \in 0 .. 9 : (m \div 2^b) % 2 = 1}

RECURSIVE Times(_, _)
Times(x, y) ==
  IF Cardinality(y) <= 1 THEN {c + b : c \in x, b \in y}
  ELSE LET low == {b \in y : 2 * b < Min(y) + Max(y)}
       IN  Sum(Times(x, low), Times(x, y \ low))

Power(x, d) == IF d = 2 THEN Times(x, x) ELSE Times(x, Times(x, x))

(* x is the fraction of the d-th root of p, cut off after n bits: with its *)
(* integer part in front, the d-th power of x is below p, and that of      *)
(* x + 1 above (no root of a prime is a number with finitely many bits).   *)
IsFractionOfRoot(n, x, p, d) ==
  LET whole    == CHOOSE m \in 1 .. p : m^d <= p /\ p < (m + 1)^d
      root     == x \cup {n + b : b \in BitsOf(whole)}
      Value(y) == {b - d * n : b \in {c \in y : c >= d * n}}
      Less(y)  == \E b \in BitsOf(p) \ Value(y) :
                    \A c \in Value(y) \ BitsOf(p) : c < b
  IN  Less(Power(root, d)) /\ ~Less(Power(Sum(root, {0}), d))
==============================================================================
