-------------------------------- MODULE GF256 --------------------------------
(***************************************************************************)
(* gf256.c.  A byte is the set of its one bits, so that exclusive or is    *)
(* symmetric difference.  gf256.c is the instance with Width 8 and Pol     *)
(* {0, 1, 3, 4} (0x1b: x^8 + x^4 + x^3 + x + 1 without its leading bit);   *)
(* the schemes built on it are checked on smaller fields.                  *)
(***************************************************************************)
EXTENDS Integers, FiniteSetsExt

CONSTANTS
  Width,   \* bits of a byte
  Pol      \* the reduction polynomial without its leading bit

Bits == 0 .. Width - 1
Byte == SUBSET Bits

ASSUME FieldAssumption == Width \in Nat \ {0} /\ Pol \in Byte

One == {0}

(* The byte of an integer, as the x-coordinate of a share index. *)
ToByte(x) == {k \in Bits : (x \div 2^k) % 2 = 1}

gf256_add(a, b) == (a \ b) \cup (b \ a)

(* a << 1 in a byte, and the right shift of b. *)
ShiftLeft(a)  == {k \in Bits : k - 1 \in a}
ShiftRight(b) == {k \in Bits : k + 1 \in b}

(* Mutant: the carry out of the highest bit is lost. *)
Double_NoReduction(a) == ShiftLeft(a)

Double(a) == gf256_add(ShiftLeft(a), IF Width - 1 \in a THEN Pol ELSE {})

(* The loop of gf256_mul after k rounds: [a, b, res].  The first round     *)
(* enters behind the shifts.                                               *)
gf256_mul(a0, b0) ==
  LET Entry(v) == [v EXCEPT !.res = IF 0 \in v.b THEN gf256_add(@, v.a) ELSE @]
      loop[k \in 0 .. Width - 1] ==
        IF k = 0 THEN Entry([a |-> a0, b |-> b0, res |-> {}])
        ELSE Entry([loop[k - 1] EXCEPT !.a = Double(@), !.b = ShiftRight(@)])
  IN  loop[Width - 1].res

(* One iteration of gf256_pow, and its loop. *)
PowStep(res, a) == gf256_mul(res, a)

gf256_pow(a, n) ==
  LET power[k \in 0 .. n] == IF k = 0 THEN One ELSE PowStep(power[k - 1], a)
  IN  power[n]

(* Mutant: the exponent is the order of the group. *)
InvExponent_Order == 2^Width - 1

(* 254 for Width 8. *)
InvExponent == 2^Width - 2

(* The assert that a is not 0 holds: what is inverted is the exclusive or  *)
(* of two x-coordinates, no two of which are equal.                        *)
gf256_inv(a) == gf256_pow(a, InvExponent)

gf256_div(a, b) == gf256_mul(a, gf256_inv(b))
==============================================================================
