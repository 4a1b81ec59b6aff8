-------------------------------- MODULE Fixnum --------------------------------
(***************************************************************************)
(* fixnum.c: natural numbers of a fixed size, as sequences of limbs with   *)
(* the most significant limb first.  A limb has 8 bits in the code and a   *)
(* uint16_t is two limbs; the width is a parameter, so that small numbers  *)
(* can be checked exhaustively.  An operation on two numbers that returns  *)
(* what did not fit is a record of the limbs and of the rest.              *)
(***************************************************************************)
EXTENDS Integers, SequencesExt

CONSTANT LimbBits   \* 8

ASSUME LimbAssumption == LimbBits \in Nat \ {0}

(* x & 0xff and x >> 8 *)
LowLimb(x)  == x % 2^LimbBits
HighPart(x) == x \div 2^LimbBits

BitLength(f) == LimbBits * Len(f)

(* fixnum_set_uint16, fixnum_set_buffer: padded on the left to n limbs.    *)
Uint16(n, w)     == [k \in 1 .. n |-> CASE k = n     -> LowLimb(w)
                                        [] k = n - 1 -> HighPart(w)
                                        [] OTHER     -> 0]
Widened(f, n)    == [k \in 1 .. n - Len(f) |-> 0] \o f
------------------------------------------------------------------------------
(* Limb by limb from the last to the first, with what each hands on to the *)
(* next: sums has what comes to each limb, but for the carry of the limb   *)
(* below, and low has the limbs so far, the last one first.  What is left  *)
(* at the end is negative for a borrow.                                    *)
Chain(sums) ==
  LET size == Len(sums)
      from[k \in 1 .. size + 1] ==
        IF k = size + 1 THEN [low |-> <<>>, carry |-> 0]
        ELSE LET below == from[k + 1]
                 sum   == sums[k] + below.carry
             IN  [low |-> Append(below.low, LowLimb(sum)), carry |-> HighPart(sum)]
  IN  [limbs |-> Reverse(from[1].low), carry |-> from[1].carry]

ShiftsWholeLimb(shift) == shift >= LimbBits

(* Mutant: after the move of a whole limb, all bits are shifted again. *)
BitsLeft_All(shift) == shift

(* The bits to shift by when a whole limb was moved already. *)
BitsLeft(shift) == IF ShiftsWholeLimb(shift) THEN shift - LimbBits ELSE shift

(* fixnum_shl.  Of the carry only whether it is zero is used, and where    *)
(* the code puts its bits is left out.                                     *)
fixnum_shl(f, shift) ==
  LET whole == ShiftsWholeLimb(shift)
      g     == IF whole THEN Append(Tail(f), 0) ELSE f
      r     == Chain([k \in DOMAIN g |-> g[k] * 2^BitsLeft(shift)])
  IN  [limbs |-> r.limbs, carry |-> (whole /\ f[1] # 0) \/ r.carry # 0]

(* fixnum_shr; the rest are the bits that were shifted out. *)
fixnum_shr(f, shift) ==
  LET whole == ShiftsWholeLimb(shift)
      bits  == BitsLeft(shift)
      g     == IF whole THEN <<0>> \o Front(f) ELSE f
      from[k \in 0 .. Len(g)] ==
        IF k = 0 THEN [limbs |-> <<>>, carry |-> 0]
        ELSE LET above == from[k - 1]
                 x     == above.carry * 2^LimbBits + g[k]
             IN  [limbs |-> Append(above.limbs, x \div 2^bits), carry |-> x % 2^bits]
      carry == from[Len(g)].carry
  IN  [limbs |-> from[Len(g)].limbs,
       rest  |-> IF whole THEN carry * 2^LimbBits + Last(f) ELSE carry]
------------------------------------------------------------------------------
(* Bit fields: ssize[], how many of a field's bits are in the limb of its  *)
(* offset and in the two limbs above it.                                   *)
FieldSizes(offset, size) ==
  LET room   == LimbBits - (offset % LimbBits)
      first  == IF room >= size THEN size ELSE room
      second == IF size - first > LimbBits THEN LimbBits ELSE size - first
  IN  <<first, second, size - first - second>>

(* A field that ends above the number is cut off. *)
Clipped(f, offset, size) ==
  IF offset + size > BitLength(f) THEN BitLength(f) - offset ELSE size

fixnum_peek(f, offset, fieldsize) ==
  LET size  == Clipped(f, offset, fieldsize)
      ss    == FieldSizes(offset, size)
      limb  == Len(f) - (offset \div LimbBits)
  IN  ((f[limb] \div 2^(offset % LimbBits)) % 2^ss[1])
        + (IF ss[2] = 0 THEN 0 ELSE (f[limb - 1] * 2^ss[1]) % 2^(ss[1] + ss[2]))
        + (IF ss[3] = 0 THEN 0 ELSE (f[limb - 2] * 2^(ss[1] + ss[2])) % 2^size)

(* Mutant: what was in the second limb of the field before is not cleared. *)
Cleared_FirstOnly(x, j, bit, ss) ==
  IF j = 0 THEN x - ((x \div 2^bit) % 2^ss[1]) * 2^bit ELSE x

(* The limb x, j limbs above the offset, without the field's bits. *)
Cleared(x, j, bit, ss) ==
  IF j = 0 THEN x - ((x \div 2^bit) % 2^ss[1]) * 2^bit ELSE x - (x % 2^ss[j + 1])

(* fixnum_poke.  It also writes to the two limbs above the field when they *)
(* do not exist, and leaves them as they are.                              *)
fixnum_poke(f, offset, fieldsize, in) ==
  LET size == Clipped(f, offset, fieldsize)
      ss   == FieldSizes(offset, size)
      bit  == offset % LimbBits
      limb == Len(f) - (offset \div LimbBits)
  IN  [k \in DOMAIN f |->
         LET j == limb - k IN
           IF j \in 0 .. 2
             THEN Cleared(f[k], j, bit, ss) + LowLimb((in * 2^bit) \div 2^(LimbBits * j))
             ELSE f[k]]
------------------------------------------------------------------------------
(* fixnum_add_uint16, fixnum_add_fixnum and the like: the carry out of the *)
(* last addition, or -1 for a borrow.                                      *)
fixnum_add(f, g) == Chain([k \in DOMAIN f |-> f[k] + g[k]])
fixnum_sub(f, g) == Chain([k \in DOMAIN f |-> f[k] - g[k]])

fixnum_add_uint16(f, w) == fixnum_add(f, Uint16(Len(f), w))
fixnum_sub_uint16(f, w) == fixnum_sub(f, Uint16(Len(f), w))

(* fixnum_calc_log2; an assert fails for zero. *)
fixnum_calc_log2(f) ==
  CHOOSE i \in 0 .. BitLength(f) - 1 :
    /\ fixnum_peek(f, i, 1) = 1
    /\ \A j \in i + 1 .. BitLength(f) - 1 : fixnum_peek(f, j, 1) = 0

(* fixnum_popcnt, whose counter starts with whatever is in its memory. *)
fixnum_popcnt(f, memory) ==
  (memory + Cardinality({i \in 0 .. BitLength(f) - 1 : fixnum_peek(f, i, 1) = 1})) % 2^16
------------------------------------------------------------------------------
(* fixnum_multiplier16_init *)
Multiplier(value) ==
  LET log2 == CHOOSE l \in 0 .. 2 * LimbBits - 1 : 2^l <= value /\ value < 2^(l + 1)
  IN  [value |-> value, log2 |-> log2, pure |-> value = 2^log2]

(* Mutant: the carry of the high byte's products is not handed on. *)
MulCarry_Low(hi) == 0

MulCarry(hi) == HighPart(hi)

(* fixnum_mul16; of the result only whether it is zero is used. *)
fixnum_mul16(f, m) ==
  LET low  == LowLimb(m.value)
      high == HighPart(m.value)
      from[k \in 1 .. Len(f) + 1] ==   \* acc_low and acc_high
        IF k = Len(f) + 1 THEN [low |-> <<>>, lo |-> 0, hi |-> 0]
        ELSE LET acc == from[k + 1]
                 sum == acc.lo + low * f[k] + LowLimb(acc.hi)
             IN  [low |-> Append(acc.low, LowLimb(sum)), lo |-> HighPart(sum),
                  hi |-> MulCarry(acc.hi) + high * f[k]]
  IN  IF m.pure THEN fixnum_shl(f, m.log2)
      ELSE [limbs |-> Reverse(from[1].low), carry |-> from[1].lo + from[1].hi # 0]
------------------------------------------------------------------------------
(* fixnum_divisor_init_from_multiplier16 for numbers of n limbs. *)
DivisorOfMultiplier(m, n) ==
  [log2 |-> m.log2, pure |-> m.pure,
   max_left_shift |->
     fixnum_shl([k \in 1 .. n |-> CASE k = 1  -> HighPart(m.value)
                                    [] k = 2  -> LowLimb(m.value)
                                    [] OTHER  -> 0], 2 * LimbBits - m.log2 - 1).limbs]

(* fixnum_divisor_init_from_fixnum, with popcnt the count that it takes    *)
(* the number of one bits for.  For 0 and 1 its asserts fail.              *)
DivisorOfFixnum(f, popcnt) ==
  LET log2 == fixnum_calc_log2(f)
      shifted[k \in 0 .. BitLength(f) - 1 - log2] ==
        IF k = 0 THEN f ELSE fixnum_shl(shifted[k - 1], 1).limbs
  IN  [log2 |-> log2, pure |-> popcnt = 1, max_left_shift |-> shifted[BitLength(f) - 1 - log2]]

(* The shift of fixnum_shr_in is a uint8_t, and its asserts are that it is *)
(* at most 16 and that there is room for what comes in.                    *)
ShrInAborts(shift, in) == (shift % 2^8) > 2 * LimbBits \/ in >= 2^(shift % 2^8)

DivAborts(d, plus1) == d.pure /\ ShrInAborts(d.log2, plus1)

fixnum_shr_in(f, log2, in) ==
  LET shift == log2 % 2^8
      r     == fixnum_shr(f, shift)
  IN  [limbs |-> IF shift = 0 THEN r.limbs ELSE fixnum_poke(r.limbs, BitLength(f) - shift, shift, in),
       rest  |-> r.rest]

(* Mutant: the first bit of 2^n is compared like any other. *)
Subtracts_Compared(borrow, plus1, first) == ~borrow

(* Whether the divisor is taken off, and a one goes into the quotient: the *)
(* first time always when the dividend is one more than the maximum.       *)
Subtracts(borrow, plus1, first) == ~borrow \/ (first /\ plus1 = 1)

(* fixnum_div by long division, with scratch numbers of n limbs; for plus1 *)
(* = 1 the dividend is one more than the largest number of f's size.       *)
fixnum_div(f0, d, n, plus1) ==
  LET f == IF plus1 = 1 THEN [k \in DOMAIN f0 |-> 0] ELSE f0
      b == [k \in 1 .. n |->
              IF k = n - Len(f) /\ plus1 = 1 THEN 1 ELSE Widened(f, n)[k]]
      count == BitLength(f) - d.log2
      loop[i \in 0 .. count] ==
        IF i = 0
          THEN [f |-> [k \in DOMAIN f |-> 0], a |-> Widened(d.max_left_shift, n), b |-> b]
          ELSE LET s    == loop[i - 1]
                   t    == fixnum_sub(s.b, s.a)
                   take == Subtracts(t.carry < 0, plus1, i = 1)
               IN  [f |-> fixnum_add_uint16(fixnum_shl(s.f, 1).limbs, IF take THEN 1 ELSE 0).limbs,
                    a |-> fixnum_shr(s.a, 1).limbs,
                    b |-> IF take THEN t.limbs ELSE fixnum_add(t.limbs, s.a).limbs]
  IN  IF d.pure THEN fixnum_shr_in(f, d.log2, plus1)
      ELSE [limbs |-> loop[count].f,
            rest  |-> loop[count].b[n - 1] * 2^LimbBits + loop[count].b[n]]
==============================================================================
