--------------------------------- MODULE Base ---------------------------------
(***************************************************************************)
(* base.c: a number to digits (words of a wordlist) and back.              *)
(***************************************************************************)
EXTENDS Fixnum

(* base_encode_buffer: size digits of `in' without its last bits; scratch  *)
(* is the number of limbs to divide with.                                  *)
base_encode(in, size, m, shift, scratch) ==
  LET d == DivisorOfMultiplier(m, Len(in))
      loop[i \in 0 .. size] ==
        IF i = 0 THEN [limbs |-> fixnum_shr(in, shift).limbs, out |-> <<>>]
        ELSE LET s == loop[i - 1]
                 q == fixnum_div(s.limbs, d, scratch, 0)
             IN  [limbs |-> q.limbs, out |-> <<q.rest>> \o s.out]
  IN  loop[size].out

(* One digit, when there was no overflow before. *)
DecodeStep(d, m, digit) ==
  LET p == fixnum_mul16(d.limbs, m) IN
    IF p.carry THEN p ELSE [p EXCEPT !.limbs = fixnum_add_uint16(@, digit).limbs]

(* base_decode_fixnum into a number of n limbs: returns at an overflow,    *)
(* with the limbs as they are then.                                        *)
base_decode(n, m, digits, shift) ==
  LET loop[i \in 1 .. Len(digits)] ==
        IF i = 1 THEN [limbs |-> Uint16(n, digits[1]), carry |-> FALSE]
        ELSE LET s == loop[i - 1] IN
             IF s.carry THEN s ELSE DecodeStep(s, m, digits[i])
      end == loop[Len(digits)]
  IN  [limbs    |-> IF end.carry THEN end.limbs ELSE fixnum_shl(end.limbs, shift).limbs,
       overflow |-> end.carry]
==============================================================================
