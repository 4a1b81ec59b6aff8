------------------------------- MODULE Numbers -------------------------------
(***************************************************************************)
(* fixnum.c and base.c against the numbers that the limbs stand for.  A    *)
(* job is a call with its arguments, within what the asserts of the code   *)
(* demand; result is what it returned, once it is done.                    *)
(***************************************************************************)
EXTENDS Base

CONSTANTS
  Sizes,    \* of numbers, in limbs
  Extras,   \* by how many limbs the scratch numbers may be longer
  Values,   \* of multipliers
  Counts    \* for each of them, how many digits there may be

ASSUME NumbersAssumption ==
  /\ LimbBits <= 8
  /\ Sizes \subseteq Nat \ {0, 1} /\ Extras \subseteq Nat
  /\ Values \subseteq 2 .. 2^(2 * LimbBits) - 1
  /\ Counts \in [Values -> SUBSET (Nat \ {0})]

VARIABLES job, result, done

vars == <<job, result, done>>

Limbs      == 0 .. 2^LimbBits - 1
NumbersOf(n) == [1 .. n -> Limbs]

(* What a sequence of digits stands for, the most significant one first.   *)
NumberOf(digits, r) ==
  LET upto[k \in 0 .. Len(digits)] == IF k = 0 THEN 0 ELSE upto[k - 1] * r + digits[k]
  IN  upto[Len(digits)]
Value(f) == NumberOf(f, 2^LimbBits)

(* r^k *)
Power(r, k) == LET p[j \in 0 .. k] == IF j = 0 THEN 1 ELSE p[j - 1] * r IN p[k]

(* The logarithm of a divisor goes through the uint8_t of a shift.         *)
DivisorSizes == {n \in Sizes : LimbBits * n <= 2^8}

ShiftJobs  == UNION {[op : {"shift"}, f : NumbersOf(n), by : 0 .. 2 * LimbBits] : n \in Sizes}
FieldJobs  ==
  {j \in UNION {[op : {"field"}, f : NumbersOf(n), offset : 0 .. LimbBits * n - 1,
                 size : 1 .. 2 * LimbBits + 1, in : 0 .. 2^(2 * LimbBits + 1) - 1] : n \in Sizes} :
     j.in < 2^Clipped(j.f, j.offset, j.size)}
DivideJobs ==
  UNION {[op : {"divide"}, f : NumbersOf(n), m : Values, n : {n + x : x \in Extras},
          plus1 : 0 .. 1] : n \in Sizes}
DivideByJobs ==
  {j \in UNION {[op : {"divide_by"}, f : NumbersOf(n), d : NumbersOf(n), n : {n + x : x \in Extras},
                 plus1 : 0 .. 1] : n \in DivisorSizes} :
     Value(j.d) > 1}
EncodeJobs ==
  UNION {UNION {[op : {"encode"}, f : NumbersOf(n), m : {m}, size : Counts[m],
                 shift : 0 .. 2 * LimbBits, n : {n + x : x \in Extras}] : m \in Values} : n \in Sizes}
DecodeJobs ==
  UNION {UNION {[op : {"decode"}, digits : [1 .. k -> 0 .. m - 1], m : {m},
                 shift : 0 .. 2 * LimbBits, n : Sizes] : k \in Counts[m]} : m \in Values}

Jobs == ShiftJobs \cup FieldJobs \cup DivideJobs \cup DivideByJobs \cup EncodeJobs \cup DecodeJobs

Init == job \in Jobs /\ result = {} /\ done = FALSE

Returns(op, value) == /\ job.op = op /\ ~done
                      /\ result' = value
                      /\ done' = TRUE /\ UNCHANGED job

Shift == /\ job.op = "shift"
         /\ Returns("shift", [left  |-> fixnum_shl(job.f, job.by),
                              right |-> fixnum_shr(job.f, job.by)])

Field == /\ job.op = "field"
         /\ Returns("field", LET g == fixnum_poke(job.f, job.offset, job.size, job.in)
                             IN  [limbs |-> g, peeked |-> fixnum_peek(g, job.offset, job.size)])

Divide == /\ job.op = "divide"
          /\ Returns("divide",
               fixnum_div(job.f, DivisorOfMultiplier(Multiplier(job.m), Len(job.f)), job.n, job.plus1))

DivideBy == /\ job.op = "divide_by"
            /\ LET d == DivisorOfFixnum(job.d, fixnum_popcnt(job.d, 0)) IN
                 /\ ~DivAborts(d, job.plus1)
                 /\ Returns("divide_by", fixnum_div(job.f, d, job.n, job.plus1))

Encode == /\ job.op = "encode"
          /\ Returns("encode", base_encode(job.f, job.size, Multiplier(job.m), job.shift, job.n))

Decode == /\ job.op = "decode"
          /\ Returns("decode", base_decode(job.n, Multiplier(job.m), job.digits, job.shift))

Next == Shift \/ Field \/ Divide \/ DivideBy \/ Encode \/ Decode

Spec == Init /\ [][Next]_vars
------------------------------------------------------------------------------
Returned(op) == job.op = op /\ done

(* fixnum_shl and fixnum_shr (fixnum.c:117-173) multiply and divide by     *)
(* powers of two, for every shift from nothing to two limbs: no bit is     *)
(* lost between limbs, the carry tells whether one was lost at the top,    *)
(* and the rest is the remainder.                                          *)
ShiftsAreExact ==
  Returned("shift") =>
    LET v       == Value(job.f)
        modulus == 2^BitLength(job.f)
    IN  /\ Value(result.left.limbs) = (v * 2^job.by) % modulus
        /\ result.left.carry <=> v * 2^job.by >= modulus
        /\ Value(result.right.limbs) = v \div 2^job.by
        /\ result.right.rest = v % 2^job.by

(* fixnum_poke (fixnum.c:290-329) replaces the bits of a field, also one   *)
(* that spreads over three limbs or is cut off at the top, and no other;   *)
(* fixnum_peek (249-288) finds the same field.                             *)
FieldsAreExact ==
  Returned("field") =>
    LET v     == Value(job.f)
        field == (v \div 2^job.offset) % 2^Clipped(job.f, job.offset, job.size)
    IN  /\ Value(result.limbs) = v + (job.in - field) * 2^job.offset
        /\ result.peeked = job.in

(* fixnum_div (fixnum.c:420-467) returns quotient and remainder for both   *)
(* kinds of divisors, scratch numbers of the same size and longer ones,    *)
(* and for the dividend 2^n that does not fit a number of n bits.  Of the  *)
(* remainder only two limbs are returned.                                  *)
DivisionIsExact ==
  \A op \in {"divide", "divide_by"} :
    Returned(op) =>
      LET dividend == IF job.plus1 = 1 THEN 2^BitLength(job.f) ELSE Value(job.f)
          divisor  == IF op = "divide" THEN job.m ELSE Value(job.d)
      IN  /\ Value(result.limbs) = dividend \div divisor
          /\ result.rest = (dividend % divisor) % 2^(2 * LimbBits)

(* base.c: the digits of a number are the last ones of its value, and when *)
(* they are enough, decoding them gives the number again.  Digits that do  *)
(* not fit are reported; what is decoded without a report is right but for *)
(* a carry out of the last addition, which nothing looks at and a power of *)
(* two does not have.                                                      *)
ConversionInverts ==
  /\ Returned("encode") =>
       LET back    == base_decode(Len(job.f), Multiplier(job.m), result, job.shift)
           v       == Value(job.f)
           modulus == Power(job.m, job.size)
       IN  /\ NumberOf(result, job.m) = (v \div 2^job.shift) % modulus
           /\ \A k \in DOMAIN result : result[k] < job.m
           /\ v \div 2^job.shift < modulus =>
                /\ ~back.overflow
                /\ Value(back.limbs) = v - (v % 2^job.shift)
  /\ Returned("decode") =>
       LET v       == NumberOf(job.digits, job.m)
           modulus == 2^(LimbBits * job.n)
       IN  /\ v < modulus => ~result.overflow
           /\ ~result.overflow => Value(result.limbs) = (v * 2^job.shift) % modulus
           /\ Multiplier(job.m).pure => (result.overflow <=> v >= modulus)
==============================================================================
