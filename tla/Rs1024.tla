-------------------------------- MODULE Rs1024 --------------------------------
(***************************************************************************)
(* rs1024.c: the checksum of a mnemonic, a Reed-Solomon code over GF(1024) *)
(* of three words.  The 30 bits of the state chk, and the 10 bits of a     *)
(* word, are the sets of their one bits.                                   *)
(***************************************************************************)
EXTENDS Integers, SequencesExt

WordBits == 0 .. 9
Word     == SUBSET WordBits

(* The bits of a number, and the bits b shifted to the left. *)
BitsOf(n)    == {k \in 0 .. 29 : (n \div 2^k) % 2 = 1}
Up(b, shift) == {k + shift : k \in b}

(* Mutant: one bit of one constant is wrong. *)
Gen_WrongBit ==
  <<14737472, 29474944, 58949888, 117899776, 235798537,
    470557714, 940076069, 814808136, 565311632, 66318624>>

(* gen[], in decimal. *)
Gen ==
  <<14737472, 29474944, 58949888, 117899776, 235798537,
    470557714, 940076068, 814808136, 565311632, 66318624>>

gen == [i \in WordBits |-> BitsOf(Gen[i + 1])]

(* rs1024_add_value, without the count of the values. *)
AddValue(chk, value) ==
  LET shifted == SymDiff(Up(chk \cap 0 .. 19, 10), value)
      b       == {k - 20 : k \in chk \cap 20 .. 29}
  IN  FoldSet(LAMBDA i, acc : SymDiff(acc, gen[i]), shifted, b)

(* rs1024_add_array *)
AddArray(chk, values) == FoldLeft(AddValue, chk, values)

Initial == BitsOf(1)   \* RS1024_INIT

(* rs1024_init_slip0039: the customization string "shamir". *)
Customized ==
  AddArray(Initial, <<BitsOf(115), BitsOf(104), BitsOf(97), BitsOf(109), BitsOf(105), BitsOf(114)>>)

Zeroes == <<{}, {}, {}>>

(* rs1024_checksum: three words, the most significant first. *)
Checksum(chk) ==
  LET c == SymDiff(AddArray(chk, Zeroes), BitsOf(1))
  IN  [i \in 1 .. 3 |-> {k \in WordBits : k + 10 * (3 - i) \in c}]

rs1024_add(words)    == words \o Checksum(AddArray(Customized, words))
rs1024_verify(words) == AddArray(Customized, words) = Initial
==============================================================================
