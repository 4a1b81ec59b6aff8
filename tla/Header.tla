-------------------------------- MODULE Header --------------------------------
(***************************************************************************)
(* A share as a line of words, as slip0039_print_mnemonics writes it and   *)
(* slip0039_add_mnemonic reads it: 40 bits of header in four words, the    *)
(* share in as many as it takes, and three words of checksum.  The bytes   *)
(* and words are real ones (LimbBits is 8, a word has 10 bits).            *)
(***************************************************************************)
EXTENDS Base

RS == INSTANCE Rs1024

M == Multiplier(1024)   \* wordlist_slip0039.m

(* The fields of the header: name, offset, size, and what is subtracted.   *)
Fields ==
  << <<"id", 25, 15, 0>>, <<"e", 20, 5, 0>>, <<"GI", 16, 4, 0>>, <<"GT", 12, 4, 1>>,
     <<"G", 8, 4, 1>>, <<"I", 4, 4, 0>>, <<"T", 0, 4, 1>> >>

(* The asserts of fixnum_poke. *)
Fits(h) == \A k \in DOMAIN Fields : h[Fields[k][1]] - Fields[k][4] \in 0 .. 2^Fields[k][3] - 1

(* slip0039_header, written over what it held for the line before. *)
WriteHeader(buffer, h) ==
  FoldLeft(LAMBDA b, f : fixnum_poke(b, f[2], f[3], h[f[1]] - f[4]), buffer, Fields)

ReadHeader(bytes) ==
  [name \in {Fields[k][1] : k \in DOMAIN Fields} |->
     LET f == CHOOSE f \in ToSet(Fields) : f[1] = name
     IN  fixnum_peek(bytes, f[2], f[3]) + f[4]]

AsBits(words) == [k \in DOMAIN words |-> RS!BitsOf(words[k])]

(* Mutant: the words of the share are rounded down. *)
ShareWords_RoundedDown(n) == (8 * n) \div 10

ShareWords(n) == (8 * n + 9) \div 10

(* What slip0039_print_mnemonics prints, as numbers of words. *)
Data(header, share) ==
  base_encode(header, 4, M, 0, 64) \o base_encode(share, ShareWords(Len(share)), M, 0, 64)

Line(data) ==
  LET line == RS!rs1024_add(AsBits(data))
  IN  [k \in DOMAIN line |-> SumSet({2^b : b \in line[k]})]

Unreadable == [ok |-> FALSE]

(* What slip0039_add_mnemonic makes of it; n and surplus as in Mnemonic.   *)
ReadLine(words) ==
  LET count   == Len(words)
      n       == 2 * ((10 * (count - 7)) \div 16)
      surplus == (10 * (count - 7)) % 16
      share   == base_decode(n, M, SubSeq(words, 5, count - 3), 0)
  IN  IF ~RS!rs1024_verify(AsBits(words)) \/ count < 20 \/ surplus >= 10 \/ share.overflow
        THEN Unreadable
        ELSE [ok     |-> TRUE,
              header |-> ReadHeader(base_decode(5, M, SubSeq(words, 1, 4), 0).limbs),
              share  |-> share.limbs]
==============================================================================
