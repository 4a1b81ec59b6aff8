-------------------------------- MODULE Codec --------------------------------
(***************************************************************************)
(* codec.c: words of a master secret to bytes and back.  base16 and bip39  *)
(* are complete here; of diceware the sizes, which both directions compute *)
(* from powers of 7776 (Diceware is about what it stores).  A word is its  *)
(* number in the wordlist.                                                 *)
(***************************************************************************)
EXTENDS Base

CONSTANT Hash(_)   \* the first byte of the SHA-256 hash of some bytes

BLOCKS  == 32
Scratch == 8 * BLOCKS   \* the scratch has room for so many numbers of words

Refused == [ok |-> FALSE]
Stores(bytes) == [ok |-> TRUE, bytes |-> bytes]
------------------------------------------------------------------------------
Base16 == Multiplier(16)

(* The sizes base16_encode accepts, in digits. *)
Base16Accepts(digits) == digits <= Scratch /\ digits % 4 = 0 /\ digits \div 2 >= 16

base16_encode(in) ==
  IF Base16Accepts(Len(in))
    THEN Stores(base_decode(Len(in) \div 2, Base16, in, 0).limbs)
    ELSE Refused

(* base16_decode: sbufprintf_base16, from the highest nibble down. *)
base16_decode(in) ==
  [k \in 1 .. 2 * Len(in) |-> fixnum_peek(in, 4 * (2 * Len(in) - k), 4)]
------------------------------------------------------------------------------
Bip39 == Multiplier(2048)

(* The bits of the last byte that no word has, for a checksum of so many.  *)
Bip39Shift(bits) == 8 - bits

Bip39Accepts(words) == words \in 12 .. 24 /\ words % 3 = 0

(* Mutant: a bit of the checksum is not compared. *)
Checksum_OneLess(hash, bits) == hash - (hash % 2^(9 - bits))

(* hash & (0xff << (8 - bits)) *)
Checksum(hash, bits) == hash - (hash % 2^(8 - bits))

(* The number of bytes is four thirds of the number of words, and a third  *)
(* of it the number of bits in the checksum.                               *)
bip39_encode(in) ==
  LET bits  == Len(in) \div 3
      n     == 4 * bits
      out   == base_decode(n + 1, Bip39, in, Bip39Shift(bits)).limbs
      bytes == SubSeq(out, 1, n)
  IN  IF Bip39Accepts(Len(in)) /\ Checksum(Hash(bytes), bits) = out[n + 1]
        THEN Stores(bytes) ELSE Refused

(* bip39_decode, of what bip39 can have stored.  The byte behind the       *)
(* plaintext is overwritten with that of the hash.                         *)
Bip39Decodes(n) == n \in 16 .. 32 /\ n % 4 = 0

bip39_decode(in) ==
  base_encode(Append(in, Hash(in)), 3 * (Len(in) \div 4), Bip39, Bip39Shift(Len(in) \div 4),
              2 * BLOCKS)
------------------------------------------------------------------------------
Dice == Multiplier(7776)

(* The smallest number of blocks of 16 bits for a logarithm. *)
Blocks(log2) == (log2 + 15) \div 16

(* f when diceware_encode reads the next word, and the scratch number when *)
(* diceware_decode tries whether another word fits.                        *)
NextPower(f) == fixnum_mul16(f, Dice)

(* The checks of diceware_encode, with f the power of 7776 for the words on *)
(* input; the overflow of the extra word is not looked at.                 *)
DicewareAccepts(f) ==
  LET blocks == Blocks(fixnum_calc_log2(f)) IN
    /\ blocks >= 8
    /\ Blocks(fixnum_calc_log2(NextPower(f).limbs)) # blocks

DicewareBytes(f) == 2 * Blocks(fixnum_calc_log2(f))
==============================================================================
