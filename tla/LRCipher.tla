------------------------------- MODULE LRCipher -------------------------------
(***************************************************************************)
(* lrcipher_execute: the four-round Feistel network that encrypts the      *)
(* master secret when it is split and decrypts it when it is recovered,    *)
(* run in place on the two halves of `dst'.  A half is the set of its one  *)
(* bits.  The round function (PBKDF2 under passphrase, identifier and      *)
(* iteration count, with the half in the salt) is any function of the      *)
(* round and the half, the same in both directions.                        *)
(***************************************************************************)
EXTENDS Integers

CONSTANT HalfBits            \* the bits of half a secret

Half == SUBSET HalfBits
Xor(a, b) == (a \ b) \cup (b \ a)

ENCRYPT == 0
DECRYPT == 3

VARIABLES
  F,        \* the round functions: [0 .. 3 -> [Half -> Half]]
  src,      \* the secret before it was encrypted
  dst,      \* [L, R]: the buffer the rounds work on
  dir, i    \* direction, and the rounds done in it

vars == <<F, src, dst, dir, i>>

Block == [L : Half, R : Half]

(* Mutant: both directions use the rounds in the same order. *)
RoundOf_SameOrder(k, d) == k

(* i ^ dir *)
RoundOf(k, d) == IF d = ENCRYPT THEN k ELSE 3 - k

(* helper(): every round but the last exchanges the halves. *)
Helper(block, round, last) ==
  LET tmp == Xor(block.L, F[round][block.R]) IN
    IF last THEN [L |-> tmp, R |-> block.R]
            ELSE [L |-> block.R, R |-> tmp]

Init ==
  /\ F \in [0 .. 3 -> [Half -> Half]]
  /\ src \in Block
  /\ dst = src /\ dir = ENCRYPT /\ i = 0

Round ==
  /\ i < 4
  /\ dst' = Helper(dst, RoundOf(i, dir), i = 3)
  /\ i' = i + 1
  /\ UNCHANGED <<F, src, dir>>

(* slip0039_decrypt on what slip0039_encrypt left. *)
Turn ==
  /\ i = 4 /\ dir = ENCRYPT
  /\ dir' = DECRYPT /\ i' = 0
  /\ UNCHANGED <<F, src, dst>>

Next == Round \/ Turn
Spec == Init /\ [][Next]_vars

(* Decryption restores what encryption was given, for every secret and     *)
(* whatever the round function is, although neither direction inverts it   *)
(* (lrcipher.c:50-83: the order of the rounds and the exchange of halves). *)
DecryptInvertsEncrypt == dir = DECRYPT /\ i = 4 => dst = src
------------------------------------------------------------------------------
(* The inductive invariant: the values X0 .. X5 the halves run through,    *)
(* upwards while encrypting and downwards while decrypting.                *)
X2 == Xor(src.L, F[0][src.R])
X3 == Xor(src.R, F[1][X2])
X4 == Xor(X2, F[2][X3])
X5 == Xor(X3, F[3][X4])

Holds(l, r) == dst = [L |-> l, R |-> r]

Encrypting ==
  /\ i = 0 => Holds(src.L, src.R)
  /\ i = 1 => Holds(src.R, X2)
  /\ i = 2 => Holds(X2, X3)
  /\ i = 3 => Holds(X3, X4)
  /\ i = 4 => Holds(X5, X4)

Decrypting ==
  /\ i = 0 => Holds(X5, X4)
  /\ i = 1 => Holds(X4, X3)
  /\ i = 2 => Holds(X3, X2)
  /\ i = 3 => Holds(X2, src.R)
  /\ i = 4 => Holds(src.L, src.R)

CipherInv ==
  /\ F \in [0 .. 3 -> [Half -> Half]] /\ src \in Block
  /\ dir \in {ENCRYPT, DECRYPT} /\ i \in 0 .. 4
  /\ dir = ENCRYPT => Encrypting
  /\ dir = DECRYPT => Decrypting
==============================================================================
