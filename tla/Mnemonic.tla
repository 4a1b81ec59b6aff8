------------------------------ MODULE Mnemonic ------------------------------
(***************************************************************************)
(* One line of mnemonic input as slip0039_add_mnemonic sees it.  A line is *)
(* a record: what the tokenizer and the checksum say of it, and the header *)
(* fields and the share value that its words decode to.                    *)
(*   readable  the line fits the LINE buffer and ends in a newline         *)
(*   words     how many words it has                                       *)
(*   sound     every word is in the list and the RS1024 checksum verifies  *)
(*   id e GI GT G I T   the header fields (GT, G and T after the "+ 1")    *)
(*   pad       the padding bits of the share value are all zero            *)
(*   data      the share value                                             *)
(***************************************************************************)
EXTENDS Integers

CONSTANTS
  MaxShares,   \* MAX_SHARES: bound on groups and on members per group
  Lines        \* the lines a user may type

WORDS    == 59           \* most words of a mnemonic (BLOCKS = 32)
MinWords == 20           \* least words of a mnemonic
MaxId    == 32767        \* the identifier has 15 bits
MaxE     == 31           \* and the iteration exponent 5
Index    == 0 .. MaxShares - 1

(* The size in bytes of a share value of l.words words, and the number of  *)
(* padding bits in front of it.                                            *)
Bytes(l)   == 2 * ((10 * (l.words - 7)) \div 16)
Surplus(l) == (10 * (l.words - 7)) % 16

(* The lines a mnemonic record ranges over. *)
LineType(l) ==
  /\ l.readable \in BOOLEAN /\ l.sound \in BOOLEAN /\ l.pad \in BOOLEAN
  /\ l.words \in Nat
  /\ l.id \in 0 .. MaxId /\ l.e \in 0 .. MaxE
  /\ l.GI \in Index /\ l.I \in Index
  /\ l.GT \in 1 .. MaxShares /\ l.G \in 1 .. MaxShares /\ l.T \in 1 .. MaxShares

ASSUME MaxSharesAssumption == MaxShares \in 1 .. 254
ASSUME LinesAssumption     == \A l \in Lines : LineType(l)

(* The checks that look at nothing but the line itself and come before any *)
(* state is touched.                                                       *)
WellFormed(l) ==
  /\ l.readable
  /\ l.words <= WORDS
  /\ l.sound
  /\ l.words >= MinWords
  /\ Surplus(l) < 10

(* The part of a line that all mnemonics of one backup share. *)
Header(l) == [id |-> l.id, e |-> l.e, GT |-> l.GT, G |-> l.G, n |-> Bytes(l)]

(* What is kept of an accepted line. *)
Share(l) == [header |-> Header(l), GI |-> l.GI, I |-> l.I, T |-> l.T, data |-> l.data]
=============================================================================
