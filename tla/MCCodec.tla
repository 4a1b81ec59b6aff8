------------------------------- MODULE MCCodec -------------------------------
(***************************************************************************)
(* How many words of a diceware passphrase are accepted, and how many come *)
(* back: the words are typed in one after the other, and after each of     *)
(* them the line may end.  The bytes and the powers of 7776 are real ones. *)
(***************************************************************************)
EXTENDS Codec

VARIABLES
  phase,      \* "typing"; "counting" the words that come back; "counted"
  no_input,   \* words on input
  f,          \* 7776 to the power of no_input, or of no_words
  no_words    \* words on output

vars == <<phase, no_input, f, no_words>>

MCHash(bytes) == 0

Init == /\ phase = "typing" /\ no_input = 0
        /\ f = Uint16(2 * BLOCKS, 1) /\ no_words = 0

Word == /\ phase = "typing" /\ ~NextPower(f).carry
        /\ f' = NextPower(f).limbs
        /\ no_input' = no_input + 1 /\ UNCHANGED <<phase, no_words>>

(* diceware_encode accepts the words, and diceware_decode is called with   *)
(* as many bytes as they took.                                             *)
Accept == /\ phase = "typing" /\ no_input > 0 /\ DicewareAccepts(f)
          /\ f' = Uint16(DicewareBytes(f), 1)
          /\ phase' = "counting" /\ UNCHANGED <<no_input, no_words>>

Count == /\ phase = "counting"
         /\ IF NextPower(f).carry
              THEN phase' = "counted" /\ UNCHANGED <<f, no_words>>
              ELSE f' = NextPower(f).limbs /\ no_words' = no_words + 1 /\ UNCHANGED phase
         /\ UNCHANGED no_input

Next == Word \/ Accept \/ Count
Spec == Init /\ [][Next]_vars

(* README.md:31-36: diceware "can store a diceware passphrase of at least  *)
(* 9 words", and the system says so if it needs an extra word: as many     *)
(* words as were accepted come back.                                       *)
AllWordsComeBack == phase = "counted" => no_words = no_input
=============================================================================
