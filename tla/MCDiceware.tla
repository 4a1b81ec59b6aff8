------------------------------ MODULE MCDiceware ------------------------------
(***************************************************************************)
(* Words of a list of five, in blocks of five bits: two of them fill a     *)
(* block and four of them two, while other numbers of words are refused.   *)
(* As for a real secret, a division by a power of two is a shift that is   *)
(* possible, and the one that follows is not, or is cut off to one that is *)
(* (in two blocks).                                                        *)
(***************************************************************************)
EXTENDS Diceware

(* What the theorems about all words and all chains suppose (the real list *)
(* fails the first of them for 26 and for 31 words, as MCCodec shows).     *)
ASSUME WordsFitAssumption       == WordsFit
ASSUME ChainsAreShortAssumption == ChainsAreShort

MCValues == {0, 11, 24} \cup {25, 26, 30, 31} \cup {624, 625, 800, 1023}
==============================================================================
