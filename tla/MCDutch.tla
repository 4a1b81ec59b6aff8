------------------------------- MODULE MCDutch -------------------------------
(***************************************************************************)
(* Words typed for a wordlist in which a word is listed twice, as three    *)
(* are in wordlists/wordlist_diceware_dutch.txt: "abc" has the indices 295 *)
(* and 296.  The list ends there, and its other words are stand-ins that   *)
(* are all different; which they are makes no difference to the search.    *)
(***************************************************************************)
EXTENDS Wordlist

VARIABLES
  typed,    \* the word typed, by an index it has in the list
  stored    \* what wordlist_search makes of it

Stand(i) == IF i = 0 THEN <<97>> ELSE <<97, 98 + i>>
Dutch    == [i \in 0 .. 296 |-> IF i = 296 THEN Stand(295) ELSE Stand(i)]

Init == typed \in DOMAIN Dutch /\ stored = <<>>

Encode == /\ stored = <<>>
          /\ stored' = Words(Dutch, Dutch[typed]).words
          /\ UNCHANGED typed

Spec == Init /\ [][Encode]_<<typed, stored>>

(* README.md:31 says of diceware "this codec can store a diceware          *)
(* passphrase": what is printed for the word stored is the word typed.     *)
StoresTheWordTyped == stored # <<>> => Printed(Dutch, stored) = Dutch[typed]
==============================================================================
