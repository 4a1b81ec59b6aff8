------------------------------ MODULE TableSpec ------------------------------
(***************************************************************************)
(* What a hash table of shashtbl.c promises: the elements of each key, the *)
(* one that is found first in front.                                       *)
(***************************************************************************)
EXTENDS SequencesExt

CONSTANTS Elements, Keys, KeyOf   \* KeyOf: element |-> its key

VARIABLES
  unique,   \* at most one element for each key
  entries   \* key |-> its elements

Init == unique \in BOOLEAN /\ entries = [k \in Keys |-> <<>>]

Put(e) ==
  /\ unique => entries[KeyOf[e]] = <<>>
  /\ \A n \in DOMAIN entries[KeyOf[e]] : entries[KeyOf[e]][n] # e
  /\ entries' = [entries EXCEPT ![KeyOf[e]] = <<e>> \o @]
  /\ UNCHANGED unique

Take(e) ==
  /\ \E n \in DOMAIN entries[KeyOf[e]] :
       entries[KeyOf[e]][n] = e /\ entries' = [entries EXCEPT ![KeyOf[e]] = RemoveAt(@, n)]
  /\ UNCHANGED unique

Clear == entries' = [k \in Keys |-> <<>>] /\ UNCHANGED unique

Next == Clear \/ \E e \in Elements : Put(e) \/ Take(e)
Spec == Init /\ [][Next]_<<unique, entries>>
==============================================================================
