-------------------------------- MODULE Tables --------------------------------
(***************************************************************************)
(* llist.c and shashtbl.c: a hash table with a linked list for each        *)
(* bucket, whose elements begin with the pointer to the next one.  A       *)
(* pointer to such a pointer, with which elements are removed, is the head *)
(* of a bucket or the element it is in.                                    *)
(***************************************************************************)
EXTENDS Integers, SequencesExt

CONSTANTS
  Elements, NULL,
  Keys, KeyOf,   \* KeyOf: element |-> its key
  NoBuckets,     \* 1 << key_bits
  Bucket         \* key |-> the bucket its hash selects

ASSUME TableAssumption ==
  /\ IsFiniteSet(Elements) /\ NULL \notin Elements
  /\ NoBuckets \in Nat \ {0}
  /\ KeyOf \in [Elements -> Keys] /\ Bucket \in [Keys -> 1 .. NoBuckets]

VARIABLES
  unique,   \* s->unique
  owned,    \* the table has a function to free elements with
  next,     \* element |-> its first pointer
  head,     \* bucket |-> l->head
  count,    \* bucket |-> l->count
  eltp,     \* where llist_iteratorp is; Idle before it, End when it is through
  visited,  \* what it has called its function with
  before    \* the elements that were there when it began

table     == <<unique, owned, next, head, count>>
iteration == <<eltp, visited, before>>
tableVars == <<table, iteration>>

Idle == <<"idle">>
End  == <<"end">>
Buckets == 1 .. NoBuckets
HeadOf(b) == <<"head", b>>
NextOf(e) == <<"next", e>>

(* *eltp *)
Deref(p) == IF p[1] = "head" THEN head[p[2]] ELSE next[p[2]]

(* The elements from the first one on up to the one that points nowhere;   *)
(* one more than there are, when they come back to themselves.             *)
ListFrom(first, pointer) ==
  LET node[n \in 1 .. Cardinality(Elements) + 1] ==
        IF n = 1 THEN first
        ELSE IF node[n - 1] = NULL THEN NULL ELSE pointer[node[n - 1]]
  IN  [n \in 1 .. Cardinality({k \in DOMAIN node : node[k] # NULL}) |-> node[n]]

List(b) == ListFrom(head[b], next)

Members == UNION {Range(List(b)) : b \in Buckets}

(* The elements of a list that have a key. *)
OfKey(list, k) ==
  LET front[n \in 0 .. Len(list)] ==
        IF n = 0 THEN <<>>
        ELSE IF KeyOf[list[n]] = k THEN Append(front[n - 1], list[n]) ELSE front[n - 1]
  IN  front[Len(list)]

WithKey(k) == OfKey(List(Bucket[k]), k)

(* shashtbl_init_default, shashtbl_init_simple *)
TableInit ==
  /\ unique \in BOOLEAN /\ owned \in BOOLEAN
  /\ next = [e \in Elements |-> NULL] /\ head = [b \in Buckets |-> NULL]
  /\ count = [b \in Buckets |-> 0]
  /\ eltp = Idle /\ visited = <<>> /\ before = {}

Iterating == eltp \notin {Idle, End}
------------------------------------------------------------------------------
(* Mutant: only the first element of the bucket is compared. *)
Found_FirstOnly(k) == head[Bucket[k]] # NULL /\ KeyOf[head[Bucket[k]]] = k

(* shashtbl_search_elt_bykey finds something. *)
Found(k) == WithKey(k) # <<>>

(* shashtbl_add_elt, and shashtbl_alloc_and_add_elt with a new element.    *)
(* When every element is to have a key of its own, one that is there       *)
(* already is refused, else it must not come again.  An assert demands     *)
(* that it points nowhere.                                                 *)
Add(e) ==
  /\ ~Iterating /\ (unique \/ e \notin Members)
  /\ ~(unique /\ Found(KeyOf[e])) /\ next[e] = NULL
  /\ LET b == Bucket[KeyOf[e]] IN
       /\ next' = [next EXCEPT ![e] = head[b]]
       /\ head' = [head EXCEPT ![b] = e]
       /\ count' = [count EXCEPT ![b] = @ + 1]
  /\ UNCHANGED <<unique, owned, iteration>>

(* Mutant: the element is taken out of the count only as the first one. *)
CountWithout_First(p, b) == IF p[1] = "head" THEN count[b] - 1 ELSE count[b]

CountWithout(p, b) == count[b] - 1

(* llist_del_eltp: what is pointed to goes, and the pointer to it points   *)
(* to the next one.                                                        *)
Unlink(p) ==
  LET e == Deref(p)
      b == Bucket[KeyOf[e]]
  IN  /\ count' = [count EXCEPT ![b] = CountWithout(p, b)]
      /\ IF p[1] = "head"
           THEN /\ next' = [next EXCEPT ![e] = NULL]
                /\ head' = [head EXCEPT ![b] = next[e]]
           ELSE /\ next' = [next EXCEPT ![e] = NULL, ![p[2]] = next[e]]
                /\ UNCHANGED head
      /\ UNCHANGED <<unique, owned>>

(* llist_search_eltp: the first pointer to e, from the head on. *)
PointerTo(e) ==
  LET b == Bucket[KeyOf[e]]
      n == CHOOSE n \in DOMAIN List(b) : List(b)[n] = e
  IN  IF n = 1 THEN HeadOf(b) ELSE NextOf(List(b)[n - 1])

(* shashtbl_del_elt; BUG ends the program for an element that is not there. *)
Delete(e) ==
  /\ ~Iterating /\ e \in Members
  /\ Unlink(PointerTo(e)) /\ UNCHANGED iteration

(* shashtbl_del_elt_bykey *)
DeleteByKey(k) ==
  /\ ~Iterating /\ Found(k)
  /\ Unlink(PointerTo(WithKey(k)[1])) /\ UNCHANGED iteration

(* shashtbl_empty.  Elements that are not freed go on pointing to each     *)
(* other; those that are freed are new ones when they come again.          *)
Empty ==
  /\ ~Iterating
  /\ next' = IF owned THEN [e \in Elements |-> IF e \in Members THEN NULL ELSE next[e]]
                      ELSE next
  /\ head' = [b \in Buckets |-> NULL] /\ count' = [b \in Buckets |-> 0]
  /\ UNCHANGED <<unique, owned, iteration>>
------------------------------------------------------------------------------
(* shashtbl_iteratorp, with a function that may remove the element it is   *)
(* called with, and may end the iteration.                                 *)
Begin ==
  /\ ~Iterating
  /\ eltp' = HeadOf(1) /\ visited' = <<>> /\ before' = Members
  /\ UNCHANGED table

Visits == Iterating /\ Deref(eltp) # NULL /\ visited' = Append(visited, Deref(eltp))

Keep ==
  /\ Visits
  /\ eltp' = NextOf(Deref(eltp))
  /\ UNCHANGED <<table, before>>

(* Mutant: the iteration goes on behind the element that took its place. *)
AfterRemoval_Skips ==
  LET e == next[Deref(eltp)] IN IF e = NULL THEN eltp ELSE NextOf(e)

(* The pointer points to something else now: it stays. *)
AfterRemoval == eltp

RemoveVisited ==
  /\ Visits
  /\ Unlink(eltp)
  /\ eltp' = AfterRemoval
  /\ UNCHANGED before

Stop == Visits /\ eltp' = Idle /\ UNCHANGED <<table, before>>

NextBucket ==
  /\ Iterating /\ Deref(eltp) = NULL
  /\ LET b == IF eltp[1] = "head" THEN eltp[2] ELSE Bucket[KeyOf[eltp[2]]]
     IN  eltp' = IF b = NoBuckets THEN End ELSE HeadOf(b + 1)
  /\ UNCHANGED <<table, visited, before>>

TableNext ==
  \/ \E e \in Elements : Add(e) \/ Delete(e)
  \/ \E k \in Keys : DeleteByKey(k)
  \/ Empty \/ Begin \/ Keep \/ RemoveVisited \/ Stop \/ NextBucket

TablesSpec == TableInit /\ [][TableNext]_tableVars
------------------------------------------------------------------------------
(* The lists end, no element is in two places or in a bucket that is not   *)
(* its own, and the counts are exact, after any sequence of additions and  *)
(* removals (llist.c:78-91, 108-121; shashtbl.c:113-125).                  *)
ListsSound ==
  \A b \in Buckets :
    /\ IsInjective(List(b)) /\ count[b] = Len(List(b))
    /\ \A e \in Range(List(b)) : Bucket[KeyOf[e]] = b

(* An iteration during which elements are removed visits every element     *)
(* that was there when it began, and none of them twice (llist.c:157-172). *)
VisitsEachOnce == eltp = End => IsInjective(visited) /\ Range(visited) = before

T == INSTANCE TableSpec WITH entries <- [k \in Keys |-> WithKey(k)]

(* The buckets and pointers implement a map from keys to elements, where   *)
(* with unique keys there is one element at most for each, and an element  *)
(* that was added is found until it is removed (shashtbl.c:94-155).        *)
ImplementsTable == T!Spec
==============================================================================
