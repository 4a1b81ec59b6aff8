------------------------------- MODULE Recover -------------------------------
(***************************************************************************)
(* The recover mode of slip0039.c: add_mnemonic's bookkeeping of groups    *)
(* and shares, the quorum test, slip0039_recover with its loops, asserts   *)
(* and early exits, and the decryption of the encrypted master secret.     *)
(*                                                                         *)
(* A slip0039_set_t is an element of Sets: ROOT or the index of a group.   *)
(* The fields of the sets are functions on Sets.  `shares' is the array of *)
(* pointers, read as a partial function: an index is in its domain iff the *)
(* pointer is not NULL.  As in the code the digest and the secret are      *)
(* shares too, at -2 and -1, that is at x = 254 and x = 255.               *)
(***************************************************************************)
EXTENDS Mnemonic, FiniteSets

CONSTANTS
  NoLine,              \* no line: not an element of Lines
  NoSecret,            \* nothing recovered yet
  Interpolate(_, _),   \* lagrange(): points, x |-> value at x
  DigestOK(_, _),      \* the comparison in digest_verify()
  Decrypt(_, _, _)     \* lrcipher_execute(LRCIPHER_DECRYPT)

ASSUME NoLineAssumption == NoLine \notin Lines

ROOT    == -1
DigestX == 254
SecretX == 255
Sets    == Index \cup {ROOT}

VARIABLES
  n, id, e, count,     \* s->n, s->id, s->e and s->root.count
  threshold,           \* threshold of each set (0: group not seen yet)
  available,           \* available members of each set
  shares,              \* shares of each set
  plaintext,           \* s->plaintext
  phase,               \* where main() is
  i, j, idx,           \* slip0039_recover: root's index, group's index and idx[]
  refused              \* the line a FATAL message names

header == <<n, id, e, count>>
store  == <<threshold, available, shares>>
loop   == <<i, j, idx>>
vars   == <<header, store, loop, plaintext, phase, refused>>

Phases == {"mnemonics", "quorum", "groups", "shares", "group", "root",
           "decrypt", "done", "fatal", "abort"}

Put(f, k, v) == [x \in DOMAIN f \cup {k} |-> IF x = k THEN v ELSE f[x]]
Loaded(s)    == DOMAIN shares[s] \cap Index

(* Mutant: a set without a threshold counts as complete. *)
Quorum_Zero(s) == available[s] >= threshold[s]

(* slip0039_quorum *)
Quorum(s) == available[s] >= threshold[s] /\ threshold[s] # 0

Init ==
  /\ n = 0 /\ id = -1 /\ e = -1 /\ count = 0
  /\ threshold = [s \in Sets |-> 0]
  /\ available = [s \in Sets |-> 0]
  /\ shares = [s \in Sets |-> [k \in {} |-> NoSecret]]
  /\ plaintext = NoSecret
  /\ phase = "mnemonics"
  /\ i = 0 /\ j = 0 /\ idx = {}
  /\ refused = NoLine
------------------------------------------------------------------------------
(* slip0039_add_mnemonic: a chain of checks, the first that fails ends the *)
(* program, but only after the assignments that come before it.            *)

(* Mutant: every mnemonic sets the group threshold anew. *)
Matches_AnyGT(l) ==
  n # 0 => [id |-> id, e |-> e, G |-> count, n |-> n] =
           [id |-> l.id, e |-> l.e, G |-> l.G, n |-> Bytes(l)]

Matches(l) ==
  n # 0 => [id |-> id, e |-> e, GT |-> threshold[ROOT], G |-> count, n |-> n] = Header(l)

(* Mutant: the group index is not compared with the group count. *)
Placed_AnyGroup(l) == WellFormed(l) /\ Matches(l)

Placed(l) == WellFormed(l) /\ Matches(l) /\ l.GI < l.G

AdoptHeader(l) == n' = Bytes(l) /\ id' = l.id /\ e' = l.e /\ count' = l.G

(* The thresholds after the header was adopted, and after a new group was. *)
RootThreshold(l)  == [threshold EXCEPT ![ROOT] = l.GT]
GroupThreshold(l) ==
  [RootThreshold(l) EXCEPT ![l.GI] = IF threshold[l.GI] = 0 THEN l.T ELSE @]

LoadedShares(l) == [shares EXCEPT ![l.GI] = Put(@, l.I, l.data)]

(* Mutant: the root is told of every share above the threshold as well. *)
IncrementAvailable_Again(g, t) ==
  [available EXCEPT
     ![g]    = @ + 1,
     ![ROOT] = IF available[g] + 1 >= t THEN @ + 1 ELSE @]

(* slip0039_set_increment_available, which climbs to the root when the     *)
(* group has just reached its threshold.                                   *)
IncrementAvailable(g, t) ==
  [available EXCEPT
     ![g]    = @ + 1,
     ![ROOT] = IF available[g] + 1 = t THEN @ + 1 ELSE @]

Fatal(l) == phase' = "fatal" /\ refused' = l

RejectMalformed(l) ==
  /\ ~WellFormed(l)
  /\ Fatal(l)
  /\ UNCHANGED <<header, store>>

RejectMismatch(l) ==
  /\ WellFormed(l) /\ ~Matches(l)
  /\ Fatal(l)
  /\ UNCHANGED <<header, store>>

RejectGroupIndex(l) ==
  /\ WellFormed(l) /\ Matches(l) /\ l.GI >= l.G
  /\ AdoptHeader(l) /\ threshold' = RootThreshold(l)
  /\ Fatal(l)
  /\ UNCHANGED <<available, shares>>

RejectMemberThreshold(l) ==
  /\ Placed(l) /\ threshold[l.GI] \notin {0, l.T}
  /\ AdoptHeader(l) /\ threshold' = RootThreshold(l)
  /\ Fatal(l)
  /\ UNCHANGED <<available, shares>>

RejectDuplicate(l) ==
  /\ Placed(l) /\ threshold[l.GI] \in {0, l.T}
  /\ l.I \in Loaded(l.GI)
  /\ AdoptHeader(l) /\ threshold' = GroupThreshold(l)
  /\ Fatal(l)
  /\ UNCHANGED <<available, shares>>

(* The share is in place when its padding turns out to be wrong. *)
RejectPadding(l) ==
  /\ Placed(l) /\ threshold[l.GI] \in {0, l.T}
  /\ l.I \notin Loaded(l.GI) /\ ~l.pad
  /\ AdoptHeader(l) /\ threshold' = GroupThreshold(l)
  /\ shares' = LoadedShares(l)
  /\ Fatal(l)
  /\ UNCHANGED available

(* Mutant: a share may be loaded twice. *)
LoadShare_Twice(l) ==
  /\ Placed(l) /\ threshold[l.GI] \in {0, l.T} /\ l.pad
  /\ AdoptHeader(l) /\ threshold' = GroupThreshold(l)
  /\ shares' = LoadedShares(l)
  /\ available' = IncrementAvailable(l.GI, l.T)
  /\ UNCHANGED <<phase, refused>>

LoadShare(l) ==
  /\ Placed(l) /\ threshold[l.GI] \in {0, l.T}
  /\ l.I \notin Loaded(l.GI) /\ l.pad
  /\ AdoptHeader(l) /\ threshold' = GroupThreshold(l)
  /\ shares' = LoadedShares(l)
  /\ available' = IncrementAvailable(l.GI, l.T)
  /\ UNCHANGED <<phase, refused>>

AddMnemonic(l) ==
  /\ phase = "mnemonics"
  /\ \/ RejectMalformed(l) \/ RejectMismatch(l) \/ RejectGroupIndex(l)
     \/ RejectMemberThreshold(l) \/ RejectDuplicate(l) \/ RejectPadding(l)
     \/ LoadShare(l)
  /\ UNCHANGED <<loop, plaintext>>

(* slip0039_add_mnemonics stops when read_stringLF returns 0: at the end   *)
(* of the file, and at an empty line.                                      *)
EndOfInput ==
  /\ phase = "mnemonics" /\ phase' = "quorum"
  /\ UNCHANGED <<header, store, loop, plaintext, refused>>
------------------------------------------------------------------------------
(* main() tests the quorum, then calls slip0039_recover on the root, whose *)
(* first assert is the test main() has just passed.                        *)
CheckQuorum ==
  /\ phase = "quorum"
  /\ IF Quorum(ROOT) THEN phase' = "groups" ELSE phase' = "fatal"
  /\ i' = 0
  /\ UNCHANGED <<header, store, j, idx, plaintext, refused>>

(* Mutant: the loop over the groups forgets its increment. *)
NextGroup_Stuck(used) ==
  IF used = threshold[ROOT] \/ i + 1 = MaxShares
    THEN phase' = "root" /\ i' = i
    ELSE phase' = "groups" /\ i' = i

(* The end of an iteration of the root's loop, `used' indices being in     *)
(* idx[]: break when they make the threshold.                              *)
NextGroup(used) ==
  IF used = threshold[ROOT] \/ i + 1 = MaxShares
    THEN phase' = "root" /\ i' = i
    ELSE phase' = "groups" /\ i' = i + 1

(* The root has no shares of its own, so idx[] of the root is Loaded(ROOT). *)
SkipGroup ==
  /\ phase = "groups" /\ ~Quorum(i)
  /\ NextGroup(Cardinality(Loaded(ROOT)))
  /\ UNCHANGED <<header, store, j, idx, plaintext, refused>>

(* The recursive call: its first assert is the guard it is called under. *)
EnterGroup ==
  /\ phase = "groups" /\ Quorum(i)
  /\ phase' = "shares" /\ j' = 0 /\ idx' = {}
  /\ UNCHANGED <<header, store, i, plaintext, refused>>

(* One iteration of the loop over the shares of group i. *)
TakeShare ==
  /\ phase = "shares"
  /\ idx' = IF j \in Loaded(i) THEN idx \cup {j} ELSE idx
  /\ IF Cardinality(idx') = threshold[i] \/ j + 1 = MaxShares
       THEN phase' = "group" /\ j' = j
       ELSE phase' = phase /\ j' = j + 1
  /\ UNCHANGED <<header, store, i, plaintext, refused>>

(* The asserts behind the loop: no_idx = threshold, and neither digest nor *)
(* secret computed before.                                                 *)
AssertsHold(s, used) ==
  /\ Cardinality(used) = threshold[s]
  /\ threshold[s] # 1 => DOMAIN shares[s] \cap {DigestX, SecretX} = {}

Points(s, used) == [k \in used |-> shares[s][k]]

SecretOf(s, used) ==
  IF threshold[s] = 1 THEN shares[s][CHOOSE k \in used : TRUE]
                      ELSE Interpolate(Points(s, used), SecretX)

(* Mutant: only the digest of the root is verified. *)
DigestFits_RootOnly(s, used) ==
  \/ threshold[s] = 1 \/ s # ROOT
  \/ DigestOK(Interpolate(Points(s, used), DigestX), Interpolate(Points(s, used), SecretX))

DigestFits(s, used) ==
  \/ threshold[s] = 1
  \/ DigestOK(Interpolate(Points(s, used), DigestX), Interpolate(Points(s, used), SecretX))

(* The set's shares with the secret and, above threshold 1, the digest. *)
Completed(s, used) ==
  IF threshold[s] = 1
    THEN Put(shares[s], SecretX, SecretOf(s, used))
    ELSE Put(Put(shares[s], DigestX, Interpolate(Points(s, used), DigestX)),
             SecretX, SecretOf(s, used))

Abort == phase' = "abort" /\ UNCHANGED <<store, i, plaintext>>

(* The rest of the call for group i and, if it returns, of the iteration   *)
(* of the root's loop that made it.                                        *)
RecoverGroup ==
  /\ phase = "group"
  /\ \/ ~AssertsHold(i, idx) /\ Abort
     \/ /\ AssertsHold(i, idx) /\ ~DigestFits(i, idx)
        /\ phase' = "fatal"
        /\ shares' = [shares EXCEPT ![i] = Completed(i, idx)]
        /\ UNCHANGED <<threshold, available, i>>
     \/ /\ AssertsHold(i, idx) /\ DigestFits(i, idx)
        /\ shares' = [shares EXCEPT ![i]    = Completed(i, idx),
                                    ![ROOT] = Put(@, i, SecretOf(i, idx))]
        /\ NextGroup(Cardinality(Loaded(ROOT) \cup {i}))
        /\ UNCHANGED <<threshold, available>>
  /\ UNCHANGED <<header, j, idx, plaintext, refused>>

RecoverRoot ==
  /\ phase = "root"
  /\ \/ ~AssertsHold(ROOT, Loaded(ROOT)) /\ Abort
     \/ /\ AssertsHold(ROOT, Loaded(ROOT))
        /\ shares' = [shares EXCEPT ![ROOT] = Completed(ROOT, Loaded(ROOT))]
        /\ phase' = IF DigestFits(ROOT, Loaded(ROOT)) THEN "decrypt" ELSE "fatal"
        /\ UNCHANGED <<threshold, available>>
  /\ UNCHANGED <<header, loop, plaintext, refused>>

(* slip0039_decrypt, then slip0039_print_plaintext. *)
DecryptSecret ==
  /\ phase = "decrypt"
  /\ IF SecretX \in DOMAIN shares[ROOT] /\ plaintext = NoSecret
       THEN /\ plaintext' = Decrypt(id, e, shares[ROOT][SecretX])
            /\ phase' = "done"
            /\ UNCHANGED <<store, i>>
       ELSE Abort
  /\ UNCHANGED <<header, j, idx, refused>>
------------------------------------------------------------------------------
Compute ==
  \/ CheckQuorum \/ SkipGroup \/ EnterGroup \/ TakeShare
  \/ RecoverGroup \/ RecoverRoot \/ DecryptSecret

(* The process is gone. *)
Exited == phase \in {"done", "fatal", "abort"} /\ UNCHANGED vars

Next == (\E l \in Lines : AddMnemonic(l)) \/ EndOfInput \/ Compute \/ Exited

(* The user may stop typing for ever; once the input has ended nothing     *)
(* holds the program up.                                                   *)
Spec == Init /\ [][Next]_vars /\ WF_vars(Compute)
------------------------------------------------------------------------------
(* The types of the variables: in particular a group's threshold and its   *)
(* available count never leave their ranges, and only indices 0 ..         *)
(* MaxShares - 1, 254 and 255 of a shares array are ever used.             *)
TypeOK ==
  /\ n \in Nat /\ id \in -1 .. MaxId /\ e \in -1 .. MaxE /\ count \in 0 .. MaxShares
  /\ threshold \in [Sets -> 0 .. MaxShares]
  /\ available \in [Sets -> 0 .. MaxShares]
  /\ DOMAIN shares = Sets
  /\ \A s \in Sets : DOMAIN shares[s] \subseteq Index \cup {DigestX, SecretX}
  /\ phase \in Phases
  /\ i \in Index /\ j \in Index /\ idx \subseteq Index
  /\ refused \in Lines \cup {NoLine}

(* The counters that the quorum test and the asserts of slip0039_recover   *)
(* rely on (slip0039.c:224-232) say the truth at every point where they    *)
(* are read: a group's counts its loaded shares, the root's counts the     *)
(* groups that have their quorum, whatever the order of the mnemonics.     *)
CountersExact ==
  phase # "fatal" =>
    /\ \A g \in Index : available[g] = Cardinality(Loaded(g))
    /\ available[ROOT] = Cardinality({g \in Index : Quorum(g)})

(* No assert of slip0039_recover or slip0039_decrypt fails (lines 562,     *)
(* 576, 592 and 600): once the quorum test has passed, every loop collects *)
(* exactly the threshold, and nothing is computed twice.                   *)
NoAssertFails == phase # "abort"

(* A secret is only printed for a header with GT <= G (a header that says  *)
(* otherwise is not refused when it is read, slip0039.c:362-376).          *)
GroupThresholdMet == phase = "done" => threshold[ROOT] <= count

(* slip0039.c never overwrites what it has accepted: the header, a group's *)
(* threshold and a share stay what they are once set.                      *)
KeepsAccepted ==
  /\ n # 0 => UNCHANGED <<n, id, e, count, threshold[ROOT]>>
  /\ \A g \in Index : threshold[g] # 0 => threshold'[g] = threshold[g]
  /\ \A s \in Sets : \A k \in DOMAIN shares[s] :
       k \in DOMAIN shares'[s] /\ shares'[s][k] = shares[s][k]

(* No step loses or changes what has been accepted (slip0039.c:371-418 and *)
(* the writes of slip0039_recover).                                        *)
NeverOverwritten == [][KeepsAccepted]_vars

(* Once the input has ended the program prints a secret or says why not.   *)
Answers == phase = "quorum" ~> phase \in {"done", "fatal"}
------------------------------------------------------------------------------
(* The inductive invariant: what makes CountersExact and NoAssertFails     *)
(* true after every step.                                                  *)

(* While mnemonics are read a group without a threshold has no shares, and *)
(* nothing has been seen of a group before the first mnemonic.             *)
ReadingInv ==
  phase # "fatal" =>
    /\ n = 0 => \A s \in Sets : threshold[s] = 0
    /\ \A g \in Index : /\ threshold[g] = 0 => Loaded(g) = {}
                        /\ threshold[g] # 0 => g < count

(* How far slip0039_recover has come.                                      *)
Untouched(s) == DOMAIN shares[s] \cap {DigestX, SecretX} = {}

LoopInv ==
  /\ phase \in {"mnemonics", "quorum"} =>
       Loaded(ROOT) = {} /\ \A s \in Sets : Untouched(s)
  /\ phase \in {"groups", "shares", "group"} =>
       /\ Quorum(ROOT)
       /\ Loaded(ROOT) = {g \in Index : g < i /\ Quorum(g)}
       /\ Cardinality(Loaded(ROOT)) < threshold[ROOT]
       /\ Untouched(ROOT) /\ \A g \in Index : g >= i => Untouched(g)
  /\ phase \in {"shares", "group"} => Quorum(i)
  /\ phase = "shares" =>
       /\ idx = {k \in Loaded(i) : k < j}
       /\ Cardinality(idx) < threshold[i]
  /\ phase = "group" => idx \subseteq Loaded(i) /\ Cardinality(idx) = threshold[i]
  /\ phase = "root" => Cardinality(Loaded(ROOT)) = threshold[ROOT] /\ Untouched(ROOT)
  /\ phase \in {"root", "decrypt", "done"} => Quorum(ROOT)
  /\ phase = "decrypt" => SecretX \in DOMAIN shares[ROOT]
  /\ phase # "done" => plaintext = NoSecret

IInv == TypeOK /\ CountersExact /\ ReadingInv /\ LoopInv /\ NoAssertFails
------------------------------------------------------------------------------
(* Recover implements Combine: the shares in the arrays are the accepted   *)
(* ones while the program has not refused anything.                        *)
AcceptedShares ==
  IF phase = "fatal" THEN {}
  ELSE {[header |-> [id |-> id, e |-> e, GT |-> threshold[ROOT], G |-> count, n |-> n],
         GI |-> p[1], I |-> p[2], T |-> threshold[p[1]], data |-> shares[p[1]][p[2]]] :
          p \in {q \in Index \X Index : q[2] \in DOMAIN shares[q[1]]}}

Verdict ==
  CASE phase = "mnemonics" -> "open"
    [] phase = "done"      -> "recovered"
    [] phase = "fatal"     -> "refused"
    [] phase = "abort"     -> "aborted"
    [] OTHER               -> "closed"

C == INSTANCE Combine WITH accepted <- AcceptedShares, verdict <- Verdict,
                           culprit <- refused, secret <- plaintext

(* The loops, the counters and the order of the lines make no difference   *)
(* to what Combine promises: what is accepted, which line is refused, when *)
(* a secret is printed and which.                                          *)
ImplementsCombine == C!Spec
==============================================================================
