-------------------------------- MODULE Split --------------------------------
(***************************************************************************)
(* The split mode of slip0039.c: slip0039_split on the root and then on    *)
(* every group, and slip0039_print_mnemonics.  The PBKDF2 stream that the  *)
(* random values come from may produce any element of Draws.               *)
(*                                                                         *)
(* Sets and `shares' are as in Recover: `shares' is the array of pointers  *)
(* of each set, with the digest at 254 and the secret at 255.              *)
(***************************************************************************)
EXTENDS Lagrange, SplitSpec

CONSTANTS
  Id,          \* s->id, from the seed
  Jobs,        \* what is asked for: [spec, n, secret], an encrypted secret of n bytes
  Draws        \* the share values the random stream may produce

Index == 0 .. MaxShares - 1
ROOT  == -1
Sets  == Index \cup {ROOT}

(* The sizes in bytes that the arrays of a slip0039_t hold; BLOCKS is 32.  *)
SizeOK(size) == size \in 16 .. 2 * 32 /\ size % 2 = 0

ASSUME JobsAssumption ==
  \A job \in Jobs : Accepted(job.spec) /\ SizeOK(job.n) /\ job.secret \in Value
ASSUME DrawsAssumption == Draws \subseteq Value
ASSUME RoomAssumption  == MaxShares \in 1 .. 254

(* No two shares have the same x-coordinate, nor that of digest or secret. *)
ASSUME PointsAssumption ==
  \A p, q \in Index \cup {DigestX, SecretX} : ToByte(p) = ToByte(q) => p = q

VARIABLES
  n, e,        \* s->n and s->e
  threshold,   \* threshold of each set
  count,       \* members of each set
  shares,      \* shares of each set
  cur, i,      \* the set that is split, and its next share
  phase,       \* "enter", "draw", "print", "printed" or "abort"
  printed      \* the mnemonics on stdout

options == <<n, e, threshold, count>>
vars == <<options, shares, cur, i, phase, printed>>

Merge(f, g)  == [x \in DOMAIN f \cup DOMAIN g |-> IF x \in DOMAIN f THEN f[x] ELSE g[x]]
Put(f, k, v) == [x \in DOMAIN f \cup {k} |-> IF x = k THEN v ELSE f[x]]

Init ==
  \E job \in Jobs :
    LET s == job.spec
        G == Len(s.groups)
    IN
    /\ n = job.n /\ e = s.e
    /\ threshold = [t \in Sets |-> IF t = ROOT THEN s.GT
                                   ELSE IF t < G THEN s.groups[t + 1].T ELSE 0]
    /\ count = [t \in Sets |-> IF t = ROOT THEN G
                               ELSE IF t < G THEN s.groups[t + 1].N ELSE 0]
    /\ shares = [t \in Sets |-> [k \in (IF t = ROOT THEN {SecretX} ELSE {}) |-> job.secret]]
    /\ cur = ROOT /\ i = 0 /\ phase = "enter" /\ printed = {}
------------------------------------------------------------------------------
(* Mutant: the next group is not given its share. *)
NextSet_NotHandedOn(done) ==
  IF cur + 1 < count[ROOT]
    THEN cur' = cur + 1 /\ i' = 0 /\ phase' = "enter" /\ shares' = done
    ELSE phase' = "print" /\ shares' = done /\ UNCHANGED <<cur, i>>

(* The loop over the children, depth first: the next group gets its share  *)
(* of the root, if there is one, as its secret.                            *)
NextSet(done) ==
  IF cur + 1 < count[ROOT]
    THEN /\ cur' = cur + 1 /\ i' = 0 /\ phase' = "enter"
         /\ shares' = IF cur + 1 \in DOMAIN done[ROOT]
                        THEN [done EXCEPT ![cur + 1] = Put(@, SecretX, done[ROOT][cur + 1])]
                        ELSE done
    ELSE phase' = "print" /\ shares' = done /\ UNCHANGED <<cur, i>>

(* slip0039_split begins: its asserts, then the copies of a threshold of 1 *)
(* or the digest share.                                                    *)
EnterSet ==
  /\ phase = "enter"
  /\ \/ /\ DOMAIN shares[cur] # {SecretX}
        /\ phase' = "abort" /\ UNCHANGED <<shares, cur, i>>
     \/ /\ DOMAIN shares[cur] = {SecretX} /\ threshold[cur] = 1
        /\ NextSet([shares EXCEPT ![cur] =
                      Merge([k \in 0 .. count[cur] - 1 |-> @[SecretX]], @)])
     \/ /\ DOMAIN shares[cur] = {SecretX} /\ threshold[cur] # 1
        /\ \E draw \in Draws :
             shares' = [shares EXCEPT ![cur] =
                          Put(@, DigestX, DigestOf(draw[2], @[SecretX]))]
        /\ phase' = "draw" /\ i' = 0 /\ UNCHANGED cur
  /\ UNCHANGED <<options, printed>>

(* Mutant: every random share is put in the first place. *)
DrawShare_First ==
  /\ phase = "draw" /\ i < threshold[cur] - 2
  /\ \E draw \in Draws : shares' = [shares EXCEPT ![cur] = Put(@, 0, draw)]
  /\ i' = i + 1
  /\ UNCHANGED <<options, cur, phase, printed>>

(* The first threshold - 2 shares are random. *)
DrawShare ==
  /\ phase = "draw" /\ i < threshold[cur] - 2
  /\ \E draw \in Draws : shares' = [shares EXCEPT ![cur] = Put(@, i, draw)]
  /\ i' = i + 1
  /\ UNCHANGED <<options, cur, phase, printed>>

(* `uint8_t i = s->threshold - 2': 254 for a threshold of 0. *)
FirstComputed == (threshold[cur] - 2) % 256

(* The whole loop in one step, as it changes nothing that it reads: every  *)
(* share is computed from those that were there before it (idx does not    *)
(* grow).                                                                  *)
ComputeShares ==
  /\ phase = "draw" /\ i >= threshold[cur] - 2
  /\ LET known == shares[cur] IN
       NextSet([shares EXCEPT ![cur] =
                  Merge([k \in FirstComputed .. count[cur] - 1 |-> Interpolate(known, k)], @)])
  /\ UNCHANGED <<options, printed>>

(* Mutant: the member threshold is taken from the root. *)
Mnemonic_RootThreshold(g, k) ==
  [id |-> Id, e |-> e, GI |-> g, GT |-> threshold[ROOT], G |-> count[ROOT],
   I |-> k, T |-> threshold[ROOT], data |-> shares[g][k]]

(* One mnemonic for every share of every group. *)
Mnemonic(g, k) ==
  [id |-> Id, e |-> e, GI |-> g, GT |-> threshold[ROOT], G |-> count[ROOT],
   I |-> k, T |-> threshold[g], data |-> shares[g][k]]

(* slip0039_print_mnemonics asserts the size, fixnum_poke that e has 5 bits. *)
PrintMnemonics ==
  /\ phase = "print"
  /\ IF SizeOK(n) /\ e < 32
       THEN /\ printed' = {Mnemonic(p[1], p[2]) :
                             p \in {q \in Index \X Index :
                                      q[1] < count[ROOT] /\ q[2] < count[q[1]]}}
            /\ phase' = "printed"
       ELSE phase' = "abort" /\ UNCHANGED printed
  /\ UNCHANGED <<options, shares, cur, i>>

Next == EnterSet \/ DrawShare \/ ComputeShares \/ PrintMnemonics
Spec == Init /\ [][Next]_vars
------------------------------------------------------------------------------
(* When all shares are there (slip0039.c:509-556), every subset of those   *)
(* of a set that has as many elements as the threshold gives back the      *)
(* secret of the set and a digest that verifies, whatever the random       *)
(* values were: no share is left out, and all of them lie on the           *)
(* polynomial through digest and secret.                                   *)
EveryQuorumRecovers ==
  phase = "print" =>
    \A s \in {ROOT} \cup 0 .. count[ROOT] - 1 :
      \A Q \in kSubset(threshold[s], 0 .. count[s] - 1) :
        LET pts == [k \in Q |-> shares[s][k]] IN
        IF threshold[s] = 1
          THEN \A k \in Q : pts[k] = shares[s][SecretX]
          ELSE /\ Interpolate(pts, SecretX) = shares[s][SecretX]
               /\ DigestOK(Interpolate(pts, DigestX), shares[s][SecretX])

(* The asserts of slip0039_split (slip0039.c:510-541), of print_mnemonics  *)
(* (line 268) and of fixnum_poke (fixnum.c:296) hold for everything that   *)
(* the command line accepts.                                               *)
NoAssertFails == phase # "abort"

(* What is in place stays there: a share is written once, and neither the  *)
(* computed shares nor a group that is split later touch it, as the        *)
(* asserts at slip0039.c:511, 514, 533 and 541 demand.  So the digest and  *)
(* the polynomial of a set are those its secret had when it was entered.   *)
WrittenOnce ==
  [][\A s \in Sets : \A k \in DOMAIN shares[s] :
       k \in DOMAIN shares'[s] /\ shares'[s][k] = shares[s][k]]_vars
==============================================================================
