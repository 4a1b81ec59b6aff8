-------------------------------- MODULE Pbkdf2 --------------------------------
(***************************************************************************)
(* pbkdf2.c: PBKDF2 as a stream.  Password and salt come in pieces, the    *)
(* derived key is handed out in pieces of any size: lrcipher takes one     *)
(* from a copy of the context, slip0039_split takes its random values from *)
(* one context.  HMAC is known by its arguments (Hmac is about how it is   *)
(* computed); passwords and salts are known by their lengths, all of them  *)
(* being prefixes of one password and of one salt.                         *)
(***************************************************************************)
EXTENDS Integers, SequencesExt

CONSTANTS
  HashLen,      \* p->pw.h.f->len
  IntMax,       \* INT_MAX
  Pieces,       \* sizes of pieces of passwords, salts and keys
  Iterations,   \* the iteration counts asked for
  MaxIn,        \* bounds on the lengths of password and salt
  MaxOut        \* and of the derived key

(* What the proofs need: no count of iterations is more than an int holds. *)
SizesFit ==
  /\ HashLen \in Nat \ {0} /\ IntMax \in Nat /\ Iterations \subseteq 1 .. IntMax
  /\ Pieces \subseteq Nat /\ MaxIn \in Nat /\ MaxOut \in Nat

VARIABLES
  state,        \* p->state: 0 password, 1 salt, 2 output
  pw,           \* p->pw: how much of the password is in it
  salt,         \* p->salt: the password in it, and how much of the salt
  iterations,   \* p->iterations
  index,        \* p->index
  tmp,          \* p->tmp: the set of MACs it is the exclusive or of
  tmp_offset,   \* p->tmp_offset
  sha, i,       \* helper(): the last MAC, and the loop variable, an int
  dkLen,        \* pbkdf2_generate(): what is left to generate
  pc,           \* where pbkdf2_generate() is
  out           \* everything generated so far

input == <<state, pw, salt, iterations>>
block == <<index, tmp, tmp_offset, sha, i>>
vars  == <<input, block, dkLen, pc, out>>

(* HMAC of salt and block index, and HMAC of another MAC. *)
MacOfSalt(key, s, k) == [key |-> key, salt |-> s, index |-> k, then |-> <<>>]
MacOf(key, m)        == [m EXCEPT !.then = Append(@, key)]

(* pbkdf2_init *)
Init ==
  /\ state = 0 /\ pw = 0 /\ salt = <<0, 0>> /\ iterations = 0
  /\ index = 1 /\ tmp = {} /\ tmp_offset = HashLen /\ sha = MacOfSalt(0, 0, 0) /\ i = 0
  /\ dkLen = 0 /\ pc = "idle" /\ out = <<>>
------------------------------------------------------------------------------
UpdatePassword(s) ==
  /\ state = 0 /\ pw + s <= MaxIn
  /\ pw' = pw + s
  /\ UNCHANGED <<state, salt, iterations, block, dkLen, pc, out>>

(* What p->salt is once finish_processing_password has copied p->pw. *)
Salted == IF state = 0 THEN <<pw, 0>> ELSE salt

UpdateSalt(s) ==
  /\ state \in {0, 1} /\ Salted[2] + s <= MaxIn
  /\ salt' = <<Salted[1], Salted[2] + s>>
  /\ state' = 1
  /\ UNCHANGED <<pw, iterations, block, dkLen, pc, out>>

FinalizeSalt(n) ==
  /\ state \in {0, 1}
  /\ salt' = Salted
  /\ iterations' = n
  /\ state' = 2
  /\ UNCHANGED <<pw, block, dkLen, pc, out>>
------------------------------------------------------------------------------
(* pbkdf2_generate: [copying] until dkLen bytes are there, with a call of  *)
(* helper() whenever tmp is used up.                                       *)
Generate(n) ==
  /\ state = 2 /\ pc = "idle" /\ Len(out) + n <= MaxOut
  /\ dkLen' = n
  /\ pc' = "copying"
  /\ UNCHANGED <<input, block, out>>

(* Mutant: the block index is not counted up. *)
NextIndex_Same == index

NextIndex == index + 1

StartBlock ==
  /\ pc = "copying" /\ dkLen > 0 /\ tmp_offset = HashLen
  /\ sha' = MacOfSalt(salt[1], salt[2], index)
  /\ tmp' = {sha'}
  /\ index' = NextIndex
  /\ i' = 1
  /\ pc' = "iterating"
  /\ UNCHANGED <<input, tmp_offset, dkLen, out>>

(* i++ overflows at INT_MAX.  The value may wrap around, and is then above *)
(* every p->iterations when it is converted for the comparison; or the     *)
(* compiler has given i the 64 bits of p->iterations.                      *)
Incremented == IF i = IntMax THEN {-IntMax - 1, i + 1} ELSE {i + 1}
InLoop      == i \in 0 .. iterations - 1

Iterate ==
  /\ pc = "iterating" /\ InLoop
  /\ sha' = MacOf(pw, sha)
  /\ tmp' = SymDiff(tmp, {sha'})
  /\ i' \in Incremented
  /\ UNCHANGED <<input, index, tmp_offset, dkLen, pc, out>>

EndBlock ==
  /\ pc = "iterating" /\ ~InLoop
  /\ tmp_offset' = 0
  /\ pc' = "copying"
  /\ UNCHANGED <<input, index, tmp, sha, i, dkLen, out>>

(* memcpy of the smaller of what is wanted and what is left in tmp. *)
Copy ==
  /\ pc = "copying" /\ dkLen > 0 /\ tmp_offset # HashLen
  /\ LET left == HashLen - tmp_offset
         len  == IF dkLen > left THEN left ELSE dkLen
     IN  /\ out' = out \o [k \in 1 .. len |-> <<tmp, tmp_offset + k>>]
         /\ dkLen' = dkLen - len
         /\ tmp_offset' = tmp_offset + len
  /\ UNCHANGED <<input, index, tmp, sha, i, pc>>

Return ==
  /\ pc = "copying" /\ dkLen = 0 /\ pc' = "idle"
  /\ UNCHANGED <<input, block, dkLen, out>>

Next ==
  \/ \E s \in Pieces : UpdatePassword(s) \/ UpdateSalt(s) \/ Generate(s)
  \/ \E n \in Iterations : FinalizeSalt(n)
  \/ StartBlock \/ Iterate \/ EndBlock \/ Copy \/ Return

Spec == Init /\ [][Next]_vars
------------------------------------------------------------------------------
(* RFC 8018, 5.2, with password p, salt s and c iterations: U_m of block   *)
(* k, which is the MAC of salt and k with m - 1 MACs taken of it, and F,   *)
(* their exclusive or; then the derived key, whose byte m is one of those. *)
U(p, s, k, m) == [MacOfSalt(p, s, k) EXCEPT !.then = [x \in 1 .. m - 1 |-> p]]
F(p, s, c, k) == {U(p, s, k, m) : m \in 1 .. c}
Expected(p, s, c, m) ==
  <<F(p, s, c, (m - 1) \div HashLen + 1), 1 + ((m - 1) % HashLen)>>

(* Whatever the pieces of password, salt and output are, the output is the *)
(* derived key, without a gap or a repetition (pbkdf2.c:37-99): split and  *)
(* recover, which cut it differently, agree on it.                         *)
OutputIsDerivedKey == \A m \in DOMAIN out : out[m] = Expected(pw, salt[2], iterations, m)

(* doc/slip-0039.md:257: "iterations = 2500 << e", which slip0039_decrypt  *)
(* asks for: a block that is handed out has been iterated that often.      *)
IteratedAsAsked == pc = "copying" /\ tmp # {} => Cardinality(tmp) = iterations
==============================================================================
