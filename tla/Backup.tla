-------------------------------- MODULE Backup --------------------------------
(***************************************************************************)
(* A backup and its recovery: the split mode prints mnemonics, a user      *)
(* keeps them, loses some, and types some of the others into the recover   *)
(* mode, in any order and perhaps one of them again.                       *)
(*                                                                         *)
(* The variables of Split are those of the run that splits.  The variables *)
(* r_... are those of the run that recovers, the variables of Recover.     *)
(***************************************************************************)
EXTENDS Split

CONSTANTS NoLine, NoSecret

VARIABLES
  r_n, r_id, r_e, r_count, r_threshold, r_available, r_shares, r_plaintext,
  r_phase, r_i, r_j, r_idx, r_refused

(* lrcipher_execute under one passphrase: the master secret is known by    *)
(* the identifier, the exponent and the encrypted secret it comes with.    *)
Decrypt(id, exp, ems) == <<id, exp, ems>>

(* The lines that print_mnemonics can write. *)
Printable ==
  [readable : {TRUE}, words : Nat, sound : {TRUE}, pad : {TRUE}, id : {Id}, e : 0 .. 31,
   GI : Index, GT : 1 .. MaxShares, G : 1 .. MaxShares, I : Index, T : 1 .. MaxShares,
   data : Value]

R == INSTANCE Recover WITH
       Lines <- Printable, n <- r_n, id <- r_id, e <- r_e, count <- r_count,
       threshold <- r_threshold, available <- r_available, shares <- r_shares,
       plaintext <- r_plaintext, phase <- r_phase, i <- r_i, j <- r_j, idx <- r_idx,
       refused <- r_refused

ASSUME IdAssumption     == Id \in 0 .. R!MaxId
ASSUME NoLineAssumption == NoLine \notin Printable

r_vars == <<r_n, r_id, r_e, r_count, r_threshold, r_available, r_shares, r_plaintext,
            r_phase, r_i, r_j, r_idx, r_refused>>

allvars == <<vars, r_vars>>

(* Mutant: the last word, which holds the leading bits, is forgotten. *)
Words_RoundedDown(size) == 4 + (8 * size) \div 10 + 3

(* The words of a mnemonic for a secret of this size: header, value and    *)
(* checksum.                                                               *)
Words(size) == 4 + (8 * size + 9) \div 10 + 3

(* A printed mnemonic as a line of input: the checksum that rs1024_add put *)
(* there verifies, and base_encode_buffer leaves the padding zero.         *)
Line(m) ==
  [readable |-> TRUE, words |-> Words(n), sound |-> TRUE, pad |-> TRUE, id |-> m.id,
   e |-> m.e, GI |-> m.GI, GT |-> m.GT, G |-> m.G, I |-> m.I, T |-> m.T, data |-> m.data]

BackupInit == Init /\ R!Init

SplitRun == Next /\ UNCHANGED r_vars

Type == /\ phase = "printed"
        /\ \E m \in printed : R!AddMnemonic(Line(m))
        /\ UNCHANGED vars

StopTyping == phase = "printed" /\ R!EndOfInput /\ UNCHANGED vars

RecoverRun == R!Compute /\ UNCHANGED vars

Finished == R!Exited /\ UNCHANGED vars

BackupNext == SplitRun \/ Type \/ StopTyping \/ RecoverRun \/ Finished

BackupSpec == BackupInit /\ [][BackupNext]_allvars
------------------------------------------------------------------------------
(* The mnemonics that were loaded meet the group threshold and the member  *)
(* thresholds that the command line of the split asked for.                *)
Sufficient ==
  Cardinality({g \in 0 .. count[ROOT] - 1 : Cardinality(R!Loaded(g)) >= threshold[g]})
    >= threshold[ROOT]

(* What the recover mode prints is the master secret that was split        *)
(* (slip0039.c:773-833 from end to end), with its length: whichever of the *)
(* mnemonics were kept, in whatever order they came.                       *)
RecoversTheSecret ==
  r_phase = "done" =>
    r_n = n /\ r_plaintext = Decrypt(Id, e, shares[ROOT][SecretX])

(* Mnemonics of one backup are refused for two reasons only: one of them   *)
(* was typed twice, or there are too few.  In particular neither a digest  *)
(* nor a check of add_mnemonic ever fails for what print_mnemonics wrote.  *)
RefusedForCause ==
  r_phase = "fatal" =>
    IF r_refused = NoLine THEN ~Sufficient ELSE r_refused.I \in R!Loaded(r_refused.GI)
==============================================================================
