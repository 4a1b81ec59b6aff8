------------------------------ MODULE MCLibrary ------------------------------
(***************************************************************************)
(* The modules of the library, each on its own: which of them is chosen in *)
(* the beginning, and the variables of the others stay as they are.  Some  *)
(* names of variables mean something to two of them.                       *)
(*   Sha2      messages of up to two blocks and a half, in pieces around   *)
(*             the sizes where a block or the room for the length ends     *)
(*   Hmac      keys and texts around a block of 4 bytes                    *)
(*   Pbkdf2    keys of up to three blocks, with INT_MAX 7                  *)
(*   LRCipher  halves of one bit                                           *)
(*   Tables    four elements, two of one key, three of one bucket          *)
(***************************************************************************)
EXTENDS LRCipher, Tables

CONSTANTS
  BlockSize, HashLen, MaxKey, MaxText, HmacPieces,   \* of Hmac
  IntMax, Iterations, MaxIn, MaxOut, Pieces          \* of Pbkdf2, besides HashLen

VARIABLES
  which,                                     \* the module
  buf, size, h, mac, key, text, state,       \* of Hmac
  alg, bytes, blocks, data, once, sizedesc, stage, \* of Sha2, besides buf, size, pc
  pw, salt, iterations, index, tmp,          \* of Pbkdf2, besides state and i
  tmp_offset, sha, dkLen, pc, out

MCElements  == 1 .. 4
MCKeys      == {"k", "l", "m"}
MCKey       == [e \in MCElements |-> CASE e = 3 -> "l" [] e = 4 -> "m" [] OTHER -> "k"]
MCBucket    == [k \in MCKeys |-> IF k = "m" THEN 2 ELSE 1]

Around(k) == {k - 1, k, k + 1}
ShaPieces(a) ==
  {0, 2} \cup Around(a.block - a.length) \cup Around(a.block) \cup Around(2 * a.block)
ShaBytes(a) == (5 * a.block) \div 2

Sha    == INSTANCE Sha2 WITH Pieces <- ShaPieces, MaxBytes <- ShaBytes
Mac    == INSTANCE Hmac WITH Pieces <- HmacPieces
Stream == INSTANCE Pbkdf2

ASSUME Sha2Assumption   == Sha!PiecesFit
ASSUME HmacAssumption   == Mac!SizesFit
ASSUME Pbkdf2Assumption == Stream!SizesFit

(* The variables that only one module has, or that two have. *)
OnlyPbkdf2   == <<pw, salt, iterations, index, tmp, tmp_offset, sha, dkLen, out>>
OnlyHmac     == <<h, mac, key, text>>
OnlySha2     == <<alg, bytes, blocks, data, once, sizedesc, stage>>
OnlyCipher   == <<F, src, dst, dir>>
ShaAndMac    == <<buf, size>>

NoPbkdf2 == /\ pw = 0 /\ salt = 0 /\ iterations = 0 /\ index = 0 /\ tmp = {} /\ tmp_offset = 0
            /\ sha = 0 /\ dkLen = 0 /\ out = <<>>
NoHmac   == h = <<>> /\ mac = <<>> /\ key = 0 /\ text = 0
NoSha2   == /\ alg = Sha!SHA256 /\ bytes = 0 /\ blocks = <<>> /\ data = <<>> /\ once = <<>> /\ sizedesc = 0
            /\ stage = "none"
NoCipher == F = 0 /\ src = 0 /\ dst = 0 /\ dir = 0
NoTable  == TableInit /\ ~unique /\ ~owned

MCInit ==
  \/ /\ which = "Sha2" /\ Sha!Init
     /\ NoPbkdf2 /\ NoHmac /\ NoCipher /\ NoTable /\ state = 0 /\ i = 0
  \/ /\ which = "Hmac" /\ Mac!Init
     /\ NoPbkdf2 /\ NoSha2 /\ NoCipher /\ NoTable /\ i = 0 /\ pc = "none"
  \/ /\ which = "Pbkdf2" /\ Stream!Init
     /\ NoHmac /\ NoSha2 /\ NoCipher /\ NoTable /\ buf = <<>> /\ size = 0
  \/ /\ which = "LRCipher" /\ Init
     /\ NoPbkdf2 /\ NoHmac /\ NoSha2 /\ NoTable /\ buf = <<>> /\ size = 0 /\ state = 0 /\ pc = "none"
  \/ /\ which = "Tables" /\ TableInit
     /\ NoPbkdf2 /\ NoHmac /\ NoSha2 /\ NoCipher /\ buf = <<>> /\ size = 0 /\ state = 0 /\ i = 0
     /\ pc = "none"

StepSha2 ==
  /\ which = "Sha2" /\ Sha!Next
  /\ UNCHANGED <<which, OnlyPbkdf2, OnlyHmac, OnlyCipher, tableVars, state, i>>
StepHmac ==
  /\ which = "Hmac" /\ Mac!Next
  /\ UNCHANGED <<which, OnlyPbkdf2, OnlySha2, OnlyCipher, tableVars, i, pc>>
StepPbkdf2 ==
  /\ which = "Pbkdf2" /\ Stream!Next
  /\ UNCHANGED <<which, OnlyHmac, OnlySha2, OnlyCipher, tableVars, ShaAndMac>>
StepCipher ==
  /\ which = "LRCipher" /\ Next
  /\ UNCHANGED <<which, OnlyPbkdf2, OnlyHmac, OnlySha2, tableVars, ShaAndMac, state, pc>>
StepTables ==
  /\ which = "Tables" /\ TableNext
  /\ UNCHANGED <<which, OnlyPbkdf2, OnlyHmac, OnlySha2, OnlyCipher, ShaAndMac, state, pc, i>>

MCNext == StepSha2 \/ StepHmac \/ StepPbkdf2 \/ StepCipher \/ StepTables
MCSpec ==
  MCInit /\ [][MCNext]_<<which, vars, OnlyPbkdf2, OnlyHmac, OnlySha2, ShaAndMac, state, pc, tableVars>>

(* Sha2: however a message is cut into pieces, its digest is that of the   *)
(* blocks of the padded message (sha256.c:159-216, sha512.c:168-219).      *)
DigestOfMessage == which = "Sha2" => Sha!DigestOfMessage

(* Hmac: however key and text are cut into pieces, the result is their     *)
(* HMAC (hmac.c:34-99).                                                    *)
MacIsHmac == which = "Hmac" => Mac!MacIsHmac

(* Pbkdf2: however password and salt are cut into pieces, what is handed   *)
(* out is the derived key (pbkdf2.c:37-99).                                *)
OutputIsDerivedKey == which = "Pbkdf2" => Stream!OutputIsDerivedKey

(* (DecryptInvertsEncrypt, and the properties of Tables, hold for the      *)
(* others as they leave the variables alone.)                              *)
==============================================================================
