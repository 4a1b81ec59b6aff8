--------------------------------- MODULE Sha2 ---------------------------------
(***************************************************************************)
(* sha256.c and sha512.c without the compression function: how a message   *)
(* that comes in pieces is cut into blocks, padded and closed with its     *)
(* length.  The chaining value s[] is known by the blocks that Transform   *)
(* was given, in order.                                                    *)
(*                                                                         *)
(* The two files differ in the algorithm `alg', which is chosen in the     *)
(* beginning, as hash_init does from a table: bytes of a block, bytes of   *)
(* the length at the end, and whether a full block goes through an empty   *)
(* buffer as well (SHA-256) or is left to the loop over chunks (SHA-512).  *)
(* SHA256D hashes the digest of SHA-256 once more.                         *)
(***************************************************************************)
EXTENDS Integers, SequencesExt

CONSTANTS
  Pieces(_),   \* sizes of the pieces a message may come in, for an algorithm
  MaxBytes(_)  \* bound on the length of a message, for an algorithm

SHA256  == [block |-> 64, length |-> 8, viaEmptyBuffer |-> TRUE, twice |-> FALSE]
SHA256D == [SHA256 EXCEPT !.twice = TRUE]
SHA512  == [block |-> 128, length |-> 16, viaEmptyBuffer |-> FALSE, twice |-> FALSE]

(* What the proofs need of the pieces. *)
PiecesFit == \A a \in {SHA256, SHA256D, SHA512} : Pieces(a) \subseteq Nat

VARIABLES
  alg,       \* the algorithm
  bytes,     \* ctx->bytes
  buf,       \* ctx->buf: what has been written to it so far
  blocks,    \* ctx->s: the blocks transformed so far
  data,      \* what is left of the piece that is being added
  once,      \* the blocks of the first hash, when it is hashed twice
  sizedesc,  \* the length taken at the beginning of finalize
  size,      \* size of the message: the sum of the pieces
  pc, stage  \* where add() is, and what it was called for

vars == <<alg, bytes, buf, blocks, data, once, sizedesc, size, pc, stage>>

Block    == alg.block
LenBytes == alg.length

(* The bytes: of the message, of the padding and of the length l. *)
Bytes(from, to) == [k \in 1 .. to - from |-> <<"message", from + k>>]
One             == <<"pad", 1>>
Zero            == <<"pad", 0>>
DigestBytes     == [k \in 1 .. 32 |-> <<"digest", k>>]
Length(l)       == [k \in 1 .. LenBytes |-> <<"length", l, k>>]

bufsize == bytes % Block

Init ==
  /\ alg \in {SHA256, SHA256D, SHA512}
  /\ bytes = 0 /\ buf = [k \in {} |-> Zero] /\ blocks = <<>> /\ data = <<>>
  /\ once = <<>> /\ sizedesc = 0 /\ size = 0 /\ pc = "idle" /\ stage = "message"

(* memcpy(ctx->buf + bufsize, piece, size of piece) *)
Copied(piece) ==
  [k \in DOMAIN buf \cup (bufsize + 1 .. bufsize + Len(piece)) |->
     IF k \in bufsize + 1 .. bufsize + Len(piece) THEN piece[k - bufsize] ELSE buf[k]]

Transform(block) == blocks' = Append(blocks, [k \in 1 .. Block |-> block[k]])

Add(piece) == pc = "idle" /\ pc' = "fill" /\ data' = piece

(* sha256_update, sha512_update *)
Update(s) ==
  /\ stage = "message" /\ size + s <= MaxBytes(alg)
  /\ Add(Bytes(size, size + s))
  /\ size' = size + s
  /\ UNCHANGED <<alg, bytes, buf, blocks, once, sizedesc, stage>>

(* The condition for the buffer to be completed and transformed. *)
BufferFills ==
  bufsize + Len(data) >= Block /\ (alg.viaEmptyBuffer \/ bufsize # 0)

Fill ==
  /\ pc = "fill" /\ pc' = "chunks"
  /\ IF BufferFills
       THEN LET room == Block - bufsize IN
            /\ buf' = Copied(SubSeq(data, 1, room))
            /\ Transform(buf')
            /\ bytes' = bytes + room
            /\ data' = SubSeq(data, room + 1, Len(data))
       ELSE UNCHANGED <<bytes, buf, blocks, data>>
  /\ UNCHANGED <<alg, once, sizedesc, size, stage>>

(* One iteration of the loop over the full chunks. *)
Chunk ==
  /\ pc = "chunks" /\ Len(data) >= Block
  /\ Transform(data)
  /\ bytes' = bytes + Block
  /\ data' = SubSeq(data, Block + 1, Len(data))
  /\ UNCHANGED <<alg, buf, once, sizedesc, size, pc, stage>>

Remainder ==
  /\ pc = "chunks" /\ Len(data) < Block
  /\ buf' = Copied(data)
  /\ bytes' = bytes + Len(data)
  /\ data' = <<>>
  /\ pc' = "idle"
  /\ UNCHANGED <<alg, blocks, once, sizedesc, size, stage>>

(* Mutant: no room is made for the length. *)
PadSize_NoLength == 1 + ((2 * Block - bufsize - 1) % Block)

(* The size of the padding: 1 + (128 - 8 - bytes % 64 - 1) % 64 for SHA-256 *)
(* and 1 + (239 - bytes % 128) % 128 for SHA-512.                           *)
PadSize == 1 + ((2 * Block - LenBytes - bufsize - 1) % Block)

(* sha256_finalize, sha512_finalize up to the first add(), then up to the  *)
(* second one, then to the end.                                            *)
Finalize ==
  /\ stage \in {"message", "again"} /\ stage' = "padding"
  /\ sizedesc' = bytes
  /\ Add([k \in 1 .. PadSize |-> IF k = 1 THEN One ELSE Zero])
  /\ UNCHANGED <<alg, bytes, buf, blocks, once, size>>

AddLength ==
  /\ stage = "padding" /\ stage' = "length"
  /\ Add(Length(sizedesc))
  /\ UNCHANGED <<alg, bytes, buf, blocks, once, sizedesc, size>>

Digest ==
  /\ pc = "idle" /\ stage = "length" /\ stage' = "digest"
  /\ UNCHANGED <<alg, bytes, buf, blocks, data, once, sizedesc, size, pc>>

(* sha256d_finalize between its two calls of sha256_finalize. *)
Again ==
  /\ pc = "idle" /\ stage = "digest" /\ alg.twice /\ once = <<>>
  /\ once' = blocks /\ blocks' = <<>> /\ buf' = [k \in {} |-> Zero] /\ bytes' = 0
  /\ stage' = "again" /\ Add(DigestBytes)
  /\ UNCHANGED <<alg, sizedesc, size>>

Next ==
  \/ \E s \in Pieces(alg) : Update(s)
  \/ Fill \/ Chunk \/ Remainder \/ Finalize \/ AddLength \/ Digest \/ Again

Spec == Init /\ [][Next]_vars
------------------------------------------------------------------------------
(* FIPS 180-4, 5.1: the message, a one bit, the least number of zero bits  *)
(* that makes the whole a number of blocks, and the length.                *)
Padded(message) ==
  LET len   == Len(message)
      Zeros == CHOOSE z \in 0 .. Block - 1 : (len + 1 + z + LenBytes) % Block = 0
  IN  message \o <<One>> \o [k \in 1 .. Zeros |-> Zero] \o Length(len)

(* 5.2: the blocks of the padded message. *)
Parsed(m) == [n \in 1 .. Len(m) \div Block |-> SubSeq(m, (n - 1) * Block + 1, n * Block)]

(* However the message was cut into pieces, the digest is that of the      *)
(* blocks of the padded message (sha256.c:159-216, sha512.c:168-219); and  *)
(* of SHA256D, that of the blocks of the padded digest of it (218-225).    *)
DigestOfMessage ==
  stage = "digest" =>
    LET message == Parsed(Padded(Bytes(0, size))) IN
    IF once = <<>> THEN blocks = message
                   ELSE once = message /\ blocks = Parsed(Padded(DigestBytes))
==============================================================================
