--------------------------------- MODULE Hmac ---------------------------------
(***************************************************************************)
(* hmac.c: an HMAC whose key and text come in pieces.  The hash function   *)
(* is known by what it is given: hash_t is the message absorbed so far,    *)
(* and the bytes of a digest name the message they were computed from      *)
(* (Sha2 is about how that comes about).  A byte is a record of what it    *)
(* is, and of the masks that it is exclusive-ored with at present.         *)
(***************************************************************************)
EXTENDS Integers, SequencesExt

CONSTANTS
  BlockSize,   \* h->h.f->blocksize
  HashLen,     \* h->h.f->len, at most BlockSize
  Pieces,      \* sizes of the pieces a key or a text may come in
  MaxKey,      \* bounds on the lengths of key and text
  MaxText

(* What the proofs need of the sizes. *)
SizesFit ==
  /\ BlockSize \in Nat /\ HashLen \in 0 .. BlockSize
  /\ Pieces \subseteq Nat /\ MaxKey \in Nat /\ MaxText \in Nat

VARIABLES
  state,       \* h->state: 0 plain key, 1 hashed key, 2 data; 3 when wiped
  buf,         \* h->buf: what has been written to it
  size,        \* h->size
  h,           \* h->h: the message the hash has absorbed
  mac,         \* the result
  key, text    \* sizes of key and text: the sums of their pieces

vars == <<state, buf, size, h, mac, key, text>>

Byte(what)  == [is |-> what, masks |-> {}]
Zero        == Byte(<<"zero">>)
Key(a, b)   == [k \in 1 .. b - a |-> Byte(<<"key", a + k>>)]
Text(a, b)  == [k \in 1 .. b - a |-> Byte(<<"text", a + k>>)]
Hash(msg)   == [k \in 1 .. HashLen |-> Byte(<<"hash", msg, k>>)]
Xor(bytes, masks) ==
  [k \in DOMAIN bytes |-> [bytes[k] EXCEPT !.masks = SymDiff(@, masks)]]

ipad == 54    \* 0x36
opad == 92    \* 0x5c

(* hmac_init *)
Init ==
  /\ state = 0 /\ size = 0 /\ buf = <<>> /\ h = <<>> /\ mac = <<>>
  /\ key = 0 /\ text = 0

(* Mutant: a key of exactly one block counts as too long. *)
KeyFits_Strictly(s) == s + size < BlockSize

(* The key that has been collected and s bytes more. *)
KeyFits(s) == s + size <= BlockSize

(* hmac_update_key; h->buf is left as it is when the key gets too long. *)
UpdateKey(s) ==
  /\ state \in {0, 1} /\ key + s <= MaxKey
  /\ key' = key + s
  /\ LET piece == Key(key, key + s) IN
     \/ /\ state = 0 /\ KeyFits(s)
        /\ buf' = SubSeq(buf, 1, size) \o piece
        /\ size' = size + s
        /\ UNCHANGED <<state, h>>
     \/ /\ state = 0 /\ ~KeyFits(s)
        /\ h' = h \o SubSeq(buf, 1, size) \o piece
        /\ state' = 1
        /\ UNCHANGED <<buf, size>>
     \/ /\ state = 1
        /\ h' = h \o piece
        /\ UNCHANGED <<state, buf, size>>
  /\ UNCHANGED <<mac, text>>

(* The block of the key: what finish_processing_key leaves in h->buf. *)
KeyBlock ==
  LET k == IF state = 1 THEN Hash(h) ELSE SubSeq(buf, 1, size)
  IN  Xor(k \o [z \in 1 .. BlockSize - Len(k) |-> Zero], {ipad})

(* h->h when data can be added. *)
Absorbed == IF state = 2 THEN h ELSE KeyBlock

FinishKey ==
  /\ buf'  = IF state = 2 THEN buf ELSE KeyBlock
  /\ size' = IF state = 1 THEN HashLen ELSE size

(* hmac_update_data *)
UpdateData(s) ==
  /\ state # 3 /\ text + s <= MaxText
  /\ FinishKey
  /\ state' = 2
  /\ h' = Absorbed \o Text(text, text + s)
  /\ text' = text + s
  /\ UNCHANGED <<mac, key>>

(* hmac_done; the context is wiped. *)
Done ==
  /\ state # 3 /\ state' = 3
  /\ LET inner == IF state = 2 THEN buf ELSE KeyBlock IN
       mac' = Hash(Xor(inner, {ipad, opad}) \o Hash(Absorbed))
  /\ buf' = <<>> /\ size' = 0 /\ h' = <<>>
  /\ UNCHANGED <<key, text>>

Next == (\E s \in Pieces : UpdateKey(s) \/ UpdateData(s)) \/ Done
Spec == Init /\ [][Next]_vars
------------------------------------------------------------------------------
(* RFC 2104: H(K ^ opad, H(K ^ ipad, text)), where K is the key or, when   *)
(* it is longer than a block, its hash, with zeros up to a block.          *)
K ==
  LET k == IF key > BlockSize THEN Hash(Key(0, key)) ELSE Key(0, key)
  IN  k \o [z \in 1 .. BlockSize - Len(k) |-> Zero]

Expected == Hash(Xor(K, {opad}) \o Hash(Xor(K, {ipad}) \o Text(0, text)))

(* However key and text were cut into pieces, the result is their HMAC     *)
(* (hmac.c:34-99); digest and passphrase rounds use it with keys that grow *)
(* by single characters.                                                   *)
MacIsHmac == state = 3 => mac = Expected
==============================================================================
