----------------------------- MODULE LibraryProofs -----------------------------
(***************************************************************************)
(* Proofs about the library, whatever its sizes are: the cipher, the MAC   *)
(* and the tables, which are proved here, and that what is proved of hash  *)
(* and key derivation holds where MCLibrary puts them beside each other.   *)
(***************************************************************************)
EXTENDS MCLibrary, Induction, SequenceTheorems

LEMMA XorCancels ==
  ASSUME NEW a \in Half, NEW b \in Half
  PROVE  Xor(a, b) \in Half /\ Xor(Xor(a, b), b) = a
BY DEF Half, Xor

LEMMA ChainTypes ==
  ASSUME F \in [0 .. 3 -> [Half -> Half]], src \in Block
  PROVE  /\ src.L \in Half /\ src.R \in Half
         /\ X2 \in Half /\ X3 \in Half /\ X4 \in Half /\ X5 \in Half
         /\ Xor(X2, F[0][src.R]) = src.L /\ Xor(X3, F[1][X2]) = src.R
         /\ Xor(X4, F[2][X3]) = X2 /\ Xor(X5, F[3][X4]) = X3
<1>1. src.L \in Half /\ src.R \in Half
  BY DEF Block
<1>2. \A k \in 0 .. 3 : \A x \in Half : F[k][x] \in Half
  OBVIOUS
<1>3. X2 \in Half /\ Xor(X2, F[0][src.R]) = src.L
  BY <1>1, <1>2, XorCancels DEF X2
<1>4. X3 \in Half /\ Xor(X3, F[1][X2]) = src.R
  BY <1>1, <1>2, <1>3, XorCancels DEF X3
<1>5. X4 \in Half /\ Xor(X4, F[2][X3]) = X2
  BY <1>2, <1>3, <1>4, XorCancels DEF X4
<1>6. X5 \in Half /\ Xor(X5, F[3][X4]) = X3
  BY <1>2, <1>4, <1>5, XorCancels DEF X5
<1> QED BY <1>1, <1>3, <1>4, <1>5, <1>6

(* After each round the buffer holds the neighbours in the chain X0 .. X5  *)
(* that the direction and the number of rounds done say.                   *)
THEOREM CipherInvariant == Spec => []CipherInv
<1>1. Init => CipherInv
  BY DEF Init, CipherInv, Encrypting, Holds, Block, ENCRYPT, DECRYPT
<1>2. CipherInv /\ [Next]_vars => CipherInv'
  <2> SUFFICES ASSUME CipherInv, [Next]_vars PROVE CipherInv'
    OBVIOUS
  <2> USE DEF ENCRYPT, DECRYPT
  <2>1. CASE Round
    <3>1. /\ i \in 0 .. 3 /\ i' = i + 1 /\ UNCHANGED <<F, src, dir>>
          /\ dst' = Helper(dst, RoundOf(i, dir), i = 3)
      BY <2>1 DEF Round, CipherInv
    <3>2. UNCHANGED <<X2, X3, X4, X5>>
      BY <3>1 DEF X2, X3, X4, X5
    <3>3. CASE dir = ENCRYPT
      <4>1. i = 0 => dst' = [L |-> src.R, R |-> X2]
        BY <3>1, <3>3 DEF CipherInv, Encrypting, Holds, Helper, RoundOf, X2
      <4>2. i = 1 => dst' = [L |-> X2, R |-> X3]
        BY <3>1, <3>3 DEF CipherInv, Encrypting, Holds, Helper, RoundOf, X3
      <4>3. i = 2 => dst' = [L |-> X3, R |-> X4]
        BY <3>1, <3>3 DEF CipherInv, Encrypting, Holds, Helper, RoundOf, X4
      <4>4. i = 3 => dst' = [L |-> X5, R |-> X4]
        BY <3>1, <3>3 DEF CipherInv, Encrypting, Holds, Helper, RoundOf, X5
      <4>5. Encrypting'
        BY <3>1, <3>2, <4>1, <4>2, <4>3, <4>4 DEF Encrypting, Holds
      <4> QED BY <3>1, <3>3, <4>5 DEF CipherInv
    <3>4. CASE dir = DECRYPT
      <4> USE ChainTypes DEF CipherInv, Decrypting, Holds, Helper, RoundOf
      <4>1. i = 0 => dst' = [L |-> X4, R |-> X3]
        BY <3>1, <3>4
      <4>2. i = 1 => dst' = [L |-> X3, R |-> X2]
        BY <3>1, <3>4
      <4>3. i = 2 => dst' = [L |-> X2, R |-> src.R]
        BY <3>1, <3>4
      <4>4. i = 3 => dst' = [L |-> src.L, R |-> src.R]
        BY <3>1, <3>4
      <4>5. Decrypting'
        BY <3>1, <3>2, <4>1, <4>2, <4>3, <4>4
      <4> QED BY <3>1, <3>4, <4>5
    <3> QED BY <3>3, <3>4 DEF CipherInv
  <2>2. CASE Turn
    <3>1. UNCHANGED <<X2, X3, X4, X5>>
      BY <2>2 DEF Turn, X2, X3, X4, X5
    <3> QED BY <2>2, <3>1 DEF Turn, CipherInv, Encrypting, Decrypting, Holds
  <2>3. CASE UNCHANGED vars
    <3>1. UNCHANGED <<X2, X3, X4, X5>>
      BY <2>3 DEF vars, X2, X3, X4, X5
    <3> QED BY <2>3, <3>1 DEF vars, CipherInv, Encrypting, Decrypting, Holds
  <2> QED BY <2>1, <2>2, <2>3 DEF Next
<1> QED BY <1>1, <1>2, PTL DEF Spec

(* Decryption restores the secret: whatever its length, its value and the  *)
(* round function (passphrase, identifier, iteration exponent).            *)
THEOREM RoundTrip == Spec => []DecryptInvertsEncrypt
<1>1. CipherInv => DecryptInvertsEncrypt
  BY DEF CipherInv, Decrypting, Holds, DecryptInvertsEncrypt, Block
<1> QED BY <1>1, CipherInvariant, PTL
-------------------------------------------------------------------------------
(* hmac.c: the pieces of key and text, and the masks. *)
KeyBytes  == {Mac!Byte(<<"key", k>>) : k \in Nat}
TextBytes == {Mac!Byte(<<"text", k>>) : k \in Nat}

(* A piece of the key has its bytes, in order. *)
LEMMA KeyFacts ==
  ASSUME NEW a \in Nat, NEW b \in Nat, a <= b
  PROVE  /\ Mac!Key(a, b) \in Seq(KeyBytes) /\ Len(Mac!Key(a, b)) = b - a
         /\ \A k \in 1 .. b - a : Mac!Key(a, b)[k] = Mac!Byte(<<"key", a + k>>)
<1>1. \A k \in 1 .. b - a : Mac!Byte(<<"key", a + k>>) \in KeyBytes
  <2>1. \A k \in 1 .. b - a : a + k \in Nat
    OBVIOUS
  <2> QED BY <2>1 DEF KeyBytes
<1>2. [k \in 1 .. b - a |-> Mac!Byte(<<"key", a + k>>)] \in [1 .. b - a -> KeyBytes]
  BY <1>1
<1>3. b - a \in Nat
  OBVIOUS
<1> QED BY <1>2, <1>3 DEF Mac!Key

LEMMA TextFacts ==
  ASSUME NEW a \in Nat, NEW b \in Nat, a <= b
  PROVE  /\ Mac!Text(a, b) \in Seq(TextBytes) /\ Len(Mac!Text(a, b)) = b - a
         /\ \A k \in 1 .. b - a : Mac!Text(a, b)[k] = Mac!Byte(<<"text", a + k>>)
<1>1. \A k \in 1 .. b - a : Mac!Byte(<<"text", a + k>>) \in TextBytes
  <2>1. \A k \in 1 .. b - a : a + k \in Nat
    OBVIOUS
  <2> QED BY <2>1 DEF TextBytes
<1>2. [k \in 1 .. b - a |-> Mac!Byte(<<"text", a + k>>)] \in [1 .. b - a -> TextBytes]
  BY <1>1
<1>3. b - a \in Nat
  OBVIOUS
<1> QED BY <1>2, <1>3 DEF Mac!Text

(* Two sequences that continue each other are the sequence of both, when   *)
(* the element at a place depends on the place alone.                      *)
LEMMA Joins ==
  ASSUME NEW a \in Nat, NEW b \in Nat, NEW c \in Nat, a <= b, b <= c, NEW S,
         NEW u \in Seq(S), NEW v \in Seq(S), NEW w \in Seq(S),
         Len(u) = b - a, Len(v) = c - b, Len(w) = c - a,
         \A k \in 1 .. b - a : u[k] = w[k],
         \A k \in 1 .. c - b : v[k] = w[b - a + k]
  PROVE  u \o v = w
<1>1. /\ u \o v \in Seq(S) /\ Len(u \o v) = c - a
      /\ \A k \in 1 .. c - a : (u \o v)[k] = IF k <= b - a THEN u[k] ELSE v[k - (b - a)]
  <2>1. /\ u \o v \in Seq(S) /\ Len(u \o v) = Len(u) + Len(v)
        /\ \A k \in 1 .. Len(u) + Len(v) :
             (u \o v)[k] = IF k <= Len(u) THEN u[k] ELSE v[k - Len(u)]
    BY ConcatProperties
  <2>2. Len(u) + Len(v) = c - a
    OBVIOUS
  <2> QED BY <2>1, <2>2
<1>2. ASSUME NEW k \in 1 .. c - a PROVE (u \o v)[k] = w[k]
  <2>1. CASE k <= b - a
    <3>1. k \in 1 .. b - a
      BY <2>1
    <3> QED BY <2>1, <3>1, <1>1
  <2>2. CASE ~(k <= b - a)
    <3>1. k - (b - a) \in 1 .. c - b /\ b - a + (k - (b - a)) = k
      BY ONLY a \in Nat, b \in Nat, c \in Nat, a <= b, b <= c, k \in 1 .. c - a, <2>2
    <3>2. v[k - (b - a)] = w[k]
      BY <3>1
    <3> QED BY <2>2, <3>2, <1>1
  <2> QED BY <2>1, <2>2
<1>3. \A k \in 1 .. Len(u \o v) : (u \o v)[k] = w[k]
  BY <1>1, <1>2
<1> QED BY <1>1, <1>3, SeqEqual

LEMMA KeyJoins ==
  ASSUME NEW a \in Nat, NEW b \in Nat, NEW c \in Nat, a <= b, b <= c
  PROVE  Mac!Key(a, b) \o Mac!Key(b, c) = Mac!Key(a, c)
<1>1. a <= c
  OBVIOUS
<1>2. /\ Mac!Key(a, b) \in Seq(KeyBytes) /\ Len(Mac!Key(a, b)) = b - a
      /\ \A k \in 1 .. b - a : Mac!Key(a, b)[k] = Mac!Byte(<<"key", a + k>>)
  BY KeyFacts
<1>3. /\ Mac!Key(b, c) \in Seq(KeyBytes) /\ Len(Mac!Key(b, c)) = c - b
      /\ \A k \in 1 .. c - b : Mac!Key(b, c)[k] = Mac!Byte(<<"key", b + k>>)
  BY KeyFacts
<1>4. /\ Mac!Key(a, c) \in Seq(KeyBytes) /\ Len(Mac!Key(a, c)) = c - a
      /\ \A k \in 1 .. c - a : Mac!Key(a, c)[k] = Mac!Byte(<<"key", a + k>>)
  BY <1>1, KeyFacts
<1>5. \A k \in 1 .. b - a : k \in 1 .. c - a
  OBVIOUS
<1>6. \A k \in 1 .. c - b : b - a + k \in 1 .. c - a /\ a + (b - a + k) = b + k
  OBVIOUS
<1>7. \A k \in 1 .. b - a : Mac!Key(a, b)[k] = Mac!Key(a, c)[k]
  BY <1>2, <1>4, <1>5
<1>8. \A k \in 1 .. c - b : Mac!Key(b, c)[k] = Mac!Key(a, c)[b - a + k]
  BY <1>3, <1>4, <1>6
<1> QED BY <1>2, <1>3, <1>4, <1>7, <1>8, Joins

LEMMA TextJoins ==
  ASSUME NEW a \in Nat, NEW b \in Nat, NEW c \in Nat, a <= b, b <= c
  PROVE  Mac!Text(a, b) \o Mac!Text(b, c) = Mac!Text(a, c)
<1>1. a <= c
  OBVIOUS
<1>2. /\ Mac!Text(a, b) \in Seq(TextBytes) /\ Len(Mac!Text(a, b)) = b - a
      /\ \A k \in 1 .. b - a : Mac!Text(a, b)[k] = Mac!Byte(<<"text", a + k>>)
  BY TextFacts
<1>3. /\ Mac!Text(b, c) \in Seq(TextBytes) /\ Len(Mac!Text(b, c)) = c - b
      /\ \A k \in 1 .. c - b : Mac!Text(b, c)[k] = Mac!Byte(<<"text", b + k>>)
  BY TextFacts
<1>4. /\ Mac!Text(a, c) \in Seq(TextBytes) /\ Len(Mac!Text(a, c)) = c - a
      /\ \A k \in 1 .. c - a : Mac!Text(a, c)[k] = Mac!Byte(<<"text", a + k>>)
  BY <1>1, TextFacts
<1>5. \A k \in 1 .. b - a : k \in 1 .. c - a
  OBVIOUS
<1>6. \A k \in 1 .. c - b : b - a + k \in 1 .. c - a /\ a + (b - a + k) = b + k
  OBVIOUS
<1>7. \A k \in 1 .. b - a : Mac!Text(a, b)[k] = Mac!Text(a, c)[k]
  BY <1>2, <1>4, <1>5
<1>8. \A k \in 1 .. c - b : Mac!Text(b, c)[k] = Mac!Text(a, c)[b - a + k]
  BY <1>3, <1>4, <1>6
<1> QED BY <1>2, <1>3, <1>4, <1>7, <1>8, Joins

(* What has been written to the buffer is the key, nothing more. *)
LEMMA KeyWhole ==
  ASSUME NEW k \in Nat
  PROVE  SubSeq(Mac!Key(0, k), 1, k) = Mac!Key(0, k) /\ <<>> \o Mac!Key(0, k) = Mac!Key(0, k)
BY DEF Mac!Key

(* The bytes that come from W, and those of them without a mask. *)
Bytes(W) == [is : W, masks : SUBSET {Mac!ipad, Mac!opad}]
Plain(W) == [is : W, masks : {{}}]

(* Masking keeps the number of bytes; the two masks of the inner and the   *)
(* outer hash together take the inner one off and put the outer one on     *)
(* (hmac.c:89-91).                                                         *)
LEMMA Masks ==
  ASSUME NEW W, NEW q \in Seq(Plain(W))
  PROVE  /\ Mac!Xor(q, {Mac!ipad}) \in Seq(Bytes(W))
         /\ Mac!Xor(Mac!Xor(q, {Mac!ipad}), {Mac!ipad, Mac!opad}) = Mac!Xor(q, {Mac!opad})
<1>1. DOMAIN q = 1 .. Len(q) /\ Len(q) \in Nat /\ \A k \in 1 .. Len(q) : q[k] \in Plain(W)
  OBVIOUS
<1>2. ASSUME NEW k \in 1 .. Len(q)
      PROVE  /\ q[k] = [is |-> q[k].is, masks |-> {}] /\ q[k].is \in W
             /\ Mac!Xor(q, {Mac!ipad})[k] = [is |-> q[k].is, masks |-> {Mac!ipad}]
             /\ Mac!Xor(q, {Mac!opad})[k] = [is |-> q[k].is, masks |-> {Mac!opad}]
  <2>1. q[k] \in Plain(W)
    BY <1>1
  <2>2. q[k] = [is |-> q[k].is, masks |-> {}] /\ q[k].is \in W
    BY <2>1 DEF Plain
  <2>3. \A m : [q[k] EXCEPT !.masks = Mac!SymDiff(@, m)] = [is |-> q[k].is, masks |-> m]
    <3>1. \A m : Mac!SymDiff({}, m) = m
      BY DEF Mac!SymDiff
    <3>2. PICK w : q[k] = [is |-> w, masks |-> {}] /\ w = q[k].is
      BY <2>2
    <3>3. \A m : [[is |-> w, masks |-> {}] EXCEPT !.masks = Mac!SymDiff(@, m)]
                   = [is |-> w, masks |-> Mac!SymDiff({}, m)]
      OBVIOUS
    <3> QED BY <3>1, <3>2, <3>3
  <2> QED BY <1>1, <2>2, <2>3 DEF Mac!Xor
<1>3. DOMAIN Mac!Xor(q, {Mac!ipad}) = 1 .. Len(q) /\ DOMAIN Mac!Xor(q, {Mac!opad}) = 1 .. Len(q)
  BY <1>1 DEF Mac!Xor
<1>4. Mac!Xor(q, {Mac!ipad}) \in Seq(Bytes(W))
  <2>1. \A w \in W : [is |-> w, masks |-> {Mac!ipad}] \in Bytes(W)
    BY DEF Bytes
  <2>3. \A k \in 1 .. Len(q) : Mac!Xor(q, {Mac!ipad})[k] \in Bytes(W)
    BY <1>2, <2>1
  <2>2. Mac!Xor(q, {Mac!ipad}) = [k \in 1 .. Len(q) |-> Mac!Xor(q, {Mac!ipad})[k]]
    BY <1>1 DEF Mac!Xor
  <2> DEFINE x == Mac!Xor(q, {Mac!ipad})
  <2>4. x = [k \in 1 .. Len(q) |-> x[k]] /\ \A k \in 1 .. Len(q) : x[k] \in Bytes(W)
    BY <2>2, <2>3
  <2> HIDE DEF x
  <2>5. x \in Seq(Bytes(W))
    BY <2>4, <1>1
  <2> QED BY <2>5 DEF x
<1>5. Mac!Xor(Mac!Xor(q, {Mac!ipad}), {Mac!ipad, Mac!opad}) = Mac!Xor(q, {Mac!opad})
  <2>1. Mac!SymDiff({Mac!ipad}, {Mac!ipad, Mac!opad}) = {Mac!opad}
    BY DEF Mac!SymDiff, Mac!ipad, Mac!opad
  <2>2. ASSUME NEW k \in 1 .. Len(q)
        PROVE  [Mac!Xor(q, {Mac!ipad})[k] EXCEPT !.masks = Mac!SymDiff(@, {Mac!ipad, Mac!opad})] = Mac!Xor(q, {Mac!opad})[k]
    <3>1. PICK w : /\ Mac!Xor(q, {Mac!ipad})[k] = [is |-> w, masks |-> {Mac!ipad}]
                   /\ Mac!Xor(q, {Mac!opad})[k] = [is |-> w, masks |-> {Mac!opad}]
      BY <1>2
    <3>2. [[is |-> w, masks |-> {Mac!ipad}] EXCEPT !.masks = Mac!SymDiff(@, {Mac!ipad, Mac!opad})]
            = [is |-> w, masks |-> Mac!SymDiff({Mac!ipad}, {Mac!ipad, Mac!opad})]
      OBVIOUS
    <3> QED BY <2>1, <3>1, <3>2
  <2>3. Mac!Xor(Mac!Xor(q, {Mac!ipad}), {Mac!ipad, Mac!opad}) = [k \in 1 .. Len(q) |-> Mac!Xor(q, {Mac!opad})[k]]
    BY <2>2, <1>3 DEF Mac!Xor
  <2>4. Mac!Xor(q, {Mac!opad}) = [k \in 1 .. Len(q) |-> Mac!Xor(q, {Mac!opad})[k]]
    BY <1>1 DEF Mac!Xor
  <2> QED BY <2>3, <2>4
<1> QED BY <1>4, <1>5

(* The padded key is a sequence of bytes without masks. *)
LEMMA PaddedKey ==
  ASSUME Mac!SizesFit, key \in Nat
  PROVE  \E W : Mac!K \in Seq(Plain(W))
<1> DEFINE k0 == IF key > BlockSize THEN Mac!Hash(Mac!Key(0, key)) ELSE Mac!Key(0, key)
           pad == [z \in 1 .. BlockSize - Len(k0) |-> Mac!Zero]
           W == {<<"key", k>> : k \in Nat} \cup {<<"hash", Mac!Key(0, key), k>> : k \in Nat}
                  \cup {<<"zero">>}
<1>1. \A w \in W : Mac!Byte(w) \in Plain(W)
  BY DEF Mac!Byte, Plain
<1>2. Mac!Key(0, key) \in Seq(Plain(W)) /\ Len(Mac!Key(0, key)) = key
  <2>1. \A k \in 1 .. key - 0 : Mac!Byte(<<"key", 0 + k>>) \in Plain(W)
    BY <1>1
  <2> HIDE DEF W
  <2>2. [k \in 1 .. key - 0 |-> Mac!Byte(<<"key", 0 + k>>)] \in [1 .. key - 0 -> Plain(W)]
    BY <2>1
  <2>3. key - 0 \in Nat /\ key - 0 = key
    OBVIOUS
  <2> QED BY <2>2, <2>3 DEF Mac!Key
<1>3. Mac!Hash(Mac!Key(0, key)) \in Seq(Plain(W)) /\ Len(Mac!Hash(Mac!Key(0, key))) = HashLen
  <2>1. \A k \in 1 .. HashLen : Mac!Byte(<<"hash", Mac!Key(0, key), k>>) \in Plain(W)
    BY <1>1
  <2>2. HashLen \in Nat
    BY DEF Mac!SizesFit
  <2> QED BY <2>1, <2>2 DEF Mac!Hash
<1>4. k0 \in Seq(Plain(W)) /\ BlockSize - Len(k0) \in Nat
  BY <1>2, <1>3 DEF Mac!SizesFit
<1>5. pad \in Seq(Plain(W))
  <2>1. Mac!Zero \in Plain(W)
    BY <1>1 DEF Mac!Zero
  <2> HIDE DEF k0, W
  <2> QED BY <2>1, <1>4
<1>6. Mac!K = k0 \o pad
  BY DEF Mac!K
<1> HIDE DEF k0, pad, W
<1> QED BY <1>4, <1>5, <1>6, ConcatProperties
------------------------------------------------------------------------------
(* A plain key that fits is collected in the buffer; a longer one is       *)
(* hashed, whole; then the padded key is masked in the buffer and leads    *)
(* what the hash absorbs, and the text follows; in the end there is the    *)
(* result.                                                                 *)
HmacInv ==
  /\ state \in 0 .. 3 /\ key \in Nat /\ text \in Nat
  /\ state = 0 => key <= BlockSize /\ size = key /\ buf = Mac!Key(0, key) /\ h = <<>> /\ text = 0
  /\ state = 1 => key > BlockSize /\ h = Mac!Key(0, key) /\ text = 0
  /\ state = 2 => buf = Mac!Xor(Mac!K, {Mac!ipad}) /\ h = buf \o Mac!Text(0, text)
  /\ state = 3 => mac = Mac!Expected

LEMMA HmacBegins == ASSUME Mac!SizesFit, Mac!Init PROVE HmacInv
BY DEF Mac!SizesFit, Mac!Init, HmacInv, Mac!Key

(* Before the first data, finishing the key makes the masked padded key. *)
LEMMA Finishes == ASSUME Mac!SizesFit, HmacInv, state \in {0, 1} PROVE Mac!KeyBlock = Mac!Xor(Mac!K, {Mac!ipad})
<1>1. CASE state = 0
  <2>1. key \in Nat /\ BlockSize \in Nat /\ key <= BlockSize /\ SubSeq(buf, 1, size) = Mac!Key(0, key)
    BY <1>1, KeyWhole DEF HmacInv, Mac!SizesFit
  <2>2. ~(key > BlockSize) /\ ~(state = 1)
    BY <1>1, <2>1
  <2> QED BY <2>1, <2>2 DEF Mac!KeyBlock, Mac!K
<1>2. CASE state = 1
  BY <1>2 DEF HmacInv, Mac!KeyBlock, Mac!K
<1> QED BY <1>1, <1>2

LEMMA KeyStep ==
  ASSUME Mac!SizesFit, HmacInv, NEW s \in HmacPieces, Mac!UpdateKey(s)
  PROVE  HmacInv'
<1>1. s \in Nat /\ key \in Nat /\ BlockSize \in Nat /\ key + s \in Nat
  BY DEF Mac!SizesFit, HmacInv
<1>2. key' = key + s /\ text' = text /\ state \in {0, 1}
  BY DEF Mac!UpdateKey
<1>3. Mac!Key(0, key) \o Mac!Key(key, key + s) = Mac!Key(0, key + s)
  <2>1. 0 <= key /\ key <= key + s
    BY <1>1
  <2> QED BY <1>1, <2>1, KeyJoins
<1>4. CASE state = 0 /\ Mac!KeyFits(s)
  <2>1. /\ buf' = SubSeq(buf, 1, size) \o Mac!Key(key, key + s) /\ size' = size + s
        /\ UNCHANGED <<state, h>>
    <3>1. state # 1
      BY <1>4
    <3> QED BY <1>4, <3>1 DEF Mac!UpdateKey
  <2>2. buf' = Mac!Key(0, key + s)
    BY <1>4, <1>1, <1>3, <2>1, KeyWhole DEF HmacInv
  <2> QED BY <1>1, <1>2, <1>4, <2>1, <2>2 DEF HmacInv, Mac!KeyFits
<1>5. CASE state = 0 /\ ~Mac!KeyFits(s)
  <2>1. h' = h \o SubSeq(buf, 1, size) \o Mac!Key(key, key + s) /\ state' = 1
    <3>1. state # 1
      BY <1>5
    <3> QED BY <1>5, <3>1 DEF Mac!UpdateKey
  <2>2. h' = Mac!Key(0, key + s)
    BY <1>5, <1>1, <1>3, <2>1, KeyWhole DEF HmacInv
  <2> QED BY <1>1, <1>2, <1>5, <2>1, <2>2 DEF HmacInv, Mac!KeyFits
<1>6. CASE state = 1
  <2>1. h' = h \o Mac!Key(key, key + s) /\ state' = 1
    BY <1>6 DEF Mac!UpdateKey
  <2>2. h' = Mac!Key(0, key + s)
    BY <1>6, <1>3, <2>1 DEF HmacInv
  <2> QED BY <1>1, <1>2, <1>6, <2>1, <2>2 DEF HmacInv
<1> QED BY <1>2, <1>4, <1>5, <1>6

LEMMA DataStep ==
  ASSUME Mac!SizesFit, HmacInv, NEW s \in HmacPieces, Mac!UpdateData(s)
  PROVE  HmacInv'
<1>1. s \in Nat /\ text \in Nat /\ text + s \in Nat /\ key \in Nat /\ state \in 0 .. 2
  BY DEF Mac!SizesFit, HmacInv, Mac!UpdateData
<1>2. /\ key' = key /\ text' = text + s /\ state' = 2
      /\ h' = Mac!Absorbed \o Mac!Text(text, text + s)
      /\ buf' = IF state = 2 THEN buf ELSE Mac!KeyBlock
  BY DEF Mac!UpdateData, Mac!FinishKey
<1>3. Mac!K' = Mac!K
  BY <1>2 DEF Mac!K
<1>6. /\ state' \in 0 .. 3 /\ key' \in Nat /\ text' \in Nat
      /\ state' # 0 /\ state' # 1 /\ state' # 3
  BY <1>1, <1>2
<1>4. CASE state = 2
  <2>1. buf = Mac!Xor(Mac!K, {Mac!ipad}) /\ h = buf \o Mac!Text(0, text) /\ buf' = buf
    BY <1>2, <1>4 DEF HmacInv
  <2>2. PICK W : Mac!K \in Seq(Plain(W))
    BY <1>1, PaddedKey
  <2>8. 0 <= text /\ text <= text + s
    BY <1>1
  <2>3. Mac!Text(0, text) \in Seq(TextBytes) /\ Mac!Text(text, text + s) \in Seq(TextBytes)
    BY <1>1, <2>8, TextFacts
  <2>4. buf \in Seq(Bytes(W))
    BY <2>1, <2>2, Masks
  <2>5. /\ buf \in Seq(Bytes(W) \cup TextBytes)
        /\ Mac!Text(0, text) \in Seq(Bytes(W) \cup TextBytes)
        /\ Mac!Text(text, text + s) \in Seq(Bytes(W) \cup TextBytes)
    BY <2>3, <2>4
  <2>6. (buf \o Mac!Text(0, text)) \o Mac!Text(text, text + s)
          = buf \o (Mac!Text(0, text) \o Mac!Text(text, text + s))
    BY <2>5, ConcatAssociative
  <2>7. h' = buf' \o Mac!Text(0, text')
    <3>1. Mac!Absorbed = h
      BY <1>4 DEF Mac!Absorbed
    <3>2. Mac!Text(0, text) \o Mac!Text(text, text + s) = Mac!Text(0, text + s)
      <4>1. 0 \in Nat /\ 0 <= text
        BY <1>1
      <4> QED BY <1>1, <2>8, <4>1, TextJoins
    <3> QED BY <1>2, <2>1, <2>6, <3>1, <3>2
  <2>9. buf' = Mac!Xor(Mac!K', {Mac!ipad})
    BY <1>3, <2>1
  <2> QED BY <1>6, <2>7, <2>9 DEF HmacInv
<1>5. CASE state \in {0, 1}
  <2>1. text = 0 /\ Mac!KeyBlock = Mac!Xor(Mac!K, {Mac!ipad})
    BY <1>5, Finishes DEF HmacInv
  <2>2. h' = buf' \o Mac!Text(0, text')
    <3>1. state # 2 /\ 0 + s = s /\ text + s = s
      BY <1>1, <1>5, <2>1
    <3>2. Mac!Absorbed = Mac!KeyBlock /\ buf' = Mac!KeyBlock
      BY <1>2, <3>1 DEF Mac!Absorbed
    <3> QED BY <1>2, <2>1, <3>1, <3>2
  <2>3. buf' = Mac!Xor(Mac!K', {Mac!ipad})
    <3>1. state # 2
      BY <1>5
    <3> QED BY <1>2, <1>3, <2>1, <3>1
  <2> QED BY <1>6, <2>2, <2>3 DEF HmacInv
<1> QED BY <1>1, <1>4, <1>5

LEMMA DoneStep == ASSUME Mac!SizesFit, HmacInv, Mac!Done PROVE HmacInv'
<1> DEFINE inner == IF state = 2 THEN buf ELSE Mac!KeyBlock
<1>1. /\ key \in Nat /\ text \in Nat /\ state \in 0 .. 2
      /\ key' = key /\ text' = text /\ state' = 3
      /\ mac' = Mac!Hash(Mac!Xor(inner, {Mac!ipad, Mac!opad}) \o Mac!Hash(Mac!Absorbed))
  BY DEF HmacInv, Mac!Done
<1>2. inner = Mac!Xor(Mac!K, {Mac!ipad})
  BY <1>1, Finishes DEF HmacInv
<1>3. Mac!Absorbed = Mac!Xor(Mac!K, {Mac!ipad}) \o Mac!Text(0, text)
  <2>1. CASE state = 2
    BY <2>1 DEF HmacInv, Mac!Absorbed
  <2>2. CASE state \in {0, 1}
    <3>1. text = 0 /\ Mac!KeyBlock = Mac!Xor(Mac!K, {Mac!ipad})
      BY <2>2, Finishes DEF HmacInv
    <3>2. PICK W : Mac!K \in Seq(Plain(W))
      BY <1>1, PaddedKey
    <3>3. Mac!KeyBlock \in Seq(Bytes(W))
      BY <3>1, <3>2, Masks
    <3>4. Mac!Text(0, 0) = <<>> /\ Mac!KeyBlock \o <<>> = Mac!KeyBlock
      BY <3>3, ConcatEmptySeq DEF Mac!Text
    <3>5. state # 2
      BY <2>2
    <3>6. Mac!Absorbed = Mac!KeyBlock
      BY <3>5 DEF Mac!Absorbed
    <3>7. Mac!Text(0, text) = <<>>
      BY <3>1, <3>4
    <3> QED BY <3>1, <3>4, <3>6, <3>7
  <2>3. state = 2 \/ state \in {0, 1}
    BY <1>1
  <2> QED BY <2>1, <2>2, <2>3
<1>4. Mac!Xor(inner, {Mac!ipad, Mac!opad}) = Mac!Xor(Mac!K, {Mac!opad})
  <2>1. PICK W : Mac!K \in Seq(Plain(W))
    BY <1>1, PaddedKey
  <2> QED BY <1>2, <2>1, Masks
<1>5. mac' = Mac!Expected
  BY <1>1, <1>3, <1>4 DEF Mac!Expected
<1>6. Mac!Expected' = Mac!Expected
  BY <1>1 DEF Mac!Expected, Mac!K
<1> QED BY <1>1, <1>5, <1>6 DEF HmacInv

LEMMA HmacStays == ASSUME HmacInv, UNCHANGED Mac!vars PROVE HmacInv'
BY DEF HmacInv, Mac!vars, Mac!K, Mac!Expected

LEMMA HmacStep == ASSUME Mac!SizesFit, HmacInv, [Mac!Next]_(Mac!vars) PROVE HmacInv'
BY KeyStep, DataStep, DoneStep, HmacStays DEF Mac!Next

mcvars == <<which, vars, OnlyPbkdf2, OnlyHmac, OnlySha2, ShaAndMac, state, pc, tableVars>>

(* However key and text are cut into pieces, the result is their HMAC.     *)
THEOREM ResultIsHmac == MCSpec => []MacIsHmac
<1> DEFINE There == which = "Hmac" => HmacInv
<1>1. MCInit => There
  BY HmacBegins, HmacAssumption DEF MCInit
<1>2. There /\ [MCNext]_mcvars => There'
  <2> SUFFICES ASSUME There, [MCNext]_mcvars, which' = "Hmac" PROVE HmacInv'
    OBVIOUS
  <2>1. which' = which
    BY DEF MCNext, StepSha2, StepHmac, StepPbkdf2, StepCipher, StepTables, mcvars
  <2>2. which = "Hmac" /\ HmacInv
    BY <2>1
  <2>3. StepHmac \/ UNCHANGED mcvars
    BY <2>2 DEF MCNext, StepSha2, StepHmac, StepPbkdf2, StepCipher, StepTables
  <2>4. [Mac!Next]_(Mac!vars)
    BY <2>3 DEF StepHmac, mcvars, OnlyPbkdf2, OnlyHmac, OnlySha2, ShaAndMac, vars, Mac!vars
  <2> QED BY <2>2, <2>4, HmacStep, HmacAssumption
<1>3. There => MacIsHmac
  BY DEF HmacInv, Mac!MacIsHmac, MacIsHmac
<1> QED BY <1>1, <1>2, <1>3, PTL DEF MCSpec, mcvars
-------------------------------------------------------------------------------
(* pbkdf2.c: the stream of the derived key. *)
(* The first n bytes of the derived key. *)
DerivedKey(p, s, c, n) == [m \in 1 .. n |-> Stream!Expected(p, s, c, m)]

(* The l bytes after them. *)
Continued(p, s, c, n, l) == [k \in 1 .. l |-> Stream!Expected(p, s, c, n + k)]

(* How much of it the blocks that have been copied from amount to. *)
Produced ==
  (index - 2) * HashLen + (IF pc = "iterating" THEN 0 ELSE tmp_offset)

NumbersInv ==
  /\ pw \in Nat /\ salt \in Nat \X Nat /\ state \in 0 .. 2
  /\ index \in Nat \ {0} /\ tmp_offset \in 0 .. HashLen /\ dkLen \in Nat
  /\ pc \in {"idle", "copying", "iterating"}

(* The password of the salt's HMAC is whole, and there is no output before *)
(* the salt is whole, too.                                                 *)
InputInv ==
  /\ state # 0 => salt[1] = pw
  /\ state # 2 => pc = "idle" /\ index = 1
  /\ state = 2 => iterations \in 1 .. IntMax
  /\ index = 1 => tmp_offset = HashLen

(* In helper(), the exclusive or of i MACs, of which sha is the last one. *)
BlockInv ==
  /\ pc = "iterating" =>
       /\ index # 1 /\ tmp_offset = HashLen /\ i \in 1 .. iterations
       /\ sha = Stream!U(pw, salt[2], index - 1, i) /\ tmp = Stream!F(pw, salt[2], i, index - 1)
  /\ pc # "iterating" /\ index # 1 => tmp = Stream!F(pw, salt[2], iterations, index - 1)

OutputInv == out = DerivedKey(pw, salt[2], iterations, Produced)

Pbkdf2Inv == NumbersInv /\ InputInv /\ BlockInv /\ OutputInv
------------------------------------------------------------------------------
(* Where byte p of block q is in the derived key. *)
LEMMA Position ==
  ASSUME NEW n \in Nat \ {0}, NEW q \in Nat, NEW p \in 0 .. n - 1,
         NEW a \in Int, a = q * n + p
  PROVE  a \div n = q /\ a % n = p
OBVIOUS

LEMMA ByteAt ==
  ASSUME NEW p, NEW s, NEW c, NEW m \in Int, HashLen \in Nat \ {0}, NEW q, NEW o,
         (m - 1) \div HashLen + 1 = q, 1 + ((m - 1) % HashLen) = o
  PROVE  Stream!Expected(p, s, c, m) = <<Stream!F(p, s, c, q), o>>
BY DEF Stream!Expected

(* What follows the first n bytes. *)
LEMMA DerivedKeyGrows ==
  ASSUME NEW p, NEW s, NEW c, NEW n \in Nat, NEW l \in Nat
  PROVE  DerivedKey(p, s, c, n) \o Continued(p, s, c, n, l) = DerivedKey(p, s, c, n + l)
<1> DEFINE S == {Stream!Expected(p, s, c, m) : m \in Nat}
           u == [m \in 1 .. n |-> Stream!Expected(p, s, c, m)]
           v == [k \in 1 .. l |-> Stream!Expected(p, s, c, n + k)]
           w == [m \in 1 .. n + l |-> Stream!Expected(p, s, c, m)]
<1>1. \A m \in Nat : Stream!Expected(p, s, c, m) \in S
  OBVIOUS
<1> HIDE DEF S
<1>2. u \in Seq(S) /\ Len(u) = n /\ \A k \in 1 .. n : u[k] = Stream!Expected(p, s, c, k)
  BY <1>1
<1>3. v \in Seq(S) /\ Len(v) = l /\ \A k \in 1 .. l : v[k] = Stream!Expected(p, s, c, n + k)
  BY <1>1
<1>4. w \in Seq(S) /\ Len(w) = n + l /\ \A k \in 1 .. n + l : w[k] = Stream!Expected(p, s, c, k)
  BY <1>1
<1> HIDE DEF u, v, w
<1>5. /\ u \o v \in Seq(S) /\ Len(u \o v) = Len(u) + Len(v)
      /\ \A k \in 1 .. Len(u) + Len(v) :
           (u \o v)[k] = IF k <= Len(u) THEN u[k] ELSE v[k - Len(u)]
  BY <1>2, <1>3, ConcatProperties
<1>6. ASSUME NEW k \in 1 .. n + l PROVE (u \o v)[k] = w[k]
  <2>1. CASE k <= n
    <3>1. k \in 1 .. n
      BY <2>1
    <3> QED BY <2>1, <3>1, <1>2, <1>3, <1>4, <1>5
  <2>2. CASE ~(k <= n)
    <3>1. k - n \in 1 .. l /\ n + (k - n) = k
      BY <2>2
    <3>2. v[k - n] = Stream!Expected(p, s, c, k)
      BY <3>1, <1>3
    <3> QED BY <2>2, <3>2, <1>2, <1>3, <1>4, <1>5
  <2> QED BY <2>1, <2>2
<1>7. u \o v = w
  BY <1>2, <1>3, <1>4, <1>5, <1>6, SeqEqual
<1> QED BY <1>7 DEF u, v, w, DerivedKey, Continued
------------------------------------------------------------------------------
LEMMA NothingYet ==
  ASSUME HashLen \in Nat
  PROVE  (\A p, s, c : DerivedKey(p, s, c, 0) = <<>>) /\ (1 - 2) * HashLen + HashLen = 0
BY DEF DerivedKey

LEMMA Pbkdf2Begins == ASSUME Stream!SizesFit, Stream!Init PROVE Pbkdf2Inv
<1> USE DEF Stream!SizesFit, Stream!Init
<1>1. NumbersInv /\ InputInv
  BY DEF NumbersInv, InputInv
<1>2. BlockInv
  BY DEF BlockInv
<1>3. OutputInv
  <2>1. index = 1 /\ tmp_offset = HashLen /\ HashLen \in Nat /\ pc # "iterating" /\ out = <<>>
    OBVIOUS
  <2>2. Produced = 0
    BY <2>1, NothingYet DEF Produced
  <2> QED BY <2>1, <2>2, NothingYet DEF OutputInv
<1> QED BY <1>1, <1>2, <1>3 DEF Pbkdf2Inv

(* While password and salt come in, nothing depends on them yet. *)
LEMMA InputStep ==
  ASSUME Stream!SizesFit, Pbkdf2Inv, state # 2, UNCHANGED <<Stream!block, dkLen, pc, out>>,
         NumbersInv', InputInv'
  PROVE  Pbkdf2Inv'
<1>1. /\ HashLen \in Nat /\ pc = "idle" /\ index = 1 /\ tmp_offset = HashLen
      /\ pc' = pc /\ index' = index /\ tmp_offset' = tmp_offset /\ out' = out
  BY DEF Stream!SizesFit, Pbkdf2Inv, InputInv, Stream!block
<1>2. Produced = 0 /\ Produced' = 0
  BY <1>1, NothingYet DEF Produced
<1>3. out = <<>>
  BY <1>1, <1>2, NothingYet DEF Pbkdf2Inv, OutputInv
<1>6. OutputInv'
  BY <1>1, <1>2, <1>3, NothingYet DEF OutputInv
<1>7. BlockInv'
  BY <1>1 DEF BlockInv
<1> QED BY <1>6, <1>7 DEF Pbkdf2Inv

LEMMA PasswordStep ==
  ASSUME Stream!SizesFit, Pbkdf2Inv, NEW s \in Pieces, Stream!UpdatePassword(s)
  PROVE  Pbkdf2Inv'
<1>1. state = 0 /\ pw' = pw + s /\ UNCHANGED <<state, salt, iterations, Stream!block, dkLen, pc, out>>
  BY DEF Stream!UpdatePassword
<1>2. NumbersInv'
  BY <1>1 DEF Stream!SizesFit, Pbkdf2Inv, NumbersInv, Stream!block
<1>3. InputInv'
  BY <1>1 DEF Pbkdf2Inv, InputInv, Stream!block
<1> QED BY <1>1, <1>2, <1>3, InputStep

LEMMA SaltedFacts ==
  ASSUME Pbkdf2Inv, state \in {0, 1}
  PROVE  Stream!Salted \in Nat \X Nat /\ Stream!Salted[1] = pw
BY DEF Pbkdf2Inv, NumbersInv, InputInv, Stream!Salted

LEMMA SaltStep ==
  ASSUME Stream!SizesFit, Pbkdf2Inv, NEW s \in Pieces, Stream!UpdateSalt(s)
  PROVE  Pbkdf2Inv'
<1>1. /\ state \in {0, 1} /\ salt' = <<Stream!Salted[1], Stream!Salted[2] + s>> /\ state' = 1
      /\ UNCHANGED <<pw, iterations, Stream!block, dkLen, pc, out>>
  BY DEF Stream!UpdateSalt
<1>2. s \in Nat /\ Stream!Salted \in Nat \X Nat /\ Stream!Salted[1] = pw
  BY <1>1, SaltedFacts DEF Stream!SizesFit
<1>3. NumbersInv'
  BY <1>1, <1>2 DEF Pbkdf2Inv, NumbersInv, Stream!block
<1>4. InputInv'
  BY <1>1, <1>2 DEF Pbkdf2Inv, InputInv, Stream!block
<1> QED BY <1>1, <1>3, <1>4, InputStep

LEMMA FinalizeStep ==
  ASSUME Stream!SizesFit, Pbkdf2Inv, NEW n \in Iterations, Stream!FinalizeSalt(n)
  PROVE  Pbkdf2Inv'
<1>1. /\ state \in {0, 1} /\ salt' = Stream!Salted /\ iterations' = n /\ state' = 2
      /\ UNCHANGED <<pw, Stream!block, dkLen, pc, out>>
  BY DEF Stream!FinalizeSalt
<1>2. n \in 1 .. IntMax /\ Stream!Salted \in Nat \X Nat /\ Stream!Salted[1] = pw
  BY <1>1, SaltedFacts DEF Stream!SizesFit
<1>3. NumbersInv'
  BY <1>1, <1>2 DEF Pbkdf2Inv, NumbersInv, Stream!block
<1>4. InputInv'
  BY <1>1, <1>2 DEF Pbkdf2Inv, InputInv, Stream!block
<1> QED BY <1>1, <1>3, <1>4, InputStep
------------------------------------------------------------------------------
LEMMA GenerateStep ==
  ASSUME Stream!SizesFit, Pbkdf2Inv, NEW n \in Pieces, Stream!Generate(n)
  PROVE  Pbkdf2Inv'
<1>1. /\ state = 2 /\ pc = "idle" /\ dkLen' = n /\ pc' = "copying"
      /\ UNCHANGED <<state, pw, salt, iterations, index, tmp, tmp_offset, sha, i, out>>
  BY DEF Stream!Generate, Stream!input, Stream!block
<1>2. NumbersInv' /\ InputInv'
  BY <1>1 DEF Stream!SizesFit, Pbkdf2Inv, NumbersInv, InputInv
<1>3. BlockInv'
  BY <1>1 DEF Pbkdf2Inv, BlockInv
<1>4. OutputInv'
  <2>1. Produced' = Produced
    BY <1>1 DEF Produced
  <2> QED BY <1>1, <2>1 DEF Pbkdf2Inv, OutputInv
<1> QED BY <1>2, <1>3, <1>4 DEF Pbkdf2Inv

(* One MAC is the exclusive or of the first of them. *)
LEMMA FirstMac ==
  ASSUME NEW p, NEW s, NEW k
  PROVE  Stream!MacOfSalt(p, s, k) = Stream!U(p, s, k, 1) /\ Stream!F(p, s, 1, k) = {Stream!U(p, s, k, 1)}
<1>1. [x \in 1 .. 1 - 1 |-> p] = <<>>
  OBVIOUS
<1>2. Stream!MacOfSalt(p, s, k) = Stream!U(p, s, k, 1)
  BY <1>1 DEF Stream!MacOfSalt, Stream!U
<1>3. 1 .. 1 = {1}
  OBVIOUS
<1> QED BY <1>2, <1>3 DEF Stream!F

LEMMA StartStep == ASSUME Stream!SizesFit, Pbkdf2Inv, Stream!StartBlock PROVE Pbkdf2Inv'
<1>1. /\ pc = "copying" /\ tmp_offset = HashLen /\ pc' = "iterating" /\ i' = 1
      /\ sha' = Stream!MacOfSalt(salt[1], salt[2], index) /\ tmp' = {sha'} /\ index' = index + 1
      /\ UNCHANGED <<state, pw, salt, iterations, tmp_offset, dkLen, out>>
  BY DEF Stream!StartBlock, Stream!NextIndex, Stream!input
<1>2. state = 2 /\ salt[1] = pw /\ iterations \in 1 .. IntMax /\ index \in Nat \ {0}
  BY <1>1 DEF Pbkdf2Inv, InputInv, NumbersInv
<1>3. NumbersInv' /\ InputInv'
  BY <1>1, <1>2 DEF Stream!SizesFit, Pbkdf2Inv, NumbersInv, InputInv
<1>4. BlockInv'
  <2>1. /\ index' # 1 /\ index' - 1 = index /\ i' \in 1 .. iterations' /\ tmp_offset' = HashLen
    BY <1>1, <1>2 DEF Stream!SizesFit
  <2>2. sha' = Stream!U(pw, salt[2], index, 1) /\ tmp' = Stream!F(pw, salt[2], 1, index)
    BY <1>1, <1>2, FirstMac
  <2>3. sha' = Stream!U(pw', salt'[2], index' - 1, i') /\ tmp' = Stream!F(pw', salt'[2], i', index' - 1)
    BY <1>1, <2>1, <2>2
  <2> QED BY <1>1, <2>1, <2>3 DEF BlockInv
<1>5. OutputInv'
  <2>1. (index - 2) * HashLen + HashLen = (index + 1 - 2) * HashLen + 0
    BY <1>2 DEF Stream!SizesFit
  <2>2. Produced = (index - 2) * HashLen + HashLen /\ Produced' = (index + 1 - 2) * HashLen + 0
    <3>1. pc # "iterating"
      BY <1>1
    <3>2. Produced = (index - 2) * HashLen + HashLen
      BY <1>1, <3>1 DEF Produced
    <3>3. Produced' = (index' - 2) * HashLen + 0
      BY <1>1 DEF Produced
    <3>4. index' = index + 1
      BY <1>1
    <3> QED BY <1>2, <3>2, <3>3, <3>4
  <2>3. Produced' = Produced
    BY <2>1, <2>2
  <2> QED BY <1>1, <2>3 DEF Pbkdf2Inv, OutputInv
<1> QED BY <1>3, <1>4, <1>5 DEF Pbkdf2Inv

(* The next MAC is another one than those before it, so that it is added   *)
(* to the exclusive or.                                                    *)
LEMMA Repeated ==
  ASSUME NEW p, NEW m \in Nat
  PROVE  Append([x \in 1 .. m |-> p], p) = [x \in 1 .. m + 1 |-> p]
<1> DEFINE t == [x \in 1 .. m |-> p]
           u == [x \in 1 .. m + 1 |-> p]
<1>1. t \in Seq({p}) /\ Len(t) = m /\ \A x \in 1 .. m : t[x] = p
  OBVIOUS
<1>2. u \in Seq({p}) /\ Len(u) = m + 1 /\ \A x \in 1 .. m + 1 : u[x] = p
  OBVIOUS
<1> HIDE DEF t, u
<1>3. Append(t, p) \in Seq({p}) /\ Len(Append(t, p)) = m + 1
  BY <1>1
<1>4. \A x \in 1 .. m + 1 : Append(t, p)[x] = u[x]
  BY <1>1, <1>2
<1> QED BY <1>2, <1>3, <1>4, SeqEqual DEF t, u

LEMMA NextMac ==
  ASSUME NEW p, NEW s, NEW k, NEW n \in Nat \ {0}
  PROVE  /\ Stream!MacOf(p, Stream!U(p, s, k, n)) = Stream!U(p, s, k, n + 1)
         /\ Stream!SymDiff(Stream!F(p, s, n, k), {Stream!U(p, s, k, n + 1)}) = Stream!F(p, s, n + 1, k)
<1>1. \A m : Stream!U(p, s, k, m) = [key |-> p, salt |-> s, index |-> k,
                               then |-> [x \in 1 .. m - 1 |-> p]]
  <2> SUFFICES ASSUME NEW m
               PROVE  Stream!U(p, s, k, m) = [key |-> p, salt |-> s, index |-> k,
                                       then |-> [x \in 1 .. m - 1 |-> p]]
    OBVIOUS
  <2>1. PICK t : t = [x \in 1 .. m - 1 |-> p]
    OBVIOUS
  <2>2. [[key |-> p, salt |-> s, index |-> k, then |-> <<>>] EXCEPT !.then = t]
          = [key |-> p, salt |-> s, index |-> k, then |-> t]
    OBVIOUS
  <2> QED BY <2>1, <2>2 DEF Stream!U, Stream!MacOfSalt
<1>2. \A m \in Nat \ {0} : Len([x \in 1 .. m - 1 |-> p]) = m - 1
  OBVIOUS
<1>3. Append([x \in 1 .. n - 1 |-> p], p) = [x \in 1 .. n + 1 - 1 |-> p]
  <2>1. n - 1 \in Nat /\ n + 1 - 1 = (n - 1) + 1
    OBVIOUS
  <2> QED BY ONLY <2>1, Repeated
<1>4. Stream!MacOf(p, Stream!U(p, s, k, n)) = Stream!U(p, s, k, n + 1)
  <2>1. PICK t : t = [x \in 1 .. n - 1 |-> p]
    OBVIOUS
  <2>2. [[key |-> p, salt |-> s, index |-> k, then |-> t] EXCEPT !.then = Append(@, p)]
          = [key |-> p, salt |-> s, index |-> k, then |-> Append(t, p)]
    <3>1. PICK v : v = Append(t, p)
      OBVIOUS
    <3>2. [[key |-> p, salt |-> s, index |-> k, then |-> t] EXCEPT !.then = v]
            = [key |-> p, salt |-> s, index |-> k, then |-> v]
      OBVIOUS
    <3> QED BY ONLY <3>1, <3>2
  <2>3. Stream!MacOf(p, Stream!U(p, s, k, n)) = [key |-> p, salt |-> s, index |-> k, then |-> Append(t, p)]
    <3>1. Stream!U(p, s, k, n) = [key |-> p, salt |-> s, index |-> k, then |-> t]
      BY <1>1, <2>1
    <3> QED BY ONLY <3>1, <2>2 DEF Stream!MacOf
  <2>4. Append(t, p) = [x \in 1 .. n + 1 - 1 |-> p]
    BY <1>3, <2>1
  <2> QED BY <1>1, <2>3, <2>4
<1>5. Stream!U(p, s, k, n + 1) \notin Stream!F(p, s, n, k)
  <2> SUFFICES ASSUME NEW m \in 1 .. n, Stream!U(p, s, k, n + 1) = Stream!U(p, s, k, m) PROVE FALSE
    BY DEF Stream!F
  <2>1. /\ Stream!U(p, s, k, n + 1).then = [x \in 1 .. n + 1 - 1 |-> p]
        /\ Stream!U(p, s, k, m).then = [x \in 1 .. m - 1 |-> p]
    BY <1>1
  <2>2. Len([x \in 1 .. n + 1 - 1 |-> p]) = n /\ Len([x \in 1 .. m - 1 |-> p]) = m - 1
    BY <1>2
  <2>3. n = m - 1
    BY <2>1, <2>2
  <2> QED BY <2>3
<1>6. Stream!F(p, s, n + 1, k) = Stream!F(p, s, n, k) \cup {Stream!U(p, s, k, n + 1)}
  <2>1. 1 .. n + 1 = (1 .. n) \cup {n + 1}
    OBVIOUS
  <2> QED BY <2>1 DEF Stream!F
<1>7. Stream!SymDiff(Stream!F(p, s, n, k), {Stream!U(p, s, k, n + 1)}) = Stream!F(p, s, n, k) \cup {Stream!U(p, s, k, n + 1)}
  BY <1>5 DEF Stream!SymDiff
<1> QED BY <1>4, <1>6, <1>7

LEMMA IterateStep == ASSUME Stream!SizesFit, Pbkdf2Inv, Stream!Iterate PROVE Pbkdf2Inv'
<1>1. /\ pc = "iterating" /\ i \in 0 .. iterations - 1 /\ sha' = Stream!MacOf(pw, sha)
      /\ tmp' = Stream!SymDiff(tmp, {sha'}) /\ i' \in Stream!Incremented
      /\ UNCHANGED <<state, pw, salt, iterations, index, tmp_offset, dkLen, pc, out>>
  BY DEF Stream!Iterate, Stream!InLoop, Stream!input
<1>2. /\ iterations \in 1 .. IntMax /\ i \in 1 .. iterations /\ index # 1 /\ tmp_offset = HashLen
      /\ sha = Stream!U(pw, salt[2], index - 1, i) /\ tmp = Stream!F(pw, salt[2], i, index - 1)
  BY <1>1 DEF Pbkdf2Inv, InputInv, BlockInv
<1>3. i \in Nat \ {0} /\ i' = i + 1 /\ i + 1 \in 1 .. iterations
  BY <1>1, <1>2 DEF Stream!SizesFit, Stream!Incremented
<1>4. NumbersInv' /\ InputInv'
  BY <1>1 DEF Pbkdf2Inv, NumbersInv, InputInv
<1>5. sha' = Stream!U(pw, salt[2], index - 1, i + 1) /\ tmp' = Stream!F(pw, salt[2], i + 1, index - 1)
  BY <1>1, <1>2, <1>3, NextMac
<1>6. BlockInv'
  BY <1>1, <1>2, <1>3, <1>5 DEF BlockInv
<1>7. OutputInv'
  <2>1. Produced' = Produced
    BY <1>1 DEF Produced
  <2> QED BY <1>1, <2>1 DEF Pbkdf2Inv, OutputInv
<1> QED BY <1>4, <1>6, <1>7 DEF Pbkdf2Inv

LEMMA EndStep == ASSUME Stream!SizesFit, Pbkdf2Inv, Stream!EndBlock PROVE Pbkdf2Inv'
<1>1. /\ pc = "iterating" /\ i \notin 0 .. iterations - 1 /\ tmp_offset' = 0 /\ pc' = "copying"
      /\ UNCHANGED <<state, pw, salt, iterations, index, tmp, sha, i, dkLen, out>>
  BY DEF Stream!EndBlock, Stream!InLoop, Stream!input
<1>2. /\ iterations \in 1 .. IntMax /\ i \in 1 .. iterations /\ index # 1 /\ state = 2
      /\ tmp = Stream!F(pw, salt[2], i, index - 1)
  BY <1>1 DEF Pbkdf2Inv, InputInv, BlockInv
<1>3. i = iterations
  BY <1>1, <1>2 DEF Stream!SizesFit
<1>4. NumbersInv' /\ InputInv'
  BY <1>1, <1>2 DEF Stream!SizesFit, Pbkdf2Inv, NumbersInv, InputInv
<1>5. BlockInv'
  BY <1>1, <1>2, <1>3 DEF BlockInv
<1>6. OutputInv'
  <2>1. Produced' = Produced
    BY <1>1 DEF Produced
  <2> QED BY <1>1, <2>1 DEF Pbkdf2Inv, OutputInv
<1> QED BY <1>4, <1>5, <1>6 DEF Pbkdf2Inv

LEMMA CopyStep == ASSUME Stream!SizesFit, Pbkdf2Inv, Stream!Copy PROVE Pbkdf2Inv'
<1> DEFINE left == HashLen - tmp_offset
           len  == IF dkLen > left THEN left ELSE dkLen
<1>1. /\ pc = "copying" /\ tmp_offset # HashLen /\ dkLen > 0
      /\ out' = out \o [k \in 1 .. len |-> <<tmp, tmp_offset + k>>]
      /\ dkLen' = dkLen - len /\ tmp_offset' = tmp_offset + len
      /\ UNCHANGED <<state, pw, salt, iterations, index, tmp, sha, i, pc>>
  BY DEF Stream!Copy, Stream!input
<1>2. /\ HashLen \in Nat \ {0} /\ index \in Nat \ {0, 1}
      /\ tmp_offset \in 0 .. HashLen /\ dkLen \in Nat
      /\ tmp = Stream!F(pw, salt[2], iterations, index - 1) /\ state = 2
  BY <1>1 DEF Stream!SizesFit, Pbkdf2Inv, NumbersInv, InputInv, BlockInv
<1>3. len \in Nat /\ tmp_offset + len \in 0 .. HashLen /\ dkLen - len \in Nat
  BY <1>2
<1> HIDE DEF len
<1>4. NumbersInv' /\ InputInv'
  BY <1>1, <1>2, <1>3 DEF Pbkdf2Inv, NumbersInv, InputInv
<1>5. BlockInv'
  BY <1>1, <1>2 DEF BlockInv
<1>6. OutputInv'
  <2> DEFINE n == (index - 2) * HashLen + tmp_offset
  <2>1. n \in Nat
    <3>1. index - 2 \in Nat
      BY <1>2
    <3> QED BY <1>2, <3>1
  <2>2. Produced = n /\ Produced' = n + len
    <3>1. (index - 2) * HashLen \in Int
      BY <1>2
    <3>2. (index - 2) * HashLen + (tmp_offset + len) = n + len
      BY <1>2, <1>3, <3>1
    <3> QED BY <1>1, <3>2 DEF Produced
  <2>3. ASSUME NEW k \in 1 .. len
        PROVE  <<tmp, tmp_offset + k>> = Stream!Expected(pw, salt[2], iterations, n + k)
    <3> DEFINE m == n + k
               q == index - 2
               r == tmp_offset + k - 1
    <3>1. q \in Nat /\ r \in 0 .. HashLen - 1 /\ q + 1 = index - 1 /\ 1 + r = tmp_offset + k
      BY <1>2, <1>3
    <3>2. m \in Int /\ m - 1 = q * HashLen + r
      BY <1>2
    <3> HIDE DEF m, n, q, r
    <3>3. (m - 1) \div HashLen = q /\ (m - 1) % HashLen = r
      BY <1>2, <3>1, <3>2, Position
    <3>4. (m - 1) \div HashLen + 1 = index - 1 /\ 1 + ((m - 1) % HashLen) = tmp_offset + k
      BY <3>1, <3>3
    <3>5. Stream!Expected(pw, salt[2], iterations, m)
            = <<Stream!F(pw, salt[2], iterations, index - 1), tmp_offset + k>>
      BY <1>2, <3>2, <3>4, ByteAt
    <3> QED BY <1>2, <3>5 DEF m
  <2>4. [k \in 1 .. len |-> <<tmp, tmp_offset + k>>]
          = Continued(pw, salt[2], iterations, n, len)
    BY <2>3 DEF Continued
  <2>5. out = DerivedKey(pw, salt[2], iterations, n)
    BY <2>2 DEF Pbkdf2Inv, OutputInv
  <2> HIDE DEF n
  <2>6. out' = DerivedKey(pw, salt[2], iterations, n + len)
    <3>1. DerivedKey(pw, salt[2], iterations, n) \o Continued(pw, salt[2], iterations, n, len)
            = DerivedKey(pw, salt[2], iterations, n + len)
      BY <1>3, <2>1, DerivedKeyGrows
    <3> QED BY <1>1, <2>4, <2>5, <3>1
  <2> QED BY <1>1, <2>2, <2>6 DEF OutputInv
<1> QED BY <1>4, <1>5, <1>6 DEF Pbkdf2Inv

LEMMA ReturnStep == ASSUME Pbkdf2Inv, Stream!Return PROVE Pbkdf2Inv'
<1>1. /\ pc = "copying" /\ pc' = "idle"
      /\ UNCHANGED <<state, pw, salt, iterations, index, tmp, tmp_offset, sha, i, dkLen, out>>
  BY DEF Stream!Return, Stream!input, Stream!block
<1>2. NumbersInv' /\ InputInv'
  BY <1>1 DEF Pbkdf2Inv, NumbersInv, InputInv
<1>3. BlockInv'
  BY <1>1 DEF Pbkdf2Inv, BlockInv
<1>4. OutputInv'
  <2>1. Produced' = Produced
    BY <1>1 DEF Produced
  <2> QED BY <1>1, <2>1 DEF Pbkdf2Inv, OutputInv
<1> QED BY <1>2, <1>3, <1>4 DEF Pbkdf2Inv

LEMMA Pbkdf2Stays == ASSUME Pbkdf2Inv, UNCHANGED Stream!vars PROVE Pbkdf2Inv'
BY DEF Pbkdf2Inv, NumbersInv, InputInv, BlockInv, OutputInv, Produced, Stream!vars, Stream!input, Stream!block

LEMMA Pbkdf2Step == ASSUME Stream!SizesFit, Pbkdf2Inv, [Stream!Next]_(Stream!vars) PROVE Pbkdf2Inv'
BY PasswordStep, SaltStep, FinalizeStep, GenerateStep, StartStep, IterateStep, EndStep, CopyStep,
   ReturnStep, Pbkdf2Stays DEF Stream!Next

LEMMA ThenIsDerived == ASSUME Pbkdf2Inv PROVE Stream!OutputIsDerivedKey
BY DEF Pbkdf2Inv, OutputInv, Stream!OutputIsDerivedKey, DerivedKey

(* However password, salt and output are cut into pieces, the output is    *)
(* the derived key.                                                        *)
THEOREM OutputIsDerived == MCSpec => []OutputIsDerivedKey
<1> DEFINE There == which = "Pbkdf2" => Pbkdf2Inv
<1>1. MCInit => There
  BY Pbkdf2Begins, Pbkdf2Assumption DEF MCInit
<1>2. There /\ [MCNext]_mcvars => There'
  <2> SUFFICES ASSUME There, [MCNext]_mcvars, which' = "Pbkdf2" PROVE Pbkdf2Inv'
    OBVIOUS
  <2>1. which' = which
    BY DEF MCNext, StepSha2, StepHmac, StepPbkdf2, StepCipher, StepTables, mcvars
  <2>2. which = "Pbkdf2" /\ Pbkdf2Inv
    BY <2>1
  <2>3. StepPbkdf2 \/ UNCHANGED mcvars
    BY <2>2 DEF MCNext, StepSha2, StepHmac, StepPbkdf2, StepCipher, StepTables
  <2>4. [Stream!Next]_(Stream!vars)
    BY <2>3 DEF StepPbkdf2, mcvars, OnlyPbkdf2, OnlyHmac, OnlySha2, ShaAndMac, vars, Stream!vars, Stream!input, Stream!block
  <2> QED BY <2>2, <2>4, Pbkdf2Step, Pbkdf2Assumption
<1>3. There => OutputIsDerivedKey
  BY ThenIsDerived DEF OutputIsDerivedKey
<1> QED BY <1>1, <1>2, <1>3, PTL DEF MCSpec, mcvars
-------------------------------------------------------------------------------
(* The module about the hash, and the proofs about it. *)
ShaP == INSTANCE Sha2Proofs WITH Pieces <- ShaPieces, MaxBytes <- ShaBytes

LEMMA ShaFits == ShaP!PiecesFit
BY Sha2Assumption DEF Sha!PiecesFit, Sha!SHA256, Sha!SHA256D, Sha!SHA512, ShaP!PiecesFit,
       ShaP!SHA256, ShaP!SHA256D, ShaP!SHA512

LEMMA ShaBegins == ASSUME Sha!Init PROVE ShaP!Sha2Inv
<1>1. ShaP!Init
  BY DEF Sha!Init, Sha!SHA256, Sha!SHA256D, Sha!SHA512, Sha!Zero, ShaP!Init,
       ShaP!SHA256, ShaP!SHA256D, ShaP!SHA512, ShaP!Zero
<1> QED BY <1>1, ShaFits, ShaP!Begins

LEMMA ShaSteps == ASSUME ShaP!Sha2Inv, [Sha!Next]_(Sha!vars) PROVE ShaP!Sha2Inv'
<1>1. CASE Sha!Next
  <2>1. ShaP!Next
    BY <1>1 DEF Sha!Next, Sha!Update, Sha!Fill, Sha!Chunk, Sha!Remainder,
       Sha!Finalize, Sha!AddLength, Sha!Digest, Sha!Again, Sha!Add,
       Sha!Bytes, Sha!BufferFills, Sha!Block, Sha!bufsize, Sha!Copied,
       Sha!Transform, Sha!PadSize, Sha!One, Sha!Zero, Sha!Length,
       Sha!DigestBytes, Sha!LenBytes, ShaP!Next, ShaP!Update, ShaP!Fill,
       ShaP!Chunk, ShaP!Remainder, ShaP!Finalize, ShaP!AddLength,
       ShaP!Digest, ShaP!Again, ShaP!Add, ShaP!Bytes, ShaP!BufferFills,
       ShaP!Block, ShaP!bufsize, ShaP!Copied, ShaP!Transform, ShaP!PadSize,
       ShaP!One, ShaP!Zero, ShaP!Length, ShaP!DigestBytes, ShaP!LenBytes
  <2> QED BY <2>1, ShaFits, ShaP!EveryStep
<1>2. CASE UNCHANGED Sha!vars
  <2>1. UNCHANGED ShaP!vars
    BY <1>2 DEF Sha!vars, ShaP!vars
  <2> QED BY <2>1, ShaFits, ShaP!EveryStep
<1> QED BY <1>1, <1>2

LEMMA ShaShows == ASSUME ShaP!Sha2Inv PROVE Sha!DigestOfMessage
<1>1. ShaP!DigestOfMessage
  BY ShaP!ThenIsPadded
<1> QED BY <1>1 DEF Sha!DigestOfMessage, Sha!Parsed, Sha!Padded, Sha!Bytes,
       Sha!DigestBytes, Sha!Block, Sha!LenBytes, Sha!One, Sha!Zero,
       Sha!Length, ShaP!DigestOfMessage, ShaP!Parsed, ShaP!Padded,
       ShaP!Bytes, ShaP!DigestBytes, ShaP!Block, ShaP!LenBytes, ShaP!One,
       ShaP!Zero, ShaP!Length

(* However a message is cut into pieces, its digest is that of the blocks  *)
(* of the padded message.                                                  *)
THEOREM DigestIsOfMessage == MCSpec => []DigestOfMessage
<1> DEFINE There == which = "Sha2" => ShaP!Sha2Inv
<1>1. MCInit => There
  BY ShaBegins DEF MCInit
<1>2. There /\ [MCNext]_mcvars => There'
  <2> SUFFICES ASSUME There, [MCNext]_mcvars, which' = "Sha2" PROVE ShaP!Sha2Inv'
    OBVIOUS
  <2>1. which' = which
    BY DEF MCNext, StepSha2, StepHmac, StepPbkdf2, StepCipher, StepTables, mcvars
  <2>2. which = "Sha2" /\ ShaP!Sha2Inv
    BY <2>1
  <2>3. StepSha2 \/ UNCHANGED mcvars
    BY <2>2 DEF MCNext, StepSha2, StepHmac, StepPbkdf2, StepCipher, StepTables
  <2>4. [Sha!Next]_(Sha!vars)
    BY <2>3 DEF StepSha2, mcvars, OnlyPbkdf2, OnlyHmac, OnlySha2, ShaAndMac, vars, Sha!vars
  <2> QED BY <2>2, <2>4, ShaSteps
<1>3. There => DigestOfMessage
  BY ShaShows DEF DigestOfMessage
<1> QED BY <1>1, <1>2, <1>3, PTL DEF MCSpec, mcvars
-------------------------------------------------------------------------------
(* Tables: chains of pointers. *)
(* What the pointers from the first one on are when they lead through a    *)
(* sequence of elements and end.                                           *)
Chain(L, first, pointer) ==
  /\ L \in Seq(Elements)
  /\ \A m, n \in 1 .. Len(L) : L[m] = L[n] => m = n
  /\ first = IF Len(L) = 0 THEN NULL ELSE L[1]
  /\ \A n \in 1 .. Len(L) : pointer[L[n]] = IF n = Len(L) THEN NULL ELSE L[n + 1]

(* A sequence without repetitions has no more elements than there are.     *)
LEMMA ChainFits ==
  ASSUME NEW L, NEW first, NEW pointer, Chain(L, first, pointer)
  PROVE  Len(L) \in Nat /\ Len(L) <= Cardinality(Elements) /\ Cardinality(Elements) \in Nat
<1>1. Len(L) \in Nat /\ L \in [1 .. Len(L) -> Elements]
  BY DEF Chain
<1>2. IsFiniteSet(Elements) /\ Cardinality(Elements) \in Nat
  BY TableAssumption, FS_CardinalityType
<1>3. IsFiniteSet(1 .. Len(L)) /\ Cardinality(1 .. Len(L)) = Len(L)
  BY <1>1, Counted
<1>4. L \in Injection(1 .. Len(L), Elements)
  BY <1>1 DEF Chain, Injection, IsInjective
<1> QED BY <1>1, <1>2, <1>3, <1>4, FS_Injection

(* A list is the sequence that the pointers lead through. *)
LEMMA Follows ==
  ASSUME NEW L, NEW first, NEW pointer, Chain(L, first, pointer)
  PROVE  ListFrom(first, pointer) = L
<1> DEFINE N == Cardinality(Elements) + 1
           R(f) == [n \in 1 .. N |->
                      IF n = 1 THEN first
                      ELSE IF f[n - 1] = NULL THEN NULL ELSE pointer[f[n - 1]]]
           node == CHOOSE f : f = R(f)
           walk == [n \in 1 .. N |-> IF n <= Len(L) THEN L[n] ELSE NULL]
<1>1. /\ Len(L) \in Nat /\ N \in Nat /\ Len(L) < N
      /\ \A n \in 1 .. Len(L) : L[n] \in Elements /\ L[n] # NULL
  BY ChainFits, TableAssumption DEF Chain
<1>2. ASSUME NEW n \in 1 .. N PROVE walk[n] = R(walk)[n]
  <2>1. CASE n = 1
    BY <1>1, <2>1 DEF Chain
  <2>2. CASE n # 1 /\ n <= Len(L)
    <3>1. n - 1 \in 1 .. Len(L) /\ n - 1 \in 1 .. N /\ n - 1 # Len(L) /\ (n - 1) + 1 = n
      BY <1>1, <2>2
    <3>2. walk[n - 1] = L[n - 1] /\ walk[n] = L[n]
      BY <3>1, <2>2
    <3>3. pointer[L[n - 1]] = L[n]
      BY <3>1 DEF Chain
    <3> QED BY <1>1, <2>2, <3>1, <3>2, <3>3
  <2>3. CASE n # 1 /\ n = Len(L) + 1
    <3>1. n - 1 \in 1 .. Len(L) /\ n - 1 \in 1 .. N /\ n - 1 = Len(L) /\ ~(n <= Len(L))
      BY <1>1, <2>3
    <3>2. walk[n - 1] = L[n - 1] /\ walk[n] = NULL
      BY <3>1, <2>3
    <3>3. pointer[L[n - 1]] = NULL
      BY <3>1 DEF Chain
    <3> QED BY <1>1, <2>3, <3>1, <3>2, <3>3
  <2>4. CASE n > Len(L) + 1
    <3>1. n - 1 \in 1 .. N /\ ~(n - 1 <= Len(L)) /\ ~(n <= Len(L)) /\ n # 1
      BY <1>1, <2>4
    <3> QED BY <3>1
  <2> QED BY <1>1, <2>1, <2>2, <2>3, <2>4
<1>3. walk = R(walk)
  <2>1. walk = [n \in 1 .. N |-> walk[n]] /\ R(walk) = [n \in 1 .. N |-> R(walk)[n]]
    OBVIOUS
  <2> HIDE DEF walk, R
  <2> QED BY <1>2, <2>1
<1>4. node = R(node)
  <2> HIDE DEF walk, R
  <2> QED BY <1>3
<1>5. \A n \in 0 .. N : n \in 1 .. N => node[n] = walk[n]
  <2> DEFINE S == {n \in 0 .. N : n \in 1 .. N => node[n] = walk[n]}
  <2>1. 0 \in S
    BY <1>1
  <2>2. ASSUME NEW n \in 0 .. N - 1, n \in S PROVE n + 1 \in S
    <3>1. n + 1 \in 1 .. N /\ (n + 1) - 1 = n
      BY <1>1
    <3>2. PICK f : f = node
      OBVIOUS
    <3>3. PICK v : v = walk
      OBVIOUS
    <3>4. f[n + 1] = R(f)[n + 1] /\ v[n + 1] = R(v)[n + 1]
      <4> HIDE DEF R, node, walk
      <4> QED BY <1>4, <3>2, <1>2, <3>1, <3>3
    <3>5. n \in 1 .. N => f[n] = v[n]
      BY <2>2, <3>2, <3>3
    <3> HIDE DEF node, walk
    <3>6. R(f)[n + 1] = R(v)[n + 1]
      <4>1. CASE n = 0
        BY <4>1, <3>1
      <4>2. CASE n # 0
        <5>1. n \in 1 .. N /\ n + 1 # 1
          BY <4>2, <1>1
        <5> QED BY ONLY <5>1, <3>1, <3>5 DEF R
      <4> QED BY <4>1, <4>2
    <3> QED BY <3>1, <3>4, <3>6, <3>2, <3>3
  <2> HIDE DEF S
  <2>3. \A n \in 0 .. N : n \in S
    BY <1>1, <2>1, <2>2, InductTo
  <2> QED BY <2>3 DEF S
<1>6. node = walk
  <2>1. PICK f : f = node
    OBVIOUS
  <2>2. f = R(f) /\ \A n \in 1 .. N : f[n] = walk[n]
    <3> HIDE DEF node, walk, R
    <3>1. \A n \in 1 .. N : n \in 0 .. N
      BY <1>1
    <3> QED BY <1>4, <1>5, <2>1, <3>1
  <2>3. f = [n \in 1 .. N |-> f[n]]
    <3>1. PICK v : v = R(f)
      OBVIOUS
    <3>2. v = [n \in 1 .. N |-> v[n]]
      BY ONLY <3>1 DEF R
    <3> QED BY <2>2, <3>1, <3>2
  <2> HIDE DEF node, R
  <2>4. f = walk
    BY <2>2, <2>3
  <2> QED BY <2>1, <2>4
<1>7. {k \in DOMAIN walk : walk[k] # NULL} = 1 .. Len(L)
  BY <1>1
<1>8. Cardinality(1 .. Len(L)) = Len(L)
  <2>1. Len(L) \in Nat
    BY <1>1
  <2> QED BY ONLY <2>1, Counted
<1>9. L = [n \in 1 .. Len(L) |-> walk[n]]
  BY <1>1 DEF Chain
<1>10. ListFrom(first, pointer)
         = [n \in 1 .. Cardinality({k \in DOMAIN node : node[k] # NULL}) |-> node[n]]
  BY DEF ListFrom
<1> HIDE DEF node, walk
<1>11. ListFrom(first, pointer)
         = [n \in 1 .. Cardinality({k \in DOMAIN walk : walk[k] # NULL}) |-> walk[n]]
  BY ONLY <1>6, <1>10
<1> QED BY ONLY <1>7, <1>8, <1>9, <1>11
-------------------------------------------------------------------------------
(* A sequence with an element in front, and without the n-th one. *)
InFront(e, L)  == [m \in 1 .. Len(L) + 1 |-> IF m = 1 THEN e ELSE L[m - 1]]
Without(L, n) == [m \in 1 .. Len(L) - 1 |-> IF m < n THEN L[m] ELSE L[m + 1]]

LEMMA IsSequence ==
  ASSUME NEW S, NEW k \in Nat, NEW f \in [1 .. k -> S]
  PROVE  f \in Seq(S) /\ Len(f) = k
OBVIOUS

LEMMA InFrontIs ==
  ASSUME NEW S, NEW e \in S, NEW L \in Seq(S)
  PROVE  /\ InFront(e, L) \in Seq(S) /\ Len(InFront(e, L)) = Len(L) + 1
         /\ InFront(e, L)[1] = e
         /\ \A m \in 1 .. Len(L) : InFront(e, L)[m + 1] = L[m]
         /\ \A m \in 2 .. Len(L) + 1 : InFront(e, L)[m] = L[m - 1]
<1>1. Len(L) \in Nat /\ L \in [1 .. Len(L) -> S]
  OBVIOUS
<1>2. \A m \in 2 .. Len(L) + 1 : m - 1 \in 1 .. Len(L)
  BY <1>1
<1>3. InFront(e, L) \in [1 .. Len(L) + 1 -> S]
  BY <1>1, <1>2 DEF InFront
<1>4. InFront(e, L) \in Seq(S) /\ Len(InFront(e, L)) = Len(L) + 1
  <2>1. Len(L) + 1 \in Nat
    BY <1>1
  <2> QED BY ONLY <1>3, <2>1
<1>5. InFront(e, L)[1] = e
  BY <1>1 DEF InFront
<1>6. ASSUME NEW m \in 1 .. Len(L) PROVE InFront(e, L)[m + 1] = L[m]
  <2>1. m + 1 \in 1 .. Len(L) + 1 /\ m + 1 # 1 /\ (m + 1) - 1 = m
    BY <1>1
  <2> QED BY ONLY <2>1 DEF InFront
<1>7. ASSUME NEW m \in 2 .. Len(L) + 1 PROVE InFront(e, L)[m] = L[m - 1]
  <2>1. m \in 1 .. Len(L) + 1 /\ m # 1
    BY <1>1
  <2> QED BY ONLY <2>1 DEF InFront
<1> QED BY <1>4, <1>5, <1>6, <1>7

LEMMA Prefixed ==
  ASSUME NEW S, NEW e \in S, NEW L \in Seq(S) PROVE <<e>> \o L = InFront(e, L)
BY DEF InFront

LEMMA WithoutIs ==
  ASSUME NEW S, NEW L \in Seq(S), NEW n \in 1 .. Len(L)
  PROVE  /\ Without(L, n) \in Seq(S) /\ Len(Without(L, n)) = Len(L) - 1
         /\ \A m \in 1 .. Len(L) - 1 : Without(L, n)[m] = IF m < n THEN L[m] ELSE L[m + 1]
         /\ RemoveAt(L, n) = Without(L, n)
<1>1. Len(L) \in Nat /\ L \in [1 .. Len(L) -> S] /\ Len(L) - 1 \in Nat
  OBVIOUS
<1>2. Without(L, n) \in [1 .. Len(L) - 1 -> S]
  <2>1. \A m \in 1 .. Len(L) - 1 : m \in 1 .. Len(L) /\ m + 1 \in 1 .. Len(L)
    BY <1>1
  <2> QED BY <1>1, <2>1 DEF Without
<1>3. Without(L, n) \in Seq(S) /\ Len(Without(L, n)) = Len(L) - 1
  BY ONLY <1>1, <1>2, IsSequence
<1>4. RemoveAt(L, n) = Without(L, n)
  <2>1. PICK A : A = SubSeq(L, 1, n - 1)
    OBVIOUS
  <2>2. PICK B : B = SubSeq(L, n + 1, Len(L))
    OBVIOUS
  <2>3. A \in Seq(S) /\ Len(A) = n - 1 /\ \A m \in 1 .. n - 1 : A[m] = L[m]
    BY <1>1, <2>1
  <2>4. B \in Seq(S) /\ Len(B) = Len(L) - n /\ \A m \in 1 .. Len(L) - n : B[m] = L[m + n]
    <3>1. /\ n + 1 \in Int /\ Len(L) \in Int /\ \A z \in n + 1 .. Len(L) : L[z] \in S
          /\ Len(L) - (n + 1) + 1 = Len(L) - n
          /\ \A m \in 1 .. Len(L) - n : (n + 1) + m - 1 = m + n
      BY <1>1
    <3>2. /\ B \in Seq(S) /\ Len(B) = IF n + 1 <= Len(L) THEN Len(L) - (n + 1) + 1 ELSE 0
          /\ \A m \in 1 .. Len(L) - (n + 1) + 1 : B[m] = L[(n + 1) + m - 1]
      BY ONLY <3>1, <2>2, SubSeqProperties
    <3>3. Len(B) = Len(L) - n
      <4>1. CASE n + 1 <= Len(L)
        BY <4>1, <3>1, <3>2
      <4>2. CASE ~(n + 1 <= Len(L))
        <5>1. PICK k \in Nat : k = Len(L)
          BY <1>1
        <5>2. n \in 1 .. k /\ ~(n + 1 <= k)
          BY <5>1, <4>2
        <5>3. k - n = 0
          BY ONLY <5>1, <5>2
        <5> QED BY ONLY <4>2, <5>1, <5>3, <3>2
      <4> QED BY <4>1, <4>2
    <3> QED BY <3>1, <3>2, <3>3
  <2>5. A \o B = [m \in 1 .. Len(L) - 1 |-> IF m <= n - 1 THEN A[m] ELSE B[m - (n - 1)]]
    <3>1. (n - 1) + (Len(L) - n) = Len(L) - 1
      BY <1>1
    <3>2. A \o B = [m \in 1 .. Len(A) + Len(B) |-> IF m <= Len(A) THEN A[m] ELSE B[m - Len(A)]]
      <4>1. A \in Seq(S) /\ B \in Seq(S)
        BY <2>3, <2>4
      <4>2. PICK C : C = A \o B
        OBVIOUS
      <4>3. /\ C \in Seq(S) /\ Len(C) = Len(A) + Len(B)
            /\ \A m \in 1 .. Len(A) + Len(B) : C[m] = IF m <= Len(A) THEN A[m] ELSE B[m - Len(A)]
        BY ONLY <4>1, <4>2, ConcatProperties
      <4>4. C = [m \in 1 .. Len(C) |-> C[m]]
        BY ONLY <4>3
      <4> QED BY ONLY <4>2, <4>3, <4>4
    <3>3. Len(A) = n - 1 /\ Len(B) = Len(L) - n
      BY <2>3, <2>4
    <3> QED BY ONLY <3>1, <3>2, <3>3
  <2>6. ASSUME NEW m \in 1 .. Len(L) - 1
        PROVE  (IF m <= n - 1 THEN A[m] ELSE B[m - (n - 1)]) = IF m < n THEN L[m] ELSE L[m + 1]
    <3>1. CASE m < n
      <4>1. m <= n - 1 /\ m \in 1 .. n - 1
        BY <3>1
      <4> QED BY ONLY <3>1, <4>1, <2>3
    <3>2. CASE ~(m < n)
      <4>1. ~(m <= n - 1) /\ m - (n - 1) \in 1 .. Len(L) - n /\ (m - (n - 1)) + n = m + 1
        BY <3>2, <1>1
      <4> QED BY ONLY <3>2, <4>1, <2>4
    <3> QED BY <3>1, <3>2
  <2>7. A \o B = Without(L, n)
    BY ONLY <2>5, <2>6 DEF Without
  <2> QED BY ONLY <2>7, <2>1, <2>2 DEF RemoveAt
<1> QED BY <1>3, <1>4 DEF Without
-------------------------------------------------------------------------------
(* An element that is in no place is put in front. *)
LEMMA AddToChain ==
  ASSUME NEW L, NEW first, NEW pointer \in [Elements -> Elements \cup {NULL}],
         Chain(L, first, pointer), NEW e \in Elements, \A n \in 1 .. Len(L) : L[n] # e
  PROVE  Chain(InFront(e, L), e, [pointer EXCEPT ![e] = first])
<1> DEFINE p == [pointer EXCEPT ![e] = first]
<1>0. PICK G : G = InFront(e, L)
  OBVIOUS
<1>1. L \in Seq(Elements) /\ Len(L) \in Nat
  BY DEF Chain
<1>2. /\ G \in Seq(Elements) /\ Len(G) = Len(L) + 1 /\ G[1] = e
      /\ \A m \in 1 .. Len(L) : G[m + 1] = L[m]
      /\ \A m \in 2 .. Len(L) + 1 : G[m] = L[m - 1]
  <2>1. /\ InFront(e, L) \in Seq(Elements) /\ Len(InFront(e, L)) = Len(L) + 1
        /\ InFront(e, L)[1] = e
    BY ONLY e \in Elements, <1>1, InFrontIs
  <2>2. \A m \in 1 .. Len(L) : InFront(e, L)[m + 1] = L[m]
    BY ONLY e \in Elements, <1>1, InFrontIs
  <2>3. \A m \in 2 .. Len(L) + 1 : InFront(e, L)[m] = L[m - 1]
    BY ONLY e \in Elements, <1>1, InFrontIs
  <2> QED BY ONLY <1>0, <2>1, <2>2, <2>3
<1>3. \A m \in 1 .. Len(G) : m = 1 \/ (m \in 2 .. Len(L) + 1 /\ m - 1 \in 1 .. Len(L))
  BY <1>1, <1>2
<1>4. \A m, n \in 1 .. Len(G) : G[m] = G[n] => m = n
  <2> SUFFICES ASSUME NEW m \in 1 .. Len(G), NEW n \in 1 .. Len(G), G[m] = G[n] PROVE m = n
    OBVIOUS
  <2>1. CASE m = 1 /\ n = 1
    BY <2>1
  <2>2. CASE m = 1 /\ n # 1
    <3>1. G[n] = L[n - 1] /\ G[n] # e
      BY <1>2, <1>3, <2>2
    <3> QED BY <2>2, <3>1, <1>2
  <2>3. CASE m # 1 /\ n = 1
    <3>1. G[m] = L[m - 1] /\ G[m] # e
      BY <1>2, <1>3, <2>3
    <3> QED BY <2>3, <3>1, <1>2
  <2>4. CASE m # 1 /\ n # 1
    <3>1. G[n] = L[n - 1] /\ G[m] = L[m - 1] /\ m - 1 \in 1 .. Len(L) /\ n - 1 \in 1 .. Len(L)
      BY <1>2, <1>3, <2>4
    <3>2. m - 1 = n - 1
      BY <3>1 DEF Chain
    <3> QED BY <3>2
  <2> QED BY <2>1, <2>2, <2>3, <2>4
<1>5. \A n \in 1 .. Len(G) : p[G[n]] = IF n = Len(G) THEN NULL ELSE G[n + 1]
  <2> SUFFICES ASSUME NEW n \in 1 .. Len(G)
               PROVE  p[G[n]] = IF n = Len(G) THEN NULL ELSE G[n + 1]
    OBVIOUS
  <2>1. CASE n = 1
    <3>1. p[G[n]] = first
      BY <2>1, <1>2
    <3>2. CASE Len(L) = 0
      BY <2>1, <3>1, <3>2, <1>2 DEF Chain
    <3>3. CASE Len(L) # 0
      <4>1. 1 \in 1 .. Len(L) /\ n # Len(G)
        BY <3>3, <1>1, <1>2, <2>1
      <4>2. G[n + 1] = L[1] /\ first = L[1]
        BY <2>1, <4>1, <1>2, <3>3 DEF Chain
      <4> QED BY <3>1, <4>1, <4>2
    <3> QED BY <3>2, <3>3
  <2>2. CASE n # 1
    <3>1. n \in 2 .. Len(L) + 1 /\ n - 1 \in 1 .. Len(L)
      BY <1>3, <2>2
    <3>2. G[n] = L[n - 1] /\ L[n - 1] # e /\ L[n - 1] \in Elements
      BY <3>1, <1>1, <1>2
    <3>3. p[G[n]] = pointer[L[n - 1]]
      BY <3>2
    <3>4. pointer[L[n - 1]] = IF n - 1 = Len(L) THEN NULL ELSE L[(n - 1) + 1]
      BY <3>1 DEF Chain
    <3>5. CASE n = Len(G)
      <4>1. n - 1 = Len(L)
        BY <3>5, <1>1, <1>2
      <4> QED BY <3>3, <3>4, <3>5, <4>1
    <3>6. CASE n # Len(G)
      <4>1. n - 1 # Len(L) /\ (n - 1) + 1 = n /\ n \in 1 .. Len(L)
        BY <3>6, <3>1, <1>1, <1>2
      <4> QED BY <3>3, <3>4, <3>6, <4>1, <1>2
    <3> QED BY <3>5, <3>6
  <2> QED BY <2>1, <2>2
<1>6. e = IF Len(G) = 0 THEN NULL ELSE G[1]
  BY <1>1, <1>2
<1> QED BY ONLY <1>0, <1>2, <1>4, <1>5, <1>6 DEF Chain, p

(* What points to other elements does not matter. *)
LEMMA OtherChain ==
  ASSUME NEW L, NEW first, NEW pointer, NEW p, Chain(L, first, pointer),
         \A n \in 1 .. Len(L) : p[L[n]] = pointer[L[n]]
  PROVE  Chain(L, first, p)
BY DEF Chain

(* The first element goes. *)
LEMMA FirstGoes ==
  ASSUME NEW L, NEW first, NEW pointer \in [Elements -> Elements \cup {NULL}],
         Chain(L, first, pointer), Len(L) # 0
  PROVE  Chain(Without(L, 1), pointer[L[1]], [pointer EXCEPT ![L[1]] = NULL])
<1> DEFINE p == [pointer EXCEPT ![L[1]] = NULL]
<1>1. PICK W : W = Without(L, 1)
  OBVIOUS
<1>2. L \in Seq(Elements) /\ Len(L) \in Nat /\ 1 \in 1 .. Len(L)
  <2>1. L \in Seq(Elements) /\ Len(L) \in Nat
    BY DEF Chain
  <2> QED BY <2>1
<1>3. W \in Seq(Elements) /\ Len(W) = Len(L) - 1 /\ \A m \in 1 .. Len(L) - 1 : W[m] = L[m + 1]
  <2>1. /\ W \in Seq(Elements) /\ Len(W) = Len(L) - 1
        /\ \A m \in 1 .. Len(L) - 1 : W[m] = IF m < 1 THEN L[m] ELSE L[m + 1]
    BY <1>1, <1>2, WithoutIs
  <2>2. \A m \in 1 .. Len(L) - 1 : ~(m < 1)
    BY <1>2
  <2> QED BY ONLY <2>1, <2>2
<1>4. \A m \in 1 .. Len(W) : m + 1 \in 1 .. Len(L) /\ m \in 1 .. Len(L) - 1
  BY <1>2, <1>3
<1>5. \A m, n \in 1 .. Len(W) : W[m] = W[n] => m = n
  <2> SUFFICES ASSUME NEW m \in 1 .. Len(W), NEW n \in 1 .. Len(W), W[m] = W[n] PROVE m = n
    OBVIOUS
  <2>1. L[m + 1] = L[n + 1]
    BY <1>3, <1>4
  <2>2. m + 1 = n + 1
    BY <1>4, <2>1 DEF Chain
  <2> QED BY <2>2, <1>3
<1>6. \A n \in 1 .. Len(W) : p[W[n]] = IF n = Len(W) THEN NULL ELSE W[n + 1]
  <2> SUFFICES ASSUME NEW n \in 1 .. Len(W)
               PROVE  p[W[n]] = IF n = Len(W) THEN NULL ELSE W[n + 1]
    OBVIOUS
  <2>1. W[n] = L[n + 1] /\ n + 1 \in 1 .. Len(L) /\ n + 1 # 1
    BY <1>3, <1>4
  <2>2. L[n + 1] # L[1] /\ L[n + 1] \in Elements
    BY <2>1, <1>2 DEF Chain
  <2>3. p[W[n]] = pointer[L[n + 1]]
    BY <2>1, <2>2
  <2>4. pointer[L[n + 1]] = IF n + 1 = Len(L) THEN NULL ELSE L[(n + 1) + 1]
    BY <2>1 DEF Chain
  <2>5. CASE n = Len(W)
    <3>1. n + 1 = Len(L)
      BY <2>5, <1>2, <1>3
    <3> QED BY <2>3, <2>4, <2>5, <3>1
  <2>6. CASE n # Len(W)
    <3>1. n + 1 # Len(L) /\ n + 1 \in 1 .. Len(L) - 1
      BY <2>6, <1>2, <1>3
    <3> QED BY <2>3, <2>4, <2>6, <3>1, <1>3
  <2> QED BY <2>5, <2>6
<1>7. pointer[L[1]] = IF Len(W) = 0 THEN NULL ELSE W[1]
  <2>1. pointer[L[1]] = IF 1 = Len(L) THEN NULL ELSE L[1 + 1]
    BY <1>2 DEF Chain
  <2>2. CASE Len(L) = 1
    BY <2>1, <2>2, <1>3
  <2>3. CASE Len(L) # 1
    <3>1. 1 \in 1 .. Len(L) - 1 /\ Len(W) # 0
      BY <2>3, <1>2, <1>3
    <3> QED BY <2>1, <2>3, <3>1, <1>3
  <2> QED BY <2>2, <2>3
<1> QED BY ONLY <1>1, <1>3, <1>5, <1>6, <1>7 DEF Chain, p

(* Another one goes, and the one before it points behind it. *)
LEMMA LaterGoes ==
  ASSUME NEW L, NEW first, NEW pointer \in [Elements -> Elements \cup {NULL}],
         Chain(L, first, pointer), NEW k \in 2 .. Len(L)
  PROVE  Chain(Without(L, k), first,
               [pointer EXCEPT ![L[k]] = NULL, ![L[k - 1]] = pointer[L[k]]])
<1> DEFINE p == [pointer EXCEPT ![L[k]] = NULL, ![L[k - 1]] = pointer[L[k]]]
<1>1. PICK W : W = Without(L, k)
  OBVIOUS
<1>2. L \in Seq(Elements) /\ Len(L) \in Nat /\ k \in 1 .. Len(L) /\ k - 1 \in 1 .. Len(L)
  BY DEF Chain
<1>3. /\ W \in Seq(Elements) /\ Len(W) = Len(L) - 1
      /\ \A m \in 1 .. Len(L) - 1 : W[m] = IF m < k THEN L[m] ELSE L[m + 1]
  BY <1>1, <1>2, WithoutIs
<1> DEFINE at(m) == IF m < k THEN m ELSE m + 1
<1>4. \A m \in 1 .. Len(W) : /\ at(m) \in 1 .. Len(L) /\ at(m) # k /\ W[m] = L[at(m)]
                             /\ m \in 1 .. Len(L) - 1
  BY <1>2, <1>3
<1>5. \A m, n \in 1 .. Len(W) : W[m] = W[n] => m = n
  <2> SUFFICES ASSUME NEW m \in 1 .. Len(W), NEW n \in 1 .. Len(W), W[m] = W[n] PROVE m = n
    OBVIOUS
  <2>1. L[at(m)] = L[at(n)] /\ at(m) \in 1 .. Len(L) /\ at(n) \in 1 .. Len(L)
    BY <1>4
  <2>2. at(m) = at(n)
    <3> HIDE DEF at
    <3> QED BY <2>1 DEF Chain
  <2>3. m \in Int /\ n \in Int /\ k \in Int
    BY <1>3
  <2> QED BY ONLY <2>2, <2>3 DEF at
<1>6. L[k] # L[k - 1] /\ L[k] \in Elements /\ L[k - 1] \in Elements
  BY <1>2 DEF Chain
<1>7. p[L[k - 1]] = pointer[L[k]] /\ \A x \in Elements : x \notin {L[k], L[k - 1]} => p[x] = pointer[x]
  BY <1>6
<1>8. \A n \in 1 .. Len(W) : p[W[n]] = IF n = Len(W) THEN NULL ELSE W[n + 1]
  <2> SUFFICES ASSUME NEW n \in 1 .. Len(W)
               PROVE  p[W[n]] = IF n = Len(W) THEN NULL ELSE W[n + 1]
    OBVIOUS
  <2> HIDE DEF p
  <2>1. CASE n = k - 1
    <3>1. W[n] = L[k - 1]
      BY <2>1, <1>4
    <3>2. pointer[L[k]] = IF k = Len(L) THEN NULL ELSE L[k + 1]
      BY <1>2 DEF Chain
    <3>3. CASE k = Len(L)
      <4>1. n = Len(W)
        BY <3>3, <2>1, <1>2, <1>3
      <4> QED BY <3>1, <3>2, <3>3, <4>1, <1>7
    <3>4. CASE k # Len(L)
      <4>1. n # Len(W) /\ n + 1 = k /\ k \in 1 .. Len(L) - 1 /\ ~(k < k)
        BY <3>4, <2>1, <1>2, <1>3
      <4>2. W[n + 1] = L[k + 1]
        BY <4>1, <1>3
      <4> QED BY <3>1, <3>2, <3>4, <4>1, <4>2, <1>7
    <3> QED BY <3>3, <3>4
  <2>2. CASE n # k - 1
    <3>1. /\ at(n) \in 1 .. Len(L) /\ at(n) # k /\ at(n) # k - 1 /\ W[n] = L[at(n)]
          /\ n = Len(W) <=> at(n) = Len(L)
      <4>1. at(n) \in 1 .. Len(L) /\ at(n) # k /\ W[n] = L[at(n)]
        BY <1>4
      <4>2. PICK l \in Nat : l = Len(L)
        BY <1>2
      <4>3. n \in 1 .. l - 1 /\ Len(W) = l - 1 /\ k \in 2 .. l
        BY <4>2, <1>3
      <4>4. at(n) # k - 1 /\ (n = l - 1 <=> at(n) = l)
        BY ONLY <4>2, <4>3, <2>2 DEF at
      <4> QED BY ONLY <4>1, <4>2, <4>3, <4>4
    <3>2. L[at(n)] \in Elements /\ L[at(n)] # L[k] /\ L[at(n)] # L[k - 1]
      <4> HIDE DEF at
      <4>1. \A m, o \in 1 .. Len(L) : L[m] \in Elements /\ (L[m] = L[o] => m = o)
        BY DEF Chain
      <4>2. k \in 1 .. Len(L) /\ k - 1 \in 1 .. Len(L)
        BY <1>2
      <4> QED BY ONLY <3>1, <4>1, <4>2
    <3>3. p[W[n]] = pointer[L[at(n)]]
      BY <3>1, <3>2, <1>7
    <3>4. pointer[L[at(n)]] = IF at(n) = Len(L) THEN NULL ELSE L[at(n) + 1]
      <4> HIDE DEF at
      <4> QED BY <3>1 DEF Chain
    <3>5. CASE n = Len(W)
      BY <3>1, <3>3, <3>4, <3>5
    <3>6. CASE n # Len(W)
      <4>1. PICK l \in Nat : l = Len(L)
        BY <1>2
      <4>2. n \in 1 .. l - 1 /\ n # l - 1 /\ k \in 2 .. l /\ Len(W) = l - 1
        BY <4>1, <1>3, <3>6
      <4>3. n + 1 \in 1 .. l - 1 /\ at(n + 1) = at(n) + 1
        BY ONLY <4>1, <4>2, <2>2 DEF at
      <4>4. W[n + 1] = L[at(n + 1)]
        <5>1. n + 1 \in 1 .. Len(W)
          BY <4>2, <4>3
        <5> QED BY ONLY <5>1, <1>4
      <4> HIDE DEF at
      <4> QED BY ONLY <3>1, <3>3, <3>4, <3>6, <4>3, <4>4
    <3> QED BY <3>5, <3>6
  <2> QED BY <2>1, <2>2
<1>9. first = IF Len(W) = 0 THEN NULL ELSE W[1]
  <2>1. 1 \in 1 .. Len(L) - 1 /\ 1 < k /\ Len(L) # 0 /\ Len(W) # 0
    BY <1>2, <1>3
  <2>2. W[1] = L[1]
    BY <2>1, <1>3
  <2> QED BY <2>1, <2>2 DEF Chain
<1> QED BY ONLY <1>1, <1>3, <1>5, <1>8, <1>9 DEF Chain, p
-------------------------------------------------------------------------------
(* The elements with a key, collected element by element. *)
Collecting(f, L, k) ==
  /\ f \in [Nat -> Seq(Elements)]
  /\ f[0] = <<>> /\ OfKey(L, k) = f[Len(L)]
  /\ \A n \in 0 .. Len(L) - 1 :
       f[n + 1] = IF KeyOf[L[n + 1]] = k THEN Append(f[n], L[n + 1]) ELSE f[n]

LEMMA Collects == ASSUME NEW L \in Seq(Elements), NEW k PROVE \E f : Collecting(f, L, k)
<1> DEFINE N == Len(L)
           step == [x \in Nat \X Seq(Elements) |->
                      IF x[1] + 1 \in 1 .. N /\ KeyOf[L[x[1] + 1]] = k
                        THEN Append(x[2], L[x[1] + 1]) ELSE x[2]]
           R(f) == [n \in 0 .. N |->
                      IF n = 0 THEN <<>>
                      ELSE IF KeyOf[L[n]] = k THEN Append(f[n - 1], L[n]) ELSE f[n - 1]]
           front == CHOOSE f : f = R(f)
<1>1. N \in Nat /\ \A n \in 1 .. N : L[n] \in Elements
  OBVIOUS
<1>2. step \in [Nat \X Seq(Elements) -> Seq(Elements)] /\ <<>> \in Seq(Elements)
  BY <1>1
<1>3. PICK f \in [Nat -> Seq(Elements)] : f[0] = <<>> /\ \A n \in Nat : f[n + 1] = step[<<n, f[n]>>]
  <2>1. IsStep(step, Seq(Elements))
    BY <1>2 DEF IsStep
  <2> HIDE DEF step
  <2>2. \E f : Recurses(f, Seq(Elements), <<>>, step)
    BY ONLY <1>2, <2>1, Recursion
  <2> QED BY ONLY <2>2 DEF Recurses
<1>4. ASSUME NEW n \in 0 .. N - 1
      PROVE  f[n + 1] = IF KeyOf[L[n + 1]] = k THEN Append(f[n], L[n + 1]) ELSE f[n]
  <2>1. n \in Nat /\ n + 1 \in 1 .. N /\ f[n] \in Seq(Elements)
    BY <1>1
  <2>2. PICK s \in Seq(Elements) : s = f[n]
    BY <2>1
  <2>3. <<n, s>> \in Nat \X Seq(Elements) /\ <<n, s>>[1] = n /\ <<n, s>>[2] = s
    BY <2>1
  <2>4. step[<<n, s>>] = IF n + 1 \in 1 .. N /\ KeyOf[L[n + 1]] = k THEN Append(s, L[n + 1]) ELSE s
    BY ONLY <2>3 DEF step
  <2>5. f[n + 1] = step[<<n, s>>]
    <3> HIDE DEF step
    <3> QED BY <1>3, <2>1, <2>2
  <2> HIDE DEF step, N
  <2> QED BY <2>1, <2>2, <2>4, <2>5
<1> DEFINE walk == [n \in 0 .. N |-> f[n]]
<1>5. walk = R(walk)
  <2>1. ASSUME NEW n \in 0 .. N PROVE walk[n] = R(walk)[n]
    <3>1. CASE n = 0
      BY <3>1, <1>1, <1>3
    <3>2. CASE n # 0
      <4>1. n - 1 \in 0 .. N - 1 /\ n - 1 \in 0 .. N /\ (n - 1) + 1 = n
        BY <1>1, <3>2
      <4>2. walk[n - 1] = f[n - 1] /\ walk[n] = f[n]
        BY <4>1
      <4>3. f[n] = IF KeyOf[L[n]] = k THEN Append(f[n - 1], L[n]) ELSE f[n - 1]
        BY ONLY <1>4, <4>1
      <4>4. R(walk)[n] = IF KeyOf[L[n]] = k THEN Append(walk[n - 1], L[n]) ELSE walk[n - 1]
        <5> HIDE DEF walk, N
        <5> QED BY <3>2
      <4> QED BY ONLY <4>2, <4>3, <4>4
    <3> QED BY <3>1, <3>2
  <2>2. walk = [n \in 0 .. N |-> walk[n]] /\ R(walk) = [n \in 0 .. N |-> R(walk)[n]]
    OBVIOUS
  <2> HIDE DEF walk, R
  <2> QED BY <2>1, <2>2
<1>6. front = R(front)
  <2> HIDE DEF walk, R
  <2> QED BY <1>5
<1>7. \A n \in 0 .. N : front[n] = f[n]
  <2> DEFINE S == {n \in 0 .. N : front[n] = f[n]}
  <2>1. 0 \in S
    <3>1. PICK g : g = front
      OBVIOUS
    <3>2. g = R(g)
      <4> HIDE DEF front, R
      <4> QED BY <1>6, <3>1
    <3>3. PICK v : v = R(g)
      OBVIOUS
    <3>4. v[0] = <<>>
      BY ONLY <3>3, <1>1 DEF R
    <3> HIDE DEF front, R
    <3> QED BY <3>1, <3>2, <3>3, <3>4, <1>1, <1>3
  <2>2. ASSUME NEW n \in 0 .. N - 1, n \in S PROVE n + 1 \in S
    <3>1. PICK g : g = front
      OBVIOUS
    <3>2. g = R(g)
      <4> HIDE DEF front, R
      <4> QED BY <1>6, <3>1
    <3>3. PICK v : v = R(g)
      OBVIOUS
    <3>4. n + 1 \in 0 .. N /\ n + 1 # 0 /\ (n + 1) - 1 = n
      BY <1>1
    <3>5. v[n + 1] = IF KeyOf[L[n + 1]] = k THEN Append(g[n], L[n + 1]) ELSE g[n]
      BY ONLY <3>3, <3>4 DEF R
    <3>6. g[n] = f[n]
      BY <2>2, <3>1
    <3> HIDE DEF front, R, N
    <3> QED BY <3>1, <3>2, <3>3, <3>4, <3>5, <3>6, <1>4
  <2> HIDE DEF S
  <2>3. \A n \in 0 .. N : n \in S
    BY <1>1, <2>1, <2>2, InductTo
  <2> QED BY <2>3 DEF S
<1>8. OfKey(L, k) = front[N]
  BY DEF OfKey
<1>9. OfKey(L, k) = f[Len(L)]
  <2> HIDE DEF front
  <2> QED BY <1>1, <1>7, <1>8
<1> HIDE DEF N
<1> QED BY <1>3, <1>4, <1>9 DEF Collecting, N

LEMMA AppendIs ==
  ASSUME NEW S, NEW s \in Seq(S), NEW x \in S
  PROVE  /\ Append(s, x) \in Seq(S) /\ Len(Append(s, x)) = Len(s) + 1
         /\ Append(s, x) = [z \in 1 .. Len(s) + 1 |-> IF z = Len(s) + 1 THEN x ELSE s[z]]
<1>1. PICK a : a = Append(s, x)
  OBVIOUS
<1>2. /\ a \in Seq(S) /\ Len(a) = Len(s) + 1 /\ a[Len(s) + 1] = x
      /\ \A z \in 1 .. Len(s) : a[z] = s[z]
  BY ONLY <1>1, s \in Seq(S), x \in S, AppendProperties
<1>3. a = [z \in 1 .. Len(a) |-> a[z]]
  BY ONLY <1>2
<1>4. PICK l \in Nat : l = Len(s)
  OBVIOUS
<1>5. \A z \in 1 .. l + 1 : z = l + 1 \/ z \in 1 .. l
  BY <1>4
<1>6. a = [z \in 1 .. Len(s) + 1 |-> IF z = Len(s) + 1 THEN x ELSE s[z]]
  BY ONLY <1>2, <1>3, <1>4, <1>5
<1> QED BY ONLY <1>1, <1>2, <1>6

(* Appending, and an element in front or one that goes. *)
LEMMA AppendInFront ==
  ASSUME NEW S, NEW s \in Seq(S), NEW x \in S, NEW e \in S
  PROVE  Append(InFront(e, s), x) = InFront(e, Append(s, x))
<1>1. PICK l \in Nat : l = Len(s)
  OBVIOUS
<1>2. PICK a : a = Append(s, x)
  OBVIOUS
<1>3. a = [z \in 1 .. l + 1 |-> IF z = l + 1 THEN x ELSE s[z]] /\ Len(a) = l + 1
  BY <1>1, <1>2, AppendIs
<1>4. InFront(e, s) \in Seq(S) /\ Len(InFront(e, s)) = l + 1
  BY <1>1, InFrontIs
<1>5. PICK f : f = InFront(e, s)
  OBVIOUS
<1>6. f = [z \in 1 .. l + 1 |-> IF z = 1 THEN e ELSE s[z - 1]]
  BY <1>1, <1>5 DEF InFront
<1>7. Append(f, x) = [z \in 1 .. (l + 1) + 1 |-> IF z = (l + 1) + 1 THEN x ELSE f[z]]
  <2>1. f \in Seq(S) /\ Len(f) = l + 1
    BY <1>4, <1>5
  <2> QED BY ONLY <2>1, x \in S, AppendIs
<1>8. InFront(e, a) = [z \in 1 .. (l + 1) + 1 |-> IF z = 1 THEN e ELSE a[z - 1]]
  BY <1>3 DEF InFront
<1>9. ASSUME NEW z \in 1 .. (l + 1) + 1
      PROVE  (IF z = (l + 1) + 1 THEN x ELSE f[z]) = IF z = 1 THEN e ELSE a[z - 1]
  <2>1. CASE z = 1
    <3>1. z # (l + 1) + 1 /\ z \in 1 .. l + 1
      BY <2>1
    <3> QED BY ONLY <2>1, <3>1, <1>6
  <2>2. CASE z = (l + 1) + 1
    <3>1. z # 1 /\ z - 1 = l + 1 /\ z - 1 \in 1 .. l + 1
      BY <2>2
    <3> QED BY ONLY <2>2, <3>1, <1>3
  <2>3. CASE z # 1 /\ z # (l + 1) + 1
    <3>1. z \in 1 .. l + 1 /\ z - 1 \in 1 .. l + 1 /\ z - 1 # l + 1
      BY <2>3
    <3> QED BY ONLY <2>3, <3>1, <1>3, <1>6
  <2> QED BY <2>1, <2>2, <2>3
<1> QED BY ONLY <1>2, <1>5, <1>7, <1>8, <1>9

LEMMA AppendWithout ==
  ASSUME NEW S, NEW s \in Seq(S), NEW x \in S, NEW j \in 1 .. Len(s)
  PROVE  Append(Without(s, j), x) = Without(Append(s, x), j)
<1>1. PICK l \in Nat : l = Len(s)
  OBVIOUS
<1>2. PICK a : a = Append(s, x)
  OBVIOUS
<1>3. a = [z \in 1 .. l + 1 |-> IF z = l + 1 THEN x ELSE s[z]] /\ Len(a) = l + 1
  BY <1>1, <1>2, AppendIs
<1>4. Without(s, j) \in Seq(S) /\ Len(Without(s, j)) = l - 1
  BY <1>1, WithoutIs
<1>5. PICK w : w = Without(s, j)
  OBVIOUS
<1>6. w = [z \in 1 .. l - 1 |-> IF z < j THEN s[z] ELSE s[z + 1]]
  BY <1>1, <1>5 DEF Without
<1>7. Append(w, x) = [z \in 1 .. (l - 1) + 1 |-> IF z = (l - 1) + 1 THEN x ELSE w[z]]
  <2>1. w \in Seq(S) /\ Len(w) = l - 1
    BY <1>4, <1>5
  <2> QED BY ONLY <2>1, x \in S, AppendIs
<1>8. Without(a, j) = [z \in 1 .. (l + 1) - 1 |-> IF z < j THEN a[z] ELSE a[z + 1]]
  BY <1>3 DEF Without
<1>9. j \in 1 .. l /\ (l - 1) + 1 = l /\ (l + 1) - 1 = l
  BY <1>1
<1>10. ASSUME NEW z \in 1 .. l
       PROVE  (IF z = l THEN x ELSE w[z]) = IF z < j THEN a[z] ELSE a[z + 1]
  <2>1. CASE z = l
    <3>1. ~(z < j) /\ z + 1 = l + 1 /\ z + 1 \in 1 .. l + 1
      BY <2>1, <1>9
    <3> QED BY ONLY <2>1, <3>1, <1>3
  <2>2. CASE z # l
    <3>1. z \in 1 .. l - 1 /\ z \in 1 .. l + 1 /\ z + 1 \in 1 .. l + 1 /\ z # l + 1 /\ z + 1 # l + 1
      BY <2>2
    <3> QED BY ONLY <2>2, <3>1, <1>3, <1>6
  <2> QED BY <2>1, <2>2
<1>11. Append(w, x) = [z \in 1 .. l |-> IF z = l THEN x ELSE w[z]]
  BY ONLY <1>7, <1>9
<1>12. Without(a, j) = [z \in 1 .. l |-> IF z < j THEN a[z] ELSE a[z + 1]]
  BY ONLY <1>8, <1>9
<1> QED BY ONLY <1>2, <1>5, <1>10, <1>11, <1>12

LEMMA WithoutLast ==
  ASSUME NEW S, NEW s \in Seq(S), NEW x \in S
  PROVE  /\ Without(Append(s, x), Len(s) + 1) = s
         /\ Append(s, x)[Len(s) + 1] = x
<1>1. PICK l \in Nat : l = Len(s)
  OBVIOUS
<1>2. PICK a : a = Append(s, x)
  OBVIOUS
<1>3. a = [z \in 1 .. l + 1 |-> IF z = l + 1 THEN x ELSE s[z]] /\ Len(a) = l + 1
  BY <1>1, <1>2, AppendIs
<1>4. s = [z \in 1 .. l |-> s[z]]
  BY <1>1
<1>5. Without(a, l + 1) = [z \in 1 .. (l + 1) - 1 |-> IF z < l + 1 THEN a[z] ELSE a[z + 1]]
  BY <1>3 DEF Without
<1>6. \A z \in 1 .. l : z < l + 1 /\ z \in 1 .. l + 1 /\ z # l + 1
  OBVIOUS
<1>7. (l + 1) - 1 = l /\ l + 1 \in 1 .. l + 1
  OBVIOUS
<1>8. Without(a, l + 1) = s /\ a[l + 1] = x
  BY ONLY <1>3, <1>4, <1>5, <1>6, <1>7
<1> QED BY ONLY <1>1, <1>2, <1>8
-------------------------------------------------------------------------------
(* The collected elements are elements of the list with the key, and there *)
(* is one when the list has one.                                           *)
LEMMA OfKeyIs ==
  ASSUME NEW L \in Seq(Elements), NEW k
  PROVE  /\ OfKey(L, k) \in Seq(Elements)
         /\ \A z \in 1 .. Len(OfKey(L, k)) : KeyOf[OfKey(L, k)[z]] = k /\ OfKey(L, k)[z] \in Range(L)
         /\ \A n \in 1 .. Len(L) : KeyOf[L[n]] = k => Len(OfKey(L, k)) > 0
<1>1. PICK f : /\ f \in [Nat -> Seq(Elements)]
               /\ f[0] = <<>> /\ OfKey(L, k) = f[Len(L)]
               /\ \A n \in 0 .. Len(L) - 1 :
                    f[n + 1] = IF KeyOf[L[n + 1]] = k THEN Append(f[n], L[n + 1]) ELSE f[n]
  <2>1. \E f : Collecting(f, L, k)
    BY Collects
  <2> QED BY <2>1 DEF Collecting
<1>2. PICK N \in Nat : N = Len(L)
  OBVIOUS
<1> DEFINE S == {n \in 0 .. N :
                   /\ \A z \in 1 .. Len(f[n]) : KeyOf[f[n][z]] = k /\ f[n][z] \in Range(L)
                   /\ \A m \in 1 .. n : KeyOf[L[m]] = k => Len(f[n]) > 0}
<1>3. 0 \in S
  BY <1>1
<1>4. ASSUME NEW n \in 0 .. N - 1, n \in S PROVE n + 1 \in S
  <2>1. PICK x : x = L[n + 1]
    OBVIOUS
  <2>2. PICK s \in Seq(Elements) : s = f[n]
    BY <1>1
  <2>3. PICK t \in Seq(Elements) : t = f[n + 1]
    <3>1. n + 1 \in Nat
      OBVIOUS
    <3> QED BY ONLY <1>1, <3>1
  <2>4. t = IF KeyOf[x] = k THEN Append(s, x) ELSE s
    BY <1>1, <1>2, <2>1, <2>2, <2>3
  <2>5. x \in Elements /\ x \in Range(L)
    <3>1. n + 1 \in 1 .. Len(L) /\ DOMAIN L = 1 .. Len(L)
      BY <1>2
    <3>2. x \in Range(L)
      BY ONLY <2>1, <3>1 DEF Range
    <3> QED BY <2>1, <3>1, <3>2
  <2>6. /\ \A z \in 1 .. Len(s) : KeyOf[s[z]] = k /\ s[z] \in Range(L)
        /\ \A m \in 1 .. n : KeyOf[L[m]] = k => Len(s) > 0
    BY <1>4, <2>2
  <2>7. \A m \in 1 .. n + 1 : m \in 1 .. n \/ m = n + 1
    OBVIOUS
  <2>8. /\ \A z \in 1 .. Len(t) : KeyOf[t[z]] = k /\ t[z] \in Range(L)
        /\ \A m \in 1 .. n + 1 : KeyOf[L[m]] = k => Len(t) > 0
    <3>1. CASE KeyOf[x] = k
      <4>1. Len(t) = Len(s) + 1 /\ t = [z \in 1 .. Len(s) + 1 |-> IF z = Len(s) + 1 THEN x ELSE s[z]]
        BY <3>1, <2>4, <2>5, AppendIs
      <4>2. PICK l \in Nat : l = Len(s)
        OBVIOUS
      <4>3. \A z \in 1 .. l + 1 : z = l + 1 \/ z \in 1 .. l
        OBVIOUS
      <4>4. \A z \in 1 .. l + 1 : KeyOf[t[z]] = k /\ t[z] \in Range(L)
        BY ONLY <4>1, <4>2, <4>3, <3>1, <2>5, <2>6
      <4> QED BY ONLY <4>1, <4>2, <4>4
    <3>2. CASE KeyOf[x] # k
      BY ONLY <3>2, <2>4, <2>6, <2>7, <2>1
    <3> QED BY <3>1, <3>2
  <2>9. n + 1 \in 0 .. N
    OBVIOUS
  <2> QED BY ONLY <2>3, <2>8, <2>9 DEF S
<1>5. N \in S
  <2> HIDE DEF S
  <2>1. \A n \in 0 .. N : n \in S
    BY ONLY N \in Nat, <1>3, <1>4, InductTo
  <2> QED BY <2>1
<1> QED BY ONLY <1>1, <1>2, <1>5 DEF S

LEMMA NoneOfKey == ASSUME NEW k PROVE OfKey(<<>>, k) = <<>>
<1>1. <<>> \in Seq(Elements) /\ Len(<<>>) = 0
  OBVIOUS
<1>2. \E f : Collecting(f, <<>>, k)
  BY <1>1, Collects
<1> QED BY ONLY <1>1, <1>2 DEF Collecting

(* An element in front is collected in front. *)
LEMMA OfKeyInFront ==
  ASSUME NEW L \in Seq(Elements), NEW e \in Elements, NEW k
  PROVE  OfKey(InFront(e, L), k) = IF KeyOf[e] = k THEN InFront(e, OfKey(L, k)) ELSE OfKey(L, k)
<1>0. PICK M : M = InFront(e, L)
  OBVIOUS
<1>1. PICK f : /\ f \in [Nat -> Seq(Elements)]
               /\ f[0] = <<>> /\ OfKey(L, k) = f[Len(L)]
               /\ \A n \in 0 .. Len(L) - 1 :
                    f[n + 1] = IF KeyOf[L[n + 1]] = k THEN Append(f[n], L[n + 1]) ELSE f[n]
  <2>1. \E f : Collecting(f, L, k)
    BY Collects
  <2> QED BY <2>1 DEF Collecting
<1>2. PICK N \in Nat : N = Len(L)
  OBVIOUS
<1>3. M \in Seq(Elements) /\ Len(M) = N + 1 /\ M[1] = e
  <2>1. /\ InFront(e, L) \in Seq(Elements) /\ Len(InFront(e, L)) = Len(L) + 1
        /\ InFront(e, L)[1] = e
    BY ONLY L \in Seq(Elements), e \in Elements, InFrontIs
  <2> QED BY ONLY <1>0, <1>2, <2>1
<1>4. \A n \in 1 .. N : M[n + 1] = L[n]
  <2>1. \A n \in 1 .. Len(L) : InFront(e, L)[n + 1] = L[n]
    BY ONLY L \in Seq(Elements), e \in Elements, InFrontIs
  <2> QED BY ONLY <1>0, <1>2, <2>1
<1>5. PICK g : /\ g \in [Nat -> Seq(Elements)]
               /\ g[0] = <<>> /\ OfKey(M, k) = g[Len(M)]
               /\ \A n \in 0 .. Len(M) - 1 :
                    g[n + 1] = IF KeyOf[M[n + 1]] = k THEN Append(g[n], M[n + 1]) ELSE g[n]
  <2>1. \E g : Collecting(g, M, k)
    BY <1>3, Collects
  <2> QED BY <2>1 DEF Collecting
<1> DEFINE S == {n \in 0 .. N : g[n + 1] = IF KeyOf[e] = k THEN InFront(e, f[n]) ELSE f[n]}
<1>6. 0 \in S
  <2>1. g[0 + 1] = IF KeyOf[M[0 + 1]] = k THEN Append(g[0], M[0 + 1]) ELSE g[0]
    <3>1. 0 \in 0 .. Len(M) - 1
      BY <1>3
    <3> QED BY <1>5, <3>1
  <2>2. M[0 + 1] = e /\ 0 \in 0 .. N
    BY <1>3
  <2>3. InFront(e, <<>>) = Append(<<>>, e)
    BY DEF InFront
  <2> QED BY ONLY <2>1, <2>2, <2>3, <1>1, <1>5 DEF S
<1>7. ASSUME NEW n \in 0 .. N - 1, n \in S PROVE n + 1 \in S
  <2>1. n + 1 \in 0 .. Len(M) - 1 /\ n + 1 \in 1 .. N /\ n + 1 \in 0 .. N /\ n \in 0 .. Len(L) - 1
    BY <1>2, <1>3
  <2>2. PICK x \in Elements : x = L[n + 1] /\ x = M[(n + 1) + 1]
    <3>1. L[n + 1] = M[(n + 1) + 1]
      BY ONLY <1>4, <2>1
    <3>2. L[n + 1] \in Elements
      BY <1>2, <2>1
    <3> QED BY ONLY <3>1, <3>2
  <2>3. g[(n + 1) + 1] = IF KeyOf[x] = k THEN Append(g[n + 1], x) ELSE g[n + 1]
    BY ONLY <1>5, <2>1, <2>2
  <2>4. f[n + 1] = IF KeyOf[x] = k THEN Append(f[n], x) ELSE f[n]
    BY ONLY <1>1, <2>1, <2>2
  <2>5. PICK s \in Seq(Elements) : s = f[n]
    BY <1>1
  <2>6. g[n + 1] = IF KeyOf[e] = k THEN InFront(e, s) ELSE s
    BY <1>7, <2>5
  <2>7. Append(InFront(e, s), x) = InFront(e, Append(s, x))
    BY AppendInFront
  <2>8. g[(n + 1) + 1] = IF KeyOf[e] = k THEN InFront(e, f[n + 1]) ELSE f[n + 1]
    BY ONLY <2>3, <2>4, <2>5, <2>6, <2>7
  <2> QED BY ONLY <2>1, <2>8 DEF S
<1>8. N \in S
  <2> HIDE DEF S
  <2>1. \A n \in 0 .. N : n \in S
    BY ONLY N \in Nat, <1>6, <1>7, InductTo
  <2> QED BY <2>1
<1> QED BY ONLY <1>0, <1>1, <1>2, <1>3, <1>5, <1>8 DEF S

(* An element that goes is collected no more. *)
LEMMA OfKeyWithout ==
  ASSUME NEW L \in Seq(Elements), NEW p \in 1 .. Len(L), NEW k
  PROVE  IF KeyOf[L[p]] = k
           THEN \E j \in 1 .. Len(OfKey(L, k)) :
                  OfKey(L, k)[j] = L[p] /\ OfKey(Without(L, p), k) = Without(OfKey(L, k), j)
           ELSE OfKey(Without(L, p), k) = OfKey(L, k)
<1>0. PICK M : M = Without(L, p)
  OBVIOUS
<1>1. PICK f : /\ f \in [Nat -> Seq(Elements)]
               /\ f[0] = <<>> /\ OfKey(L, k) = f[Len(L)]
               /\ \A n \in 0 .. Len(L) - 1 :
                    f[n + 1] = IF KeyOf[L[n + 1]] = k THEN Append(f[n], L[n + 1]) ELSE f[n]
  <2>1. \E f : Collecting(f, L, k)
    BY Collects
  <2> QED BY <2>1 DEF Collecting
<1>2. PICK N \in Nat : N = Len(L)
  OBVIOUS
<1>3. M \in Seq(Elements) /\ Len(M) = N - 1 /\ p \in 1 .. N
  BY <1>0, <1>2, WithoutIs
<1>4. \A n \in 1 .. N - 1 : M[n] = IF n < p THEN L[n] ELSE L[n + 1]
  BY <1>0, <1>2, WithoutIs
<1>5. PICK g : /\ g \in [Nat -> Seq(Elements)]
               /\ g[0] = <<>> /\ OfKey(M, k) = g[Len(M)]
               /\ \A n \in 0 .. Len(M) - 1 :
                    g[n + 1] = IF KeyOf[M[n + 1]] = k THEN Append(g[n], M[n + 1]) ELSE g[n]
  <2>1. \E g : Collecting(g, M, k)
    BY <1>3, Collects
  <2> QED BY <2>1 DEF Collecting
<1>6. PICK q \in Nat : q = p - 1
  BY <1>3
<1>7. g[q] = f[q]
  <2> DEFINE S == {n \in 0 .. q : g[n] = f[n]}
  <2>1. 0 \in S
    BY ONLY <1>1, <1>5, q \in Nat DEF S
  <2>2. ASSUME NEW n \in 0 .. q - 1, n \in S PROVE n + 1 \in S
    <3>1. /\ n + 1 \in 0 .. q /\ n + 1 \in 1 .. N - 1 /\ n + 1 < p
          /\ n \in 0 .. Len(L) - 1 /\ n \in 0 .. Len(M) - 1
      <4>1. n \in 0 .. q - 1 /\ q = p - 1 /\ p \in 1 .. N /\ N \in Nat /\ q \in Nat
        BY <1>3, <1>6
      <4>2. Len(M) = N - 1 /\ Len(L) = N
        BY <1>2, <1>3
      <4> QED BY ONLY <4>1, <4>2
    <3>2. PICK x : x = L[n + 1] /\ x = M[n + 1]
      BY <1>4, <3>1
    <3>3. g[n + 1] = IF KeyOf[x] = k THEN Append(g[n], x) ELSE g[n]
      BY ONLY <1>5, <3>1, <3>2
    <3>4. f[n + 1] = IF KeyOf[x] = k THEN Append(f[n], x) ELSE f[n]
      BY ONLY <1>1, <3>1, <3>2
    <3>5. g[n] = f[n]
      BY <2>2
    <3> QED BY ONLY <3>1, <3>3, <3>4, <3>5 DEF S
  <2> HIDE DEF S
  <2>3. \A n \in 0 .. q : n \in S
    BY ONLY q \in Nat, <2>1, <2>2, InductTo
  <2> QED BY <2>3 DEF S
<1>8. PICK e \in Elements : e = L[p]
  <2>1. L[p] \in Elements
    OBVIOUS
  <2> QED BY ONLY <2>1
<1>9. f[p] = IF KeyOf[e] = k THEN Append(f[q], e) ELSE f[q]
  <2>1. q \in 0 .. Len(L) - 1 /\ q + 1 = p
    BY <1>2, <1>3, <1>6
  <2> QED BY ONLY <1>1, <1>8, <2>1
<1>10. PICK j \in Nat : j = Len(f[q]) + 1
  <2>1. PICK x \in Seq(Elements) : x = f[q]
    BY <1>1
  <2>2. Len(x) + 1 \in Nat
    BY <2>1
  <2> QED BY ONLY <2>1, <2>2
<1> DEFINE Goes(s, t) == IF KeyOf[e] = k THEN j \in 1 .. Len(s) /\ s[j] = e /\ t = Without(s, j)
                                       ELSE t = s
           S == {n \in 0 .. N - p : Goes(f[p + n], g[q + n])}
<1>11. 0 \in S
  <2>1. PICK s \in Seq(Elements) : s = f[q]
    BY <1>1
  <2>2. j = Len(s) + 1 /\ Without(Append(s, e), Len(s) + 1) = s /\ Append(s, e)[Len(s) + 1] = e
        /\ Len(Append(s, e)) = Len(s) + 1
    BY <1>10, <2>1, WithoutLast, AppendIs
  <2>3. p + 0 = p /\ q + 0 = q /\ 0 \in 0 .. N - p /\ j \in 1 .. j
    BY <1>3, <1>10
  <2> QED BY ONLY <1>7, <1>9, <2>1, <2>2, <2>3 DEF S, Goes
<1>12. ASSUME NEW n \in 0 .. (N - p) - 1, n \in S PROVE n + 1 \in S
  <2>1. /\ p + n \in 0 .. Len(L) - 1 /\ (p + n) + 1 = p + (n + 1) /\ q + n \in 0 .. Len(M) - 1
        /\ (q + n) + 1 = q + (n + 1) /\ (q + n) + 1 = p + n /\ ~(p + n < p) /\ p + n \in 1 .. N - 1
        /\ n + 1 \in 0 .. N - p /\ (p + n) + 1 \in 1 .. Len(L) /\ p + n \in Nat /\ q + n \in Nat
    BY <1>2, <1>3, <1>6
  <2>2. PICK x \in Elements : x = L[(p + n) + 1] /\ x = M[(q + n) + 1]
    <3>1. L[(p + n) + 1] = M[(q + n) + 1]
      <4>1. PICK z \in 1 .. N - 1 : z = p + n
        BY <2>1
      <4>2. (q + n) + 1 = z /\ ~(z < p)
        BY ONLY <2>1, <4>1
      <4>3. M[z] = L[z + 1]
        BY ONLY <1>4, <4>1, <4>2
      <4> QED BY ONLY <4>1, <4>2, <4>3
    <3>2. L[(p + n) + 1] \in Elements
      <4>1. PICK z \in 1 .. Len(L) : z = (p + n) + 1
        BY <2>1
      <4> QED BY <4>1
    <3> QED BY ONLY <3>1, <3>2
  <2>3. g[q + (n + 1)] = IF KeyOf[x] = k THEN Append(g[q + n], x) ELSE g[q + n]
    BY ONLY <1>5, <2>1, <2>2
  <2>4. f[p + (n + 1)] = IF KeyOf[x] = k THEN Append(f[p + n], x) ELSE f[p + n]
    BY ONLY <1>1, <2>1, <2>2
  <2>5. PICK s \in Seq(Elements) : s = f[p + n]
    BY <1>1, <2>1
  <2>6. PICK t \in Seq(Elements) : t = g[q + n]
    BY <1>5, <2>1
  <2>7. Goes(s, t)
    BY <1>12, <2>5, <2>6
  <2>8. Goes(Append(s, x), Append(t, x))
    <3>1. CASE KeyOf[e] = k
      <4>1. j \in 1 .. Len(s) /\ s[j] = e /\ t = Without(s, j)
        BY <2>7, <3>1
      <4>2. Append(t, x) = Without(Append(s, x), j)
        BY ONLY <4>1, x \in Elements, s \in Seq(Elements), AppendWithout
      <4>3. /\ Len(Append(s, x)) = Len(s) + 1
            /\ Append(s, x) = [z \in 1 .. Len(s) + 1 |-> IF z = Len(s) + 1 THEN x ELSE s[z]]
        BY AppendIs
      <4>4. j \in 1 .. Len(s) + 1 /\ j # Len(s) + 1
        <5>1. Len(s) \in Nat
          OBVIOUS
        <5> QED BY ONLY <4>1, <5>1
      <4> QED BY ONLY <3>1, <4>1, <4>2, <4>3, <4>4 DEF Goes
    <3>2. CASE KeyOf[e] # k
      BY <2>7, <3>2
    <3> QED BY <3>1, <3>2
  <2>9. Goes(f[p + (n + 1)], g[q + (n + 1)])
    <3> HIDE DEF Goes
    <3> QED BY ONLY <2>3, <2>4, <2>5, <2>6, <2>7, <2>8
  <2> QED BY ONLY <2>1, <2>9 DEF S
<1>13. N - p \in S
  <2> HIDE DEF S
  <2>1. N - p \in Nat
    BY <1>3
  <2>2. \A n \in 0 .. N - p : n \in S
    BY ONLY <2>1, <1>11, <1>12, InductTo
  <2> QED BY <2>1, <2>2
<1>14. Goes(f[Len(L)], g[Len(M)])
  <2>1. p + (N - p) = Len(L) /\ q + (N - p) = Len(M)
    BY <1>2, <1>3, <1>6
  <2> HIDE DEF Goes
  <2> QED BY <1>13, <2>1 DEF S
<1>15. Goes(OfKey(L, k), OfKey(M, k))
  <2> HIDE DEF Goes
  <2> QED BY ONLY <1>1, <1>5, <1>14
<1>16. CASE KeyOf[L[p]] = k
  BY ONLY <1>0, <1>8, <1>10, <1>15, <1>16 DEF Goes
<1>17. CASE KeyOf[L[p]] # k
  BY ONLY <1>0, <1>8, <1>15, <1>17 DEF Goes
<1> QED BY <1>16, <1>17
-------------------------------------------------------------------------------
(* The invariant: the pointers of each bucket lead through a list that     *)
(* ends, of elements that belong there, as many as are counted.            *)
Types ==
  /\ unique \in BOOLEAN /\ owned \in BOOLEAN
  /\ next \in [Elements -> Elements \cup {NULL}]
  /\ head \in [Buckets -> Elements \cup {NULL}]
  /\ count \in [Buckets -> Int]

ListsInv ==
  \A b \in Buckets :
    /\ Chain(List(b), head[b], next) /\ count[b] = Len(List(b))
    /\ \A n \in 1 .. Len(List(b)) : Bucket[KeyOf[List(b)[n]]] = b

LEMMA ListIs ==
  ASSUME ListsInv, NEW b \in Buckets
  PROVE  /\ List(b) \in Seq(Elements) /\ Len(List(b)) \in Nat
         /\ \A n \in 1 .. Len(List(b)) : List(b)[n] \in Elements /\ Bucket[KeyOf[List(b)[n]]] = b
BY DEF ListsInv, Chain

LEMMA BucketIs == ASSUME NEW e \in Elements PROVE KeyOf[e] \in Keys /\ Bucket[KeyOf[e]] \in Buckets
BY TableAssumption DEF Buckets

LEMMA MembersAre ==
  ASSUME ListsInv
  PROVE  /\ Members \subseteq Elements
         /\ \A e : e \in Members <=> \E b \in Buckets : \E n \in 1 .. Len(List(b)) : e = List(b)[n]
<1>1. ASSUME NEW b \in Buckets
      PROVE  \A e : e \in Range(List(b)) <=> \E n \in 1 .. Len(List(b)) : e = List(b)[n]
  <2>1. DOMAIN List(b) = 1 .. Len(List(b))
    BY ListIs
  <2> QED BY ONLY <2>1 DEF Range
<1>2. \A e : e \in Members <=> \E b \in Buckets : e \in Range(List(b))
  BY DEF Members
<1>3. \A e : e \in Members <=> \E b \in Buckets : \E n \in 1 .. Len(List(b)) : e = List(b)[n]
  BY ONLY <1>1, <1>2
<1>4. ASSUME NEW e \in Members PROVE e \in Elements
  <2>1. PICK b \in Buckets : \E n \in 1 .. Len(List(b)) : e = List(b)[n]
    BY <1>3
  <2> QED BY <2>1, ListIs
<1> QED BY <1>3, <1>4

(* Pointers as the lists have them after a step give those lists. *)
LEMMA ListsBecome ==
  ASSUME NEW lists,
         \A b \in Buckets : /\ Chain(lists[b], head'[b], next') /\ count'[b] = Len(lists[b])
                            /\ \A n \in 1 .. Len(lists[b]) : Bucket[KeyOf[lists[b][n]]] = b
  PROVE  ListsInv' /\ \A b \in Buckets : List(b)' = lists[b]
<1>1. ASSUME NEW b \in Buckets PROVE List(b)' = lists[b]
  <2>1. List(b)' = ListFrom(head'[b], next')
    BY DEF List
  <2> QED BY <2>1, Follows
<1>2. Buckets' = Buckets
  BY DEF Buckets
<1> QED BY <1>1, <1>2 DEF ListsInv

LEMMA TablesBegin ==
  ASSUME TableInit PROVE Types /\ ListsInv /\ \A b \in Buckets : List(b) = <<>>
<1>1. Types
  BY DEF TableInit, Types
<1>2. ASSUME NEW b \in Buckets PROVE Chain(<<>>, head[b], next) /\ List(b) = <<>> /\ count[b] = 0
  <2>1. head[b] = NULL /\ count[b] = 0
    BY DEF TableInit
  <2>2. Chain(<<>>, head[b], next)
    BY <2>1 DEF Chain
  <2>3. List(b) = <<>>
    BY <2>2, Follows DEF List
  <2> QED BY <2>1, <2>2, <2>3
<1> QED BY <1>1, <1>2 DEF ListsInv

(* An element that may be added is in no list. *)
LEMMA AddedIsNew ==
  ASSUME ListsInv, NEW e \in Elements, Add(e)
  PROVE  \A b \in Buckets : \A n \in 1 .. Len(List(b)) : List(b)[n] # e
<1> SUFFICES ASSUME NEW b \in Buckets, NEW n \in 1 .. Len(List(b)), List(b)[n] = e PROVE FALSE
  OBVIOUS
<1>1. e \in Members
  BY MembersAre
<1>2. unique /\ ~Found(KeyOf[e])
  BY <1>1 DEF Add
<1>3. Bucket[KeyOf[e]] = b
  BY ListIs
<1>4. OfKey(List(b), KeyOf[e]) = <<>>
  BY <1>2, <1>3 DEF Found, WithKey
<1>5. Len(OfKey(List(b), KeyOf[e])) > 0
  BY ListIs, OfKeyIs
<1> QED BY <1>4, <1>5

(* An addition puts the element in front of the list of its bucket. *)
LEMMA AddLists ==
  ASSUME Types, ListsInv, NEW e \in Elements, Add(e)
  PROVE  /\ Types' /\ ListsInv'
         /\ List(Bucket[KeyOf[e]])' = InFront(e, List(Bucket[KeyOf[e]]))
         /\ \A c \in Buckets : c # Bucket[KeyOf[e]] => List(c)' = List(c)
<1>0. PICK b \in Buckets : b = Bucket[KeyOf[e]]
  BY BucketIs
<1>1. /\ next' = [next EXCEPT ![e] = head[b]] /\ head' = [head EXCEPT ![b] = e]
      /\ count' = [count EXCEPT ![b] = @ + 1] /\ UNCHANGED <<unique, owned>>
  BY <1>0 DEF Add
<1>2. Types'
  BY <1>1 DEF Types
<1> DEFINE lists == [c \in Buckets |-> IF c = b THEN InFront(e, List(b)) ELSE List(c)]
<1>3. \A c \in Buckets : \A n \in 1 .. Len(List(c)) : List(c)[n] # e
  BY AddedIsNew
<1>4. ASSUME NEW c \in Buckets
      PROVE  /\ Chain(lists[c], head'[c], next') /\ count'[c] = Len(lists[c])
             /\ \A n \in 1 .. Len(lists[c]) : Bucket[KeyOf[lists[c][n]]] = c
  <2>1. /\ Chain(List(c), head[c], next) /\ count[c] = Len(List(c)) /\ List(c) \in Seq(Elements)
        /\ \A n \in 1 .. Len(List(c)) : List(c)[n] \in Elements /\ Bucket[KeyOf[List(c)[n]]] = c
    BY ListIs DEF ListsInv
  <2>2. CASE c = b
    <3>1. PICK L : L = List(c)
      OBVIOUS
    <3>2. L \in Seq(Elements) /\ Chain(L, head[b], next) /\ \A n \in 1 .. Len(L) : L[n] # e
      BY <2>1, <2>2, <3>1, <1>3
    <3>3. next \in [Elements -> Elements \cup {NULL}]
      BY DEF Types
    <3>4. Chain(InFront(e, L), e, [next EXCEPT ![e] = head[b]])
      BY ONLY <3>2, <3>3, e \in Elements, AddToChain
    <3>5. head'[b] = e /\ count'[b] = count[b] + 1
      BY <1>1 DEF Types
    <3>6. Len(InFront(e, L)) = Len(L) + 1 /\ InFront(e, L)[1] = e
      BY ONLY <3>2, e \in Elements, InFrontIs
    <3>7. \A n \in 2 .. Len(L) + 1 : InFront(e, L)[n] = L[n - 1]
      BY ONLY <3>2, e \in Elements, InFrontIs
    <3>8. \A n \in 1 .. Len(L) + 1 : n = 1 \/ (n \in 2 .. Len(L) + 1 /\ n - 1 \in 1 .. Len(L))
      BY <3>2
    <3>9. \A n \in 1 .. Len(L) + 1 : Bucket[KeyOf[InFront(e, L)[n]]] = b
      <4>1. \A n \in 1 .. Len(L) : Bucket[KeyOf[L[n]]] = b
        BY ONLY <2>1, <2>2, <3>1
      <4> QED BY ONLY <3>6, <3>7, <3>8, <1>0, <4>1
    <3>10. lists[c] = InFront(e, L)
      BY <2>2, <3>1
    <3> QED BY ONLY <3>1, <3>4, <3>5, <3>6, <3>9, <3>10, <2>1, <2>2, <1>1
  <2>3. CASE c # b
    <3>1. lists[c] = List(c) /\ head'[c] = head[c] /\ count'[c] = count[c]
      BY <2>3, <1>1 DEF Types
    <3>2. \A n \in 1 .. Len(List(c)) : next'[List(c)[n]] = next[List(c)[n]]
      BY <1>1, <1>3, <2>1 DEF Types
    <3>3. Chain(List(c), head[c], next')
      BY ONLY <2>1, <3>2, OtherChain
    <3> QED BY ONLY <2>1, <3>1, <3>3
  <2> QED BY <2>2, <2>3
<1>5. ListsInv' /\ \A c \in Buckets : List(c)' = lists[c]
  <2> HIDE DEF lists
  <2> QED BY ONLY <1>4, ListsBecome
<1>6. \A c \in Buckets : lists[c] = IF c = b THEN InFront(e, List(b)) ELSE List(c)
  OBVIOUS
<1> HIDE DEF lists
<1> QED BY ONLY <1>0, <1>2, <1>5, <1>6

(* The pointer to the n-th element of a bucket. *)
Pointer(b, n) == IF n = 1 THEN HeadOf(b) ELSE NextOf(List(b)[n - 1])

LEMMA PointsTo ==
  ASSUME ListsInv, NEW b \in Buckets, NEW n \in 1 .. Len(List(b))
  PROVE  Deref(Pointer(b, n)) = List(b)[n]
<1>1. Chain(List(b), head[b], next) /\ Len(List(b)) \in Nat
  BY ListIs DEF ListsInv
<1>2. CASE n = 1
  <2>1. Deref(Pointer(b, n)) = head[b]
    BY <1>2 DEF Deref, Pointer, HeadOf
  <2> QED BY <1>1, <1>2, <2>1 DEF Chain
<1>3. CASE n # 1
  <2>1. Deref(Pointer(b, n)) = next[List(b)[n - 1]]
    BY <1>3 DEF Deref, Pointer, NextOf
  <2>2. n - 1 \in 1 .. Len(List(b)) /\ n - 1 # Len(List(b)) /\ (n - 1) + 1 = n
    BY <1>1, <1>3
  <2>3. next[List(b)[n - 1]] = List(b)[(n - 1) + 1]
    BY <1>1, <2>2 DEF Chain
  <2> QED BY ONLY <2>1, <2>2, <2>3
<1> QED BY <1>2, <1>3

(* Elements of two buckets, and two of one bucket, are different. *)
LEMMA Apart ==
  ASSUME ListsInv, NEW b \in Buckets, NEW m \in 1 .. Len(List(b)),
         NEW c \in Buckets, NEW n \in 1 .. Len(List(c)), List(b)[m] = List(c)[n]
  PROVE  b = c /\ m = n
<1>1. b = c
  BY ListIs
<1>2. Chain(List(b), head[b], next)
  BY DEF ListsInv
<1> QED BY <1>1, <1>2 DEF Chain

(* What is unlinked through the pointer to it leaves the list of its       *)
(* bucket, and nothing else changes.                                       *)
LEMMA UnlinkLists ==
  ASSUME Types, ListsInv, NEW b \in Buckets, NEW k \in 1 .. Len(List(b)), Unlink(Pointer(b, k))
  PROVE  /\ Types' /\ ListsInv'
         /\ List(b)' = Without(List(b), k)
         /\ \A c \in Buckets : c # b => List(c)' = List(c)
         /\ UNCHANGED <<unique, owned>>
<1>0. PICK L : L = List(b)
  OBVIOUS
<1>1. PICK e \in Elements : e = L[k] /\ Bucket[KeyOf[e]] = b /\ Deref(Pointer(b, k)) = e
  BY <1>0, ListIs, PointsTo
<1>2. /\ L \in Seq(Elements) /\ Len(L) \in Nat /\ k \in 1 .. Len(L)
      /\ Chain(L, head[b], next) /\ count[b] = Len(L)
      /\ \A n \in 1 .. Len(L) : L[n] \in Elements /\ Bucket[KeyOf[L[n]]] = b
  BY <1>0, ListIs DEF ListsInv
<1>3. /\ count' = [count EXCEPT ![b] = count[b] - 1] /\ UNCHANGED <<unique, owned>>
  BY <1>1 DEF Unlink, CountWithout
<1>4. next \in [Elements -> Elements \cup {NULL}] /\ next[e] \in Elements \cup {NULL}
  BY DEF Types
<1> DEFINE Goes == /\ Types' /\ Chain(Without(L, k), head'[b], next')
                   /\ \A c \in Buckets : c # b => head'[c] = head[c]
                   /\ \A x \in Elements : (\A n \in 1 .. Len(L) : x # L[n]) => next'[x] = next[x]
<1>5. ASSUME k = 1 PROVE Goes
  <2>1. next' = [next EXCEPT ![e] = NULL] /\ head' = [head EXCEPT ![b] = next[e]]
    BY <1>1, <1>5 DEF Unlink, Pointer, HeadOf
  <2>2. Types'
    BY <1>3, <1>4, <2>1 DEF Types
  <2>3. head'[b] = next[e] /\ \A c \in Buckets : c # b => head'[c] = head[c]
    BY <2>1 DEF Types
  <2>4. Chain(Without(L, 1), next[L[1]], [next EXCEPT ![L[1]] = NULL])
    <3>1. Len(L) # 0
      BY <1>2
    <3> QED BY ONLY <1>2, <1>4, <3>1, FirstGoes
  <2>5. Chain(Without(L, k), head'[b], next')
    BY ONLY <1>1, <1>5, <2>1, <2>3, <2>4
  <2>6. \A x \in Elements : x # e => next'[x] = next[x]
    BY <2>1, <1>4
  <2> QED BY ONLY <1>1, <1>2, <2>2, <2>3, <2>5, <2>6 DEF Goes
<1>6. ASSUME k # 1 PROVE Goes
  <2>1. k \in 2 .. Len(L) /\ k - 1 \in 1 .. Len(L)
    BY <1>2, <1>6
  <2>2. PICK d \in Elements : d = L[k - 1]
    BY <1>2, <2>1
  <2>3. /\ next' = [next EXCEPT ![e] = NULL, ![d] = next[e]]
        /\ head' = head
    <3>1. Pointer(b, k) = <<"next", d>>
      BY <1>0, <1>6, <2>2 DEF Pointer, NextOf
    <3>2. <<"next", d>>[1] = "next" /\ <<"next", d>>[2] = d /\ "next" # "head"
      OBVIOUS
    <3> QED BY <1>1, <3>1, <3>2 DEF Unlink
  <2>4. Types'
    BY <1>3, <1>4, <2>3 DEF Types
  <2>5. Chain(Without(L, k), head[b], [next EXCEPT ![L[k]] = NULL, ![L[k - 1]] = next[L[k]]])
    BY ONLY <1>2, <1>4, <2>1, LaterGoes
  <2>6. Chain(Without(L, k), head'[b], next')
    BY ONLY <1>1, <2>2, <2>3, <2>5
  <2>7. \A x \in Elements : x # e /\ x # d => next'[x] = next[x]
    BY <2>3, <1>4
  <2> QED BY ONLY <1>1, <1>2, <2>1, <2>2, <2>3, <2>4, <2>6, <2>7 DEF Goes
<1>7. Goes
  <2> HIDE DEF Goes
  <2> QED BY <1>5, <1>6
<1> DEFINE lists == [c \in Buckets |-> IF c = b THEN Without(L, k) ELSE List(c)]
<1>8. ASSUME NEW c \in Buckets
      PROVE  /\ Chain(lists[c], head'[c], next') /\ count'[c] = Len(lists[c])
             /\ \A n \in 1 .. Len(lists[c]) : Bucket[KeyOf[lists[c][n]]] = c
  <2>1. CASE c = b
    <3>1. PICK W : W = Without(L, k)
      OBVIOUS
    <3>2. /\ Len(W) = Len(L) - 1
          /\ \A n \in 1 .. Len(L) - 1 : W[n] = IF n < k THEN L[n] ELSE L[n + 1]
      <4>1. L \in Seq(Elements) /\ k \in 1 .. Len(L)
        BY <1>2
      <4>2. Len(Without(L, k)) = Len(L) - 1
        BY ONLY <4>1, WithoutIs
      <4>3. \A n \in 1 .. Len(L) - 1 : Without(L, k)[n] = IF n < k THEN L[n] ELSE L[n + 1]
        BY ONLY <4>1, WithoutIs
      <4> QED BY ONLY <3>1, <4>2, <4>3
    <3>3. \A n \in 1 .. Len(L) - 1 : n \in 1 .. Len(L) /\ n + 1 \in 1 .. Len(L)
      BY <1>2
    <3>4. ASSUME NEW n \in 1 .. Len(W) PROVE Bucket[KeyOf[W[n]]] = b
      <4>1. \A m \in 1 .. Len(L) : Bucket[KeyOf[L[m]]] = b
        BY <1>2
      <4>2. PICK m \in 1 .. Len(L) : W[n] = L[m]
        BY ONLY n \in 1 .. Len(W), <3>2, <3>3
      <4> QED BY ONLY <4>1, <4>2
    <3>5. count'[c] = Len(L) - 1 /\ lists[c] = W
      BY <1>2, <1>3, <2>1, <3>1 DEF Types
    <3> QED BY ONLY <1>7, <2>1, <3>1, <3>2, <3>4, <3>5 DEF Goes
  <2>2. CASE c # b
    <3>1. /\ Chain(List(c), head[c], next) /\ count[c] = Len(List(c))
          /\ \A n \in 1 .. Len(List(c)) : List(c)[n] \in Elements /\ Bucket[KeyOf[List(c)[n]]] = c
      BY ListIs DEF ListsInv
    <3>2. lists[c] = List(c) /\ count'[c] = count[c]
      BY <1>3, <2>2 DEF Types
    <3>3. \A n \in 1 .. Len(List(c)) : next'[List(c)[n]] = next[List(c)[n]]
      BY ONLY <1>2, <1>7, <2>2, <3>1 DEF Goes
    <3>4. Chain(List(c), head[c], next')
      BY ONLY <3>1, <3>3, OtherChain
    <3> QED BY ONLY <1>7, <2>2, <3>1, <3>2, <3>4 DEF Goes
  <2> QED BY <2>1, <2>2
<1>9. ListsInv' /\ \A c \in Buckets : List(c)' = lists[c]
  <2> HIDE DEF lists
  <2> QED BY ONLY <1>8, ListsBecome
<1>10. \A c \in Buckets : lists[c] = IF c = b THEN Without(L, k) ELSE List(c)
  OBVIOUS
<1> HIDE DEF lists
<1> QED BY ONLY <1>0, <1>3, <1>7, <1>9, <1>10 DEF Goes

(* An empty table has empty lists. *)
LEMMA EmptyLists ==
  ASSUME Types, ListsInv, Empty
  PROVE  Types' /\ ListsInv' /\ \A b \in Buckets : List(b)' = <<>>
<1>1. /\ head' = [b \in Buckets |-> NULL] /\ count' = [b \in Buckets |-> 0]
      /\ UNCHANGED <<unique, owned>>
  BY DEF Empty
<1>2. next' \in [Elements -> Elements \cup {NULL}]
  BY DEF Empty, Types
<1>3. Types'
  BY <1>1, <1>2 DEF Types
<1> DEFINE lists == [b \in Buckets |-> <<>>]
<1>4. ASSUME NEW b \in Buckets
      PROVE  /\ Chain(lists[b], head'[b], next') /\ count'[b] = Len(lists[b])
             /\ \A n \in 1 .. Len(lists[b]) : Bucket[KeyOf[lists[b][n]]] = b
  <2>1. lists[b] = <<>> /\ head'[b] = NULL /\ count'[b] = 0
    BY <1>1
  <2> HIDE DEF lists
  <2> QED BY <2>1 DEF Chain
<1>5. ListsInv' /\ \A b \in Buckets : List(b)' = lists[b]
  <2> HIDE DEF lists
  <2> QED BY ONLY <1>4, ListsBecome
<1> QED BY <1>3, <1>5

LEMMA SameLists ==
  ASSUME Types, ListsInv, UNCHANGED table
  PROVE  Types' /\ ListsInv' /\ \A b \in Buckets : List(b)' = List(b)
BY DEF Types, ListsInv, List, table, Buckets
-------------------------------------------------------------------------------
(* What an iteration that stands before the n-th element of a bucket has   *)
(* still to visit.                                                         *)
Ahead(b, n) == {e \in Elements :
                  \/ \E m \in 1 .. Len(List(b)) : m >= n /\ e = List(b)[m]
                  \/ \E c \in Buckets : c > b /\ \E m \in 1 .. Len(List(c)) : e = List(c)[m]}

(* It has visited the others of those that were there, and each once.      *)
Divides(set) == /\ IsInjective(visited)
                /\ Range(visited) \cap set = {} /\ Range(visited) \cup set = before

Standing == \E b \in Buckets : \E n \in 1 .. Len(List(b)) + 1 :
               eltp = Pointer(b, n) /\ Divides(Ahead(b, n))

VisitInv ==
  /\ visited \in Seq(Elements)
  /\ eltp = Idle \/ (eltp = End /\ Divides({})) \/ (Iterating /\ Standing)

TableInv == Types /\ ListsInv /\ VisitInv

(* One more is visited. *)
LEMMA VisitOne ==
  ASSUME NEW v \in Seq(Elements), NEW e \in Elements, NEW A, NEW B, NEW all,
         IsInjective(v), Range(v) \cap A = {}, Range(v) \cup A = all,
         e \in A, B = A \ {e}
  PROVE  LET w == Append(v, e) IN
         /\ w \in Seq(Elements) /\ IsInjective(w)
         /\ Range(w) \cap B = {} /\ Range(w) \cup B = all
<1> DEFINE w == Append(v, e)
<1>1. PICK l \in Nat : l = Len(v)
  OBVIOUS
<1>2. w \in Seq(Elements) /\ Len(w) = l + 1 /\ w = [z \in 1 .. l + 1 |-> IF z = l + 1 THEN e ELSE v[z]]
  BY ONLY <1>1, v \in Seq(Elements), e \in Elements, AppendIs
<1> HIDE DEF w
<1>3. DOMAIN v = 1 .. l /\ DOMAIN w = 1 .. l + 1
  BY <1>1, <1>2
<1>4. /\ w[l + 1] = e /\ \A z \in 1 .. l : w[z] = v[z] /\ z \in 1 .. l + 1 /\ z # l + 1
      /\ \A z \in 1 .. l + 1 : z = l + 1 \/ z \in 1 .. l
      /\ l + 1 \in 1 .. l + 1
  BY <1>2
<1>5. Range(w) = Range(v) \cup {e}
  BY ONLY <1>3, <1>4 DEF Range
<1>6. \A z \in 1 .. l : v[z] # e
  BY <1>3 DEF Range
<1>7. \A z, j \in 1 .. l : v[z] = v[j] => z = j
  BY <1>3 DEF IsInjective
<1>8. IsInjective(w)
  BY ONLY <1>3, <1>4, <1>6, <1>7 DEF IsInjective
<1>9. Range(w) \cap B = {} /\ Range(w) \cup B = all
  BY ONLY <1>5, e \in A, B = A \ {e}, Range(v) \cap A = {}, Range(v) \cup A = all
<1> QED BY <1>2, <1>8, <1>9 DEF w

(* Where an iteration stands when it points to an element, or to none. *)
LEMMA PointsToNone ==
  ASSUME ListsInv, NEW b \in Buckets, NEW n \in 1 .. Len(List(b)) + 1
  PROVE  Deref(Pointer(b, n)) = NULL <=> n = Len(List(b)) + 1
<1>1. Chain(List(b), head[b], next) /\ Len(List(b)) \in Nat
  BY ListIs DEF ListsInv
<1>2. CASE n \in 1 .. Len(List(b))
  <2>1. Deref(Pointer(b, n)) \in Elements /\ n # Len(List(b)) + 1
    BY <1>1, <1>2, PointsTo, ListIs
  <2> QED BY <2>1, TableAssumption
<1>3. CASE n = Len(List(b)) + 1
  <2>1. CASE n = 1
    <3>1. Deref(Pointer(b, n)) = head[b] /\ Len(List(b)) = 0
      BY <1>1, <1>3, <2>1 DEF Deref, Pointer, HeadOf
    <3> QED BY <1>1, <1>3, <3>1 DEF Chain
  <2>2. CASE n # 1
    <3>1. Deref(Pointer(b, n)) = next[List(b)[n - 1]]
      BY <2>2 DEF Deref, Pointer, NextOf
    <3>2. n - 1 \in 1 .. Len(List(b)) /\ n - 1 = Len(List(b))
      BY <1>1, <1>3, <2>2
    <3>3. next[List(b)[n - 1]] = NULL
      BY <1>1, <3>2 DEF Chain
    <3> QED BY <1>3, <3>1, <3>3
  <2> QED BY <2>1, <2>2
<1> QED BY <1>1, <1>2, <1>3

LEMMA BucketOfPointer ==
  ASSUME ListsInv, NEW b \in Buckets, NEW n \in 1 .. Len(List(b)) + 1
  PROVE  /\ (IF Pointer(b, n)[1] = "head" THEN Pointer(b, n)[2]
                                          ELSE Bucket[KeyOf[Pointer(b, n)[2]]]) = b
         /\ Pointer(b, n) \notin {Idle, End}
<1>1. CASE n = 1
  BY <1>1 DEF Pointer, HeadOf, Idle, End
<1>2. CASE n # 1
  <2>1. n - 1 \in 1 .. Len(List(b))
    BY <1>2, ListIs
  <2>2. Bucket[KeyOf[List(b)[n - 1]]] = b
    BY <2>1, ListIs
  <2>3. PICK e : e = List(b)[n - 1]
    OBVIOUS
  <2>4. Pointer(b, n) = <<"next", e>>
    BY <1>2, <2>3 DEF Pointer, NextOf
  <2>5. /\ <<"next", e>>[1] = "next" /\ <<"next", e>>[2] = e /\ "next" # "head"
        /\ <<"next", e>> \notin {<<"idle">>, <<"end">>}
    OBVIOUS
  <2> QED BY ONLY <2>2, <2>3, <2>4, <2>5 DEF Idle, End
<1> QED BY <1>1, <1>2

(* Past an element, the others are ahead. *)
LEMMA AheadOfNext ==
  ASSUME ListsInv, NEW b \in Buckets, NEW n \in 1 .. Len(List(b))
  PROVE  List(b)[n] \in Ahead(b, n) /\ Ahead(b, n + 1) = Ahead(b, n) \ {List(b)[n]}
<1>0. Len(List(b)) \in Nat /\ List(b)[n] \in Elements
  BY ListIs
<1>1. List(b)[n] \in Ahead(b, n)
  BY <1>0 DEF Ahead
<1>2. ASSUME NEW x \in Ahead(b, n + 1) PROVE x \in Ahead(b, n) /\ x # List(b)[n]
  <2>1. CASE \E m \in 1 .. Len(List(b)) : m >= n + 1 /\ x = List(b)[m]
    <3>1. PICK m \in 1 .. Len(List(b)) : m >= n + 1 /\ x = List(b)[m]
      BY <2>1
    <3>2. m >= n /\ m # n
      BY <3>1, <1>0
    <3>3. x # List(b)[n]
      BY <3>1, <3>2, Apart
    <3> QED BY <3>1, <3>2, <3>3 DEF Ahead
  <2>2. CASE \E c \in Buckets : c > b /\ \E m \in 1 .. Len(List(c)) : x = List(c)[m]
    <3>1. PICK c \in Buckets : c > b /\ \E m \in 1 .. Len(List(c)) : x = List(c)[m]
      BY <2>2
    <3>2. PICK m \in 1 .. Len(List(c)) : x = List(c)[m]
      BY <3>1
    <3>3. c # b
      BY <3>1 DEF Buckets
    <3>4. x # List(b)[n]
      BY <3>2, <3>3, Apart
    <3> QED BY <2>2, <3>4 DEF Ahead
  <2> QED BY <2>1, <2>2 DEF Ahead
<1>3. ASSUME NEW x \in Ahead(b, n), x # List(b)[n] PROVE x \in Ahead(b, n + 1)
  <2>1. CASE \E m \in 1 .. Len(List(b)) : m >= n /\ x = List(b)[m]
    <3>1. PICK m \in 1 .. Len(List(b)) : m >= n /\ x = List(b)[m]
      BY <2>1
    <3>2. m # n
      BY <3>1, <1>3
    <3>3. m >= n + 1
      BY <3>1, <3>2
    <3> QED BY <3>1, <3>3 DEF Ahead
  <2>2. CASE \E c \in Buckets : c > b /\ \E m \in 1 .. Len(List(c)) : x = List(c)[m]
    BY <2>2 DEF Ahead
  <2> QED BY <2>1, <2>2 DEF Ahead
<1> QED BY <1>1, <1>2, <1>3

(* Behind the last element, the next bucket is ahead, or nothing. *)
LEMMA AheadOfEnd ==
  ASSUME ListsInv, NEW b \in Buckets
  PROVE  /\ b = NoBuckets => Ahead(b, Len(List(b)) + 1) = {}
         /\ b # NoBuckets => b + 1 \in Buckets /\ Ahead(b, Len(List(b)) + 1) = Ahead(b + 1, 1)
<1>1. Len(List(b)) \in Nat /\ NoBuckets \in Nat
  BY ListIs, TableAssumption
<1>2. \A m \in 1 .. Len(List(b)) : ~(m >= Len(List(b)) + 1)
  BY <1>1
<1>3. ASSUME b = NoBuckets PROVE Ahead(b, Len(List(b)) + 1) = {}
  <2>1. \A c \in Buckets : ~(c > b)
    BY <1>3, <1>1 DEF Buckets
  <2> QED BY <1>2, <2>1 DEF Ahead
<1>4. ASSUME b # NoBuckets PROVE b + 1 \in Buckets /\ Ahead(b, Len(List(b)) + 1) = Ahead(b + 1, 1)
  <2>1. b + 1 \in Buckets /\ \A c \in Buckets : c > b <=> (c = b + 1 \/ c > b + 1)
    BY <1>4, <1>1 DEF Buckets
  <2>2. \A m \in 1 .. Len(List(b + 1)) : m >= 1
    BY <2>1, ListIs
  <2>3. \A x : x \in Ahead(b, Len(List(b)) + 1)
                <=> x \in Elements /\ \E c \in Buckets : c > b /\ \E m \in 1 .. Len(List(c)) : x = List(c)[m]
    BY <1>2 DEF Ahead
  <2>4. \A x : x \in Ahead(b + 1, 1)
                <=> /\ x \in Elements
                    /\ \/ \E m \in 1 .. Len(List(b + 1)) : x = List(b + 1)[m]
                       \/ \E c \in Buckets : c > b + 1 /\ \E m \in 1 .. Len(List(c)) : x = List(c)[m]
    BY <2>2 DEF Ahead
  <2>5. \A x : x \in Ahead(b, Len(List(b)) + 1) <=> x \in Ahead(b + 1, 1)
    BY ONLY <2>1, <2>3, <2>4
  <2> QED BY <2>1, <2>5
<1> QED BY <1>3, <1>4

(* While nobody iterates, what the last iteration has left stays.          *)
LEMMA VisitStays ==
  ASSUME VisitInv, ~Iterating, UNCHANGED iteration
  PROVE  VisitInv'
BY DEF VisitInv, Iterating, iteration, Divides

(* The n-th element of a bucket is being visited. *)
VisitedAt(b, n) ==
  /\ eltp = Pointer(b, n) /\ Deref(eltp) = List(b)[n]
  /\ visited' \in Seq(Elements) /\ IsInjective(visited')
  /\ Range(visited') \cap (Ahead(b, n) \ {List(b)[n]}) = {}
  /\ Range(visited') \cup (Ahead(b, n) \ {List(b)[n]}) = before

(* A visit, from where the iteration stands. *)
LEMMA VisitFrom ==
  ASSUME TableInv, Visits
  PROVE  \E b \in Buckets : \E n \in 1 .. Len(List(b)) : VisitedAt(b, n)
<1>1. Iterating /\ Deref(eltp) # NULL /\ visited' = Append(visited, Deref(eltp))
  BY DEF Visits
<1>2. ListsInv /\ visited \in Seq(Elements) /\ Standing
  BY <1>1 DEF TableInv, VisitInv, Iterating
<1>x. PICK b \in Buckets : \E n \in 1 .. Len(List(b)) + 1 :
        eltp = Pointer(b, n) /\ Divides(Ahead(b, n))
  BY <1>2 DEF Standing
<1>3. PICK n \in 1 .. Len(List(b)) + 1 : eltp = Pointer(b, n) /\ Divides(Ahead(b, n))
  BY <1>x
<1>4. n \in 1 .. Len(List(b))
  <2>1. n # Len(List(b)) + 1
    BY <1>1, <1>2, <1>3, PointsToNone
  <2> QED BY <1>2, <2>1, ListIs
<1>5. PICK e \in Elements : e = List(b)[n] /\ Deref(eltp) = e
  BY <1>2, <1>3, <1>4, PointsTo, ListIs
<1>6. e \in Ahead(b, n)
  BY <1>2, <1>4, <1>5, AheadOfNext
<1>7. /\ Append(visited, e) \in Seq(Elements) /\ IsInjective(Append(visited, e))
      /\ Range(Append(visited, e)) \cap (Ahead(b, n) \ {e}) = {}
      /\ Range(Append(visited, e)) \cup (Ahead(b, n) \ {e}) = before
  <2>1. PICK A : A = Ahead(b, n)
    OBVIOUS
  <2>2. PICK B : B = A \ {e}
    OBVIOUS
  <2>3. IsInjective(visited) /\ Range(visited) \cap A = {} /\ Range(visited) \cup A = before
    BY <1>3, <2>1 DEF Divides
  <2>4. e \in A /\ visited \in Seq(Elements)
    BY <1>2, <1>6, <2>1
  <2>5. /\ Append(visited, e) \in Seq(Elements) /\ IsInjective(Append(visited, e))
        /\ Range(Append(visited, e)) \cap B = {}
        /\ Range(Append(visited, e)) \cup B = before
    BY ONLY <2>2, <2>3, <2>4, e \in Elements, VisitOne
  <2> QED BY ONLY <2>1, <2>2, <2>5
<1> QED BY ONLY <1>1, <1>3, <1>4, <1>5, <1>7 DEF VisitedAt

LEMMA KeepStep == ASSUME TableInv, Keep PROVE TableInv'
<1>0. PICK b \in Buckets : \E n \in 1 .. Len(List(b)) : VisitedAt(b, n)
  BY VisitFrom DEF Keep
<1>1. PICK n \in 1 .. Len(List(b)) :
         /\ eltp = Pointer(b, n) /\ Deref(eltp) = List(b)[n]
         /\ visited' \in Seq(Elements) /\ IsInjective(visited')
         /\ Range(visited') \cap (Ahead(b, n) \ {List(b)[n]}) = {}
         /\ Range(visited') \cup (Ahead(b, n) \ {List(b)[n]}) = before
  BY <1>0 DEF VisitedAt
<1>2. /\ eltp' = NextOf(Deref(eltp)) /\ before' = before /\ UNCHANGED table
  BY DEF Keep
<1>3. Types' /\ ListsInv' /\ ListsInv /\ \A c \in Buckets : List(c)' = List(c)
  BY <1>2, SameLists DEF TableInv
<1>4. n + 1 \in 1 .. Len(List(b)') + 1 /\ Buckets' = Buckets
  BY <1>3, ListIs DEF Buckets
<1>5. eltp' = Pointer(b, n + 1)'
  <2>1. n + 1 # 1 /\ (n + 1) - 1 = n
    BY <1>4
  <2>2. Pointer(b, n + 1)' = NextOf((List(b)')[n])
    BY ONLY <2>1 DEF Pointer, NextOf
  <2> QED BY <1>1, <1>2, <1>3, <2>2 DEF NextOf
<1>6. Ahead(b, n + 1)' = Ahead(b, n + 1) /\ Ahead(b, n + 1) = Ahead(b, n) \ {List(b)[n]}
  <2>1. Ahead(b, n + 1)' = Ahead(b, n + 1)
    BY <1>3, <1>4 DEF Ahead
  <2> QED BY <1>3, <2>1, AheadOfNext
<1>7. Divides(Ahead(b, n + 1))'
  BY ONLY <1>1, <1>2, <1>6 DEF Divides
<1>8. (eltp \notin {Idle, End})'
  <2>1. (Pointer(b, n + 1) \notin {Idle, End})'
    <3>1. PICK e : e = (List(b)')[n]
      OBVIOUS
    <3>2. eltp' = <<"next", e>>
      BY <1>1, <1>2, <1>3, <3>1 DEF NextOf
    <3>3. <<"next", e>> \notin {<<"idle">>, <<"end">>}
      OBVIOUS
    <3> QED BY ONLY <1>5, <3>2, <3>3 DEF Idle, End
  <2> QED BY <1>5, <2>1
<1>9. Standing'
  BY ONLY <1>4, <1>5, <1>7 DEF Standing
<1>10. VisitInv'
  BY ONLY <1>1, <1>8, <1>9 DEF VisitInv, Iterating
<1> QED BY <1>3, <1>10 DEF TableInv

LEMMA RemoveVisitedStep ==
  ASSUME TableInv, RemoveVisited PROVE TableInv'
<1>0. PICK b \in Buckets : \E n \in 1 .. Len(List(b)) : VisitedAt(b, n)
  BY VisitFrom DEF RemoveVisited
<1>1. PICK n \in 1 .. Len(List(b)) :
         /\ eltp = Pointer(b, n) /\ Deref(eltp) = List(b)[n]
         /\ visited' \in Seq(Elements) /\ IsInjective(visited')
         /\ Range(visited') \cap (Ahead(b, n) \ {List(b)[n]}) = {}
         /\ Range(visited') \cup (Ahead(b, n) \ {List(b)[n]}) = before
  BY <1>0 DEF VisitedAt
<1>2. Unlink(Pointer(b, n)) /\ eltp' = eltp /\ before' = before /\ Iterating
  BY <1>1 DEF RemoveVisited, AfterRemoval, Visits
<1>3. Types /\ ListsInv
  BY DEF TableInv
<1>4. /\ Types' /\ ListsInv' /\ List(b)' = Without(List(b), n)
      /\ \A c \in Buckets : c # b => List(c)' = List(c)
  BY <1>2, <1>3, UnlinkLists
<1>5. List(b) \in Seq(Elements) /\ Len(List(b)) \in Nat
  BY <1>3, ListIs
<1>6. /\ Len(List(b)') = Len(List(b)) - 1
      /\ \A m \in 1 .. Len(List(b)) - 1 : (List(b)')[m] = IF m < n THEN List(b)[m] ELSE List(b)[m + 1]
  <2>1. Len(Without(List(b), n)) = Len(List(b)) - 1
    BY ONLY <1>1, <1>5, WithoutIs
  <2>2. \A m \in 1 .. Len(List(b)) - 1 :
          Without(List(b), n)[m] = IF m < n THEN List(b)[m] ELSE List(b)[m + 1]
    BY ONLY <1>1, <1>5, WithoutIs
  <2> QED BY ONLY <1>4, <2>1, <2>2
<1>7. n \in 1 .. Len(List(b)') + 1 /\ Buckets' = Buckets
  BY <1>5, <1>6 DEF Buckets
<1>8. Pointer(b, n)' = Pointer(b, n)
  <2>1. CASE n = 1
    BY <2>1 DEF Pointer, HeadOf
  <2>2. CASE n # 1
    <3>1. n - 1 \in 1 .. Len(List(b)) - 1 /\ n - 1 < n
      BY <2>2, <1>5
    <3>2. (List(b)')[n - 1] = List(b)[n - 1]
      BY ONLY <1>6, <3>1
    <3> QED BY ONLY <2>2, <3>2 DEF Pointer, NextOf
  <2> QED BY <2>1, <2>2
<1>9. Ahead(b, n)' = Ahead(b, n) \ {List(b)[n]}
  <2>1. Ahead(b, n + 1) = Ahead(b, n) \ {List(b)[n]}
    BY <1>3, AheadOfNext
  <2>2. ASSUME NEW x
        PROVE  (\E m \in 1 .. Len(List(b)) - 1 : m >= n /\ x = (List(b)')[m])
                 <=> \E m \in 1 .. Len(List(b)) : m >= n + 1 /\ x = List(b)[m]
    <3>1. ASSUME NEW m \in 1 .. Len(List(b)) - 1, m >= n, x = (List(b)')[m]
          PROVE  \E z \in 1 .. Len(List(b)) : z >= n + 1 /\ x = List(b)[z]
      <4>1. m + 1 \in 1 .. Len(List(b)) /\ m + 1 >= n + 1 /\ ~(m < n)
        BY <3>1, <1>5
      <4> QED BY ONLY m \in 1 .. Len(List(b)) - 1, <3>1, <4>1, <1>6
    <3>2. ASSUME NEW m \in 1 .. Len(List(b)), m >= n + 1, x = List(b)[m]
          PROVE  \E z \in 1 .. Len(List(b)) - 1 : z >= n /\ x = (List(b)')[z]
      <4>1. m - 1 \in 1 .. Len(List(b)) - 1 /\ m - 1 >= n /\ ~(m - 1 < n) /\ (m - 1) + 1 = m
        BY <3>2, <1>5
      <4>2. (List(b)')[m - 1] = List(b)[(m - 1) + 1]
        BY ONLY <4>1, <1>6
      <4> QED BY ONLY <3>2, <4>1, <4>2
    <3> QED BY <3>1, <3>2
  <2>3. \A c \in Buckets : c > b => List(c)' = List(c)
    BY <1>4 DEF Buckets
  <2>4. Ahead(b, n)' = Ahead(b, n + 1)
    <3>1. Ahead(b, n)' = {e \in Elements :
                  \/ \E m \in 1 .. Len(List(b)') : m >= n /\ e = (List(b)')[m]
                  \/ \E c \in Buckets : c > b /\ \E m \in 1 .. Len(List(c)') : e = (List(c)')[m]}
      BY <1>7 DEF Ahead
    <3>2. \A x : (\E c \in Buckets : c > b /\ \E m \in 1 .. Len(List(c)') : x = (List(c)')[m])
                 <=> \E c \in Buckets : c > b /\ \E m \in 1 .. Len(List(c)) : x = List(c)[m]
      BY ONLY <2>3
    <3>4. \A x : (\E m \in 1 .. Len(List(b)') : m >= n /\ x = (List(b)')[m])
                 <=> \E m \in 1 .. Len(List(b)) : m >= n + 1 /\ x = List(b)[m]
      BY ONLY <1>6, <2>2
    <3>3. \A x : x \in Ahead(b, n)' <=> x \in Ahead(b, n + 1)
      BY ONLY <3>1, <3>2, <3>4 DEF Ahead
    <3> QED BY ONLY <3>3
  <2> QED BY ONLY <2>1, <2>4
<1>10. Divides(Ahead(b, n))'
  BY ONLY <1>1, <1>2, <1>9 DEF Divides
<1>11. Standing'
  BY ONLY <1>1, <1>2, <1>7, <1>8, <1>10 DEF Standing
<1>12. VisitInv'
  BY ONLY <1>1, <1>2, <1>11 DEF VisitInv, Iterating, Idle, End
<1> QED BY <1>4, <1>12 DEF TableInv

LEMMA BeginStep == ASSUME TableInv, Begin PROVE TableInv'
<1>1. eltp' = HeadOf(1) /\ visited' = <<>> /\ before' = Members /\ UNCHANGED table
  BY DEF Begin
<1>2. Types' /\ ListsInv' /\ ListsInv /\ \A c \in Buckets : List(c)' = List(c)
  BY <1>1, SameLists DEF TableInv
<1>3. 1 \in Buckets /\ Buckets' = Buckets /\ 1 \in 1 .. Len(List(1)') + 1
  <2>1. 1 \in Buckets /\ Buckets' = Buckets
    BY TableAssumption DEF Buckets
  <2>2. Len(List(1)) \in Nat
    BY <1>2, <2>1, ListIs
  <2> QED BY <1>2, <2>1, <2>2
<1>4. Ahead(1, 1)' = Members
  <2>1. Ahead(1, 1)' = Ahead(1, 1)
    BY <1>2, <1>3 DEF Ahead
  <2>2. \A c \in Buckets : c = 1 \/ c > 1
    BY TableAssumption DEF Buckets
  <2>3. \A m \in 1 .. Len(List(1)) : m >= 1
    BY <1>2, <1>3, ListIs
  <2>4. \A e : e \in Ahead(1, 1) <=> e \in Elements /\ \E c \in Buckets : \E m \in 1 .. Len(List(c)) : e = List(c)[m]
    BY ONLY <1>3, <2>2, <2>3 DEF Ahead
  <2>5. \A e : e \in Ahead(1, 1) <=> e \in Members
    BY ONLY <1>2, <2>4, MembersAre
  <2> QED BY <2>1, <2>5
<1>5. Divides(Ahead(1, 1))'
  <2>1. IsInjective(<<>>) /\ Range(<<>>) = {}
    BY DEF IsInjective, Range
  <2> QED BY ONLY <1>1, <1>4, <2>1 DEF Divides
<1>6. (eltp = Pointer(1, 1))' /\ (eltp \notin {Idle, End})'
  BY ONLY <1>1 DEF Pointer, HeadOf, Idle, End
<1>7. Standing'
  BY ONLY <1>3, <1>5, <1>6 DEF Standing
<1>8. visited' \in Seq(Elements)
  BY <1>1
<1>9. VisitInv'
  BY ONLY <1>6, <1>7, <1>8 DEF VisitInv, Iterating
<1> QED BY <1>2, <1>9 DEF TableInv

LEMMA StopStep == ASSUME TableInv, Stop PROVE TableInv'
<1>1. visited' \in Seq(Elements)
  <2>1. Visits
    BY DEF Stop
  <2>2. \E b \in Buckets : \E n \in 1 .. Len(List(b)) : VisitedAt(b, n)
    BY ONLY <2>1, TableInv, VisitFrom
  <2> QED BY ONLY <2>2 DEF VisitedAt
<1>2. eltp' = Idle /\ UNCHANGED table
  BY DEF Stop
<1>3. Types' /\ ListsInv'
  BY <1>2, SameLists DEF TableInv
<1>4. VisitInv'
  BY ONLY <1>1, <1>2 DEF VisitInv, Idle
<1> QED BY <1>3, <1>4 DEF TableInv

LEMMA NextBucketStep == ASSUME TableInv, NextBucket PROVE TableInv'
<1>1. Iterating /\ Deref(eltp) = NULL /\ UNCHANGED <<table, visited, before>>
  BY DEF NextBucket
<1>2. Types' /\ ListsInv' /\ ListsInv /\ \A c \in Buckets : List(c)' = List(c)
  BY <1>1, SameLists DEF TableInv
<1>3. visited \in Seq(Elements) /\ Standing
  BY <1>1 DEF TableInv, VisitInv, Iterating
<1>x. PICK b \in Buckets : \E n \in 1 .. Len(List(b)) + 1 :
        eltp = Pointer(b, n) /\ Divides(Ahead(b, n))
  BY <1>3 DEF Standing
<1>4. PICK n \in 1 .. Len(List(b)) + 1 : eltp = Pointer(b, n) /\ Divides(Ahead(b, n))
  BY <1>x
<1>5. n = Len(List(b)) + 1
  BY <1>1, <1>2, <1>4, PointsToNone
<1>6. eltp' = IF b = NoBuckets THEN End ELSE HeadOf(b + 1)
  <2>1. (IF Pointer(b, n)[1] = "head" THEN Pointer(b, n)[2]
                                     ELSE Bucket[KeyOf[Pointer(b, n)[2]]]) = b
    BY <1>2, BucketOfPointer
  <2> QED BY <1>4, <2>1 DEF NextBucket
<1>7. CASE b = NoBuckets
  <2>1. Ahead(b, n) = {}
    BY <1>2, <1>5, <1>7, AheadOfEnd
  <2>2. Divides({})'
    BY ONLY <1>1, <1>4, <2>1 DEF Divides
  <2>3. eltp' = End /\ visited' \in Seq(Elements)
    BY <1>1, <1>3, <1>6, <1>7
  <2>4. VisitInv'
    BY ONLY <2>2, <2>3 DEF VisitInv, End
  <2> QED BY <1>2, <2>4 DEF TableInv
<1>8. CASE b # NoBuckets
  <2>1. b + 1 \in Buckets /\ Ahead(b, n) = Ahead(b + 1, 1)
    BY <1>2, <1>5, <1>8, AheadOfEnd
  <2>2. Ahead(b + 1, 1)' = Ahead(b + 1, 1) /\ Buckets' = Buckets
    BY <1>2, <2>1 DEF Ahead, Buckets
  <2>3. Divides(Ahead(b + 1, 1))'
    BY ONLY <1>1, <1>4, <2>1, <2>2 DEF Divides
  <2>4. 1 \in 1 .. Len(List(b + 1)') + 1
    <3>1. Len(List(b + 1)) \in Nat
      BY <1>2, <2>1, ListIs
    <3> QED BY <1>2, <2>1, <3>1
  <2>5. eltp' = HeadOf(b + 1)
    BY <1>6, <1>8
  <2>6. (eltp = Pointer(b + 1, 1))' /\ (eltp \notin {Idle, End})'
    BY ONLY <2>5 DEF Pointer, HeadOf, Idle, End
  <2>7. Standing'
    BY ONLY <2>1, <2>2, <2>3, <2>4, <2>6 DEF Standing
  <2>8. VisitInv'
    <3>1. visited' \in Seq(Elements)
      BY <1>1, <1>3
    <3> QED BY ONLY <2>6, <2>7, <3>1 DEF VisitInv, Iterating
  <2> QED BY <1>2, <2>8 DEF TableInv
<1> QED BY <1>7, <1>8

LEMMA AddStep == ASSUME TableInv, NEW e \in Elements, Add(e) PROVE TableInv'
<1>1. Types' /\ ListsInv'
  BY AddLists DEF TableInv
<1>2. ~Iterating /\ UNCHANGED iteration
  BY DEF Add
<1>3. VisitInv'
  BY ONLY <1>2, TableInv, VisitStays DEF TableInv
<1> QED BY <1>1, <1>3 DEF TableInv

(* The search for the pointer to an element finds it. *)
LEMMA PointerIs ==
  ASSUME ListsInv, NEW e \in Members
  PROVE  /\ e \in Elements
         /\ \E b \in Buckets : \E n \in 1 .. Len(List(b)) :
               e = List(b)[n] /\ PointerTo(e) = Pointer(b, n)
<1>1. e \in Elements /\ \E b \in Buckets : \E n \in 1 .. Len(List(b)) : e = List(b)[n]
  BY MembersAre
<1>2. PICK b \in Buckets : \E n \in 1 .. Len(List(b)) : e = List(b)[n]
  BY <1>1
<1>3. PICK L \in Seq(Elements) : L = List(b)
  BY ListIs
<1>4. DOMAIN L = 1 .. Len(L) /\ \E n \in DOMAIN L : L[n] = e
  BY <1>2, <1>3
<1>5. PICK n : n = CHOOSE m \in DOMAIN L : L[m] = e
  OBVIOUS
<1>6. n \in DOMAIN L /\ L[n] = e
  BY ONLY <1>4, <1>5
<1>7. Bucket[KeyOf[e]] = b
  BY <1>2, ListIs
<1>8. PointerTo(e) = IF n = 1 THEN HeadOf(b) ELSE NextOf(List(b)[n - 1])
  BY ONLY <1>3, <1>5, <1>7 DEF PointerTo
<1>9. n \in 1 .. Len(List(b)) /\ e = List(b)[n] /\ PointerTo(e) = Pointer(b, n)
  BY ONLY <1>3, <1>4, <1>6, <1>8 DEF Pointer
<1> QED BY ONLY <1>1, <1>9, b \in Buckets

LEMMA UnlinkStep ==
  ASSUME TableInv, NEW e \in Members, ~Iterating, Unlink(PointerTo(e)), UNCHANGED iteration
  PROVE  TableInv'
<1>1. Types /\ ListsInv /\ VisitInv
  BY DEF TableInv
<1>2. PICK b \in Buckets : \E n \in 1 .. Len(List(b)) :
        e = List(b)[n] /\ PointerTo(e) = Pointer(b, n)
  BY <1>1, PointerIs
<1>3. PICK n \in 1 .. Len(List(b)) : e = List(b)[n] /\ PointerTo(e) = Pointer(b, n)
  BY <1>2
<1>4. Unlink(Pointer(b, n))
  BY <1>3
<1>5. Types' /\ ListsInv'
  BY ONLY <1>1, <1>4, b \in Buckets, n \in 1 .. Len(List(b)), UnlinkLists
<1>6. VisitInv'
  BY <1>1, VisitStays
<1> QED BY <1>5, <1>6 DEF TableInv

(* What is found by its key is in the table. *)
LEMMA FoundIsMember ==
  ASSUME ListsInv, NEW k \in Keys, Found(k) PROVE WithKey(k)[1] \in Members
<1>1. PICK b \in Buckets : b = Bucket[k]
  BY TableAssumption DEF Buckets
<1>2. PICK L \in Seq(Elements) : L = List(b)
  BY ListIs
<1>3. PICK W \in Seq(Elements) : W = OfKey(L, k) /\ \A z \in 1 .. Len(W) : W[z] \in Range(L)
  <2>1. OfKey(L, k) \in Seq(Elements)
    BY OfKeyIs
  <2>2. \A z \in 1 .. Len(OfKey(L, k)) : OfKey(L, k)[z] \in Range(L)
    BY OfKeyIs
  <2> QED BY ONLY <2>1, <2>2
<1>4. W = WithKey(k) /\ W # <<>>
  BY <1>1, <1>2, <1>3 DEF Found, WithKey
<1>5. 1 \in 1 .. Len(W)
  BY <1>4
<1>6. W[1] \in Range(L)
  BY ONLY <1>3, <1>5
<1>7. Range(L) \subseteq Members
  BY <1>2 DEF Members
<1> QED BY <1>4, <1>6, <1>7

LEMMA EmptyStep == ASSUME TableInv, Empty PROVE TableInv'
<1>1. Types' /\ ListsInv'
  BY EmptyLists DEF TableInv
<1>2. ~Iterating /\ UNCHANGED iteration
  BY DEF Empty
<1>3. VisitInv'
  BY ONLY <1>2, TableInv, VisitStays DEF TableInv
<1> QED BY <1>1, <1>3 DEF TableInv

LEMMA TablesStart == ASSUME TableInit PROVE TableInv
<1>1. Types /\ ListsInv
  BY TablesBegin
<1>2. VisitInv
  <2>1. eltp = Idle /\ visited = <<>>
    BY DEF TableInit
  <2> QED BY <2>1 DEF VisitInv
<1> QED BY <1>1, <1>2 DEF TableInv

(* The invariant is inductive. *)
LEMMA TablesStep == ASSUME TableInv, [TableNext]_tableVars PROVE TableInv'
<1>1. ASSUME NEW e \in Elements, Add(e) PROVE TableInv'
  BY <1>1, AddStep
<1>2. ASSUME NEW e \in Elements, Delete(e) PROVE TableInv'
  BY <1>2, UnlinkStep DEF Delete
<1>3. ASSUME NEW k \in Keys, DeleteByKey(k) PROVE TableInv'
  <2>1. /\ ~Iterating /\ Found(k) /\ Unlink(PointerTo(WithKey(k)[1])) /\ UNCHANGED iteration
    BY <1>3 DEF DeleteByKey
  <2>2. WithKey(k)[1] \in Members
    BY <2>1, FoundIsMember DEF TableInv
  <2> QED BY <2>1, <2>2, UnlinkStep
<1>4. CASE UNCHANGED tableVars
  <2>1. UNCHANGED table /\ UNCHANGED iteration
    BY <1>4 DEF tableVars, table, iteration
  <2>2. Types' /\ ListsInv' /\ \A b \in Buckets : List(b)' = List(b)
    BY <2>1, SameLists DEF TableInv
  <2>3. eltp' = eltp /\ visited' = visited /\ before' = before /\ Buckets' = Buckets
    BY <2>1 DEF iteration, Buckets
  <2>4. \A b \in Buckets : \A n : Pointer(b, n)' = Pointer(b, n)
    BY <2>2 DEF Pointer, HeadOf, NextOf
  <2>5. \A b \in Buckets : \A n : Ahead(b, n)' = Ahead(b, n)
    BY <2>2, <2>3 DEF Ahead, Buckets
  <2>6. \A b \in Buckets : \A n : Divides(Ahead(b, n))' <=> Divides(Ahead(b, n))
    BY ONLY <2>3, <2>5 DEF Divides
  <2>7. Standing => Standing'
    BY ONLY <2>2, <2>3, <2>4, <2>6 DEF Standing
  <2>8. VisitInv'
    BY ONLY <2>3, <2>7, TableInv DEF TableInv, VisitInv, Iterating, Idle, End, Divides
  <2> QED BY <2>2, <2>8 DEF TableInv
<1> QED BY <1>1, <1>2, <1>3, <1>4, EmptyStep, BeginStep, KeepStep, RemoveVisitedStep, StopStep,
          NextBucketStep DEF TableNext
-------------------------------------------------------------------------------
(* The invariant holds of every reachable state of a table: the pointers   *)
(* lead through lists that end, and an iteration stands between what it    *)
(* has visited and what is ahead of it.                                    *)
THEOREM TablesSound == TablesSpec => []TableInv
<1>1. TableInit => TableInv
  BY TablesStart
<1>2. TableInv /\ [TableNext]_tableVars => TableInv'
  BY TablesStep
<1> QED BY <1>1, <1>2, PTL DEF TablesSpec

LEMMA SoundLists == ASSUME ListsInv PROVE ListsSound
<1> SUFFICES ASSUME NEW b \in Buckets
             PROVE  /\ IsInjective(List(b)) /\ count[b] = Len(List(b))
                    /\ \A e \in Range(List(b)) : Bucket[KeyOf[e]] = b
  BY DEF ListsSound
<1>1. DOMAIN List(b) = 1 .. Len(List(b))
  BY ListIs
<1>2. IsInjective(List(b))
  BY <1>1, Apart DEF IsInjective
<1>3. \A e \in Range(List(b)) : Bucket[KeyOf[e]] = b
  BY <1>1, ListIs DEF Range
<1> QED BY <1>2, <1>3 DEF ListsInv

(* The lists end, no element is in two places or in a bucket that is not   *)
(* its own, and the counts are exact, after any additions and removals.    *)
THEOREM ListsStaySound == TablesSpec => []ListsSound
<1>1. TableInv => ListsSound
  BY SoundLists DEF TableInv
<1> QED BY <1>1, TablesSound, PTL

(* An iteration that comes to its end has visited each element that was    *)
(* there when it began exactly once, whatever was removed on the way.      *)
THEOREM EachVisitedOnce == TablesSpec => []VisitsEachOnce
<1>1. ASSUME TableInv PROVE VisitsEachOnce
  <2> SUFFICES ASSUME eltp = End PROVE IsInjective(visited) /\ Range(visited) = before
    BY DEF VisitsEachOnce
  <2>1. Divides({})
    BY <1>1 DEF TableInv, VisitInv, Iterating, Idle, End
  <2> QED BY <2>1 DEF Divides
<1> QED BY <1>1, TablesSound, PTL
-------------------------------------------------------------------------------
entries == [k \in Keys |-> WithKey(k)]

(* What the table maps each key to, from its lists. *)
LEMMA EntriesAre ==
  ASSUME ListsInv, NEW k \in Keys
  PROVE  /\ entries[k] = OfKey(List(Bucket[k]), k) /\ entries[k] \in Seq(Elements)
         /\ Bucket[k] \in Buckets
<1>1. Bucket[k] \in Buckets
  BY TableAssumption DEF Buckets
<1>2. entries[k] = OfKey(List(Bucket[k]), k)
  BY DEF entries, WithKey
<1>3. List(Bucket[k]) \in Seq(Elements)
  BY <1>1, ListIs
<1>4. OfKey(List(Bucket[k]), k) \in Seq(Elements)
  BY <1>3, OfKeyIs
<1> QED BY <1>1, <1>2, <1>4

(* An addition puts the element in front of those with its key.            *)
LEMMA AddPuts == ASSUME Types, ListsInv, NEW e \in Elements, Add(e) PROVE T!Put(e)
<1>1. PICK b \in Buckets : b = Bucket[KeyOf[e]]
  BY BucketIs
<1>2. PICK L \in Seq(Elements) : L = List(b)
  BY ListIs
<1>3. /\ ListsInv' /\ List(b)' = InFront(e, L)
      /\ \A c \in Buckets : c # b => List(c)' = List(c)
  BY ONLY <1>1, <1>2, Types, ListsInv, e \in Elements, Add(e), AddLists
<1>4. KeyOf[e] \in Keys /\ UNCHANGED unique
  BY BucketIs DEF Add
<1>5. PICK W \in Seq(Elements) : W = OfKey(L, KeyOf[e]) /\ W = entries[KeyOf[e]]
  BY <1>1, <1>2, <1>4, EntriesAre
<1>6. unique => entries[KeyOf[e]] = <<>>
  BY <1>4 DEF Add, Found, entries
<1>7. \A n \in DOMAIN W : W[n] # e
  <2>1. \A n \in 1 .. Len(W) : W[n] \in Range(L)
    BY <1>5, OfKeyIs
  <2>2. \A n \in 1 .. Len(L) : L[n] # e
    BY <1>2, AddedIsNew
  <2>3. DOMAIN L = 1 .. Len(L) /\ DOMAIN W = 1 .. Len(W)
    OBVIOUS
  <2> QED BY ONLY <2>1, <2>2, <2>3 DEF Range
<1>8. ASSUME NEW k \in Keys
      PROVE  OfKey(List(Bucket[k])', k) = IF k = KeyOf[e] THEN <<e>> \o W ELSE entries[k]
  <2>1. entries[k] = OfKey(List(Bucket[k]), k) /\ Bucket[k] \in Buckets
    BY EntriesAre
  <2>2. OfKey(InFront(e, L), k) = IF KeyOf[e] = k THEN InFront(e, OfKey(L, k)) ELSE OfKey(L, k)
    BY OfKeyInFront
  <2>3. <<e>> \o W = InFront(e, W)
    BY Prefixed
  <2>4. CASE Bucket[k] = b
    <3>1. OfKey(List(Bucket[k])', k) = OfKey(InFront(e, L), k)
      BY ONLY <1>3, <2>4
    <3> QED BY ONLY <1>2, <1>5, <2>1, <2>2, <2>3, <2>4, <3>1
  <2>5. CASE Bucket[k] # b
    <3>1. OfKey(List(Bucket[k])', k) = OfKey(List(Bucket[k]), k)
      BY ONLY <1>3, <2>1, <2>5
    <3> QED BY ONLY <1>1, <2>1, <2>5, <3>1
  <2> QED BY <2>4, <2>5
<1>9. entries' = [k \in Keys |-> OfKey(List(Bucket[k])', k)]
  BY DEF entries, WithKey, OfKey
<1>10. entries' = [entries EXCEPT ![KeyOf[e]] = <<e>> \o entries[KeyOf[e]]]
  <2>1. entries = [k \in Keys |-> entries[k]]
    BY DEF entries
  <2> QED BY ONLY <1>4, <1>5, <1>8, <1>9, <2>1
<1> QED BY ONLY <1>4, <1>5, <1>6, <1>7, <1>10 DEF T!Put, entries

(* What is unlinked is taken from those with its key.                      *)
LEMMA UnlinkTakes ==
  ASSUME Types, ListsInv, NEW b \in Buckets, NEW p \in 1 .. Len(List(b)), Unlink(Pointer(b, p))
  PROVE  T!Take(List(b)[p])
<1>1. PICK L \in Seq(Elements) : L = List(b)
  BY ListIs
<1>2. PICK e \in Elements : e = L[p] /\ Bucket[KeyOf[e]] = b
  BY <1>1, ListIs
<1>3. /\ ListsInv' /\ List(b)' = Without(L, p)
      /\ \A c \in Buckets : c # b => List(c)' = List(c) /\ UNCHANGED unique
  BY ONLY <1>1, Types, ListsInv, b \in Buckets, p \in 1 .. Len(List(b)), Unlink(Pointer(b, p)), UnlinkLists
<1>4. KeyOf[e] \in Keys /\ UNCHANGED unique
  BY BucketIs DEF Unlink
<1>5. PICK W \in Seq(Elements) : W = OfKey(L, KeyOf[e]) /\ W = entries[KeyOf[e]]
  BY <1>1, <1>2, <1>4, EntriesAre
<1>6. PICK j \in 1 .. Len(W) : W[j] = e /\ OfKey(Without(L, p), KeyOf[e]) = Without(W, j)
  <2>1. p \in 1 .. Len(L)
    BY <1>1
  <2>2. \E j \in 1 .. Len(OfKey(L, KeyOf[e])) :
           /\ OfKey(L, KeyOf[e])[j] = L[p]
           /\ OfKey(Without(L, p), KeyOf[e]) = Without(OfKey(L, KeyOf[e]), j)
    BY <1>2, <2>1, OfKeyWithout
  <2> QED BY ONLY <1>2, <1>5, <2>2
<1>7. j \in DOMAIN W /\ RemoveAt(W, j) = Without(W, j)
  BY WithoutIs
<1>8. ASSUME NEW k \in Keys
      PROVE  OfKey(List(Bucket[k])', k) = IF k = KeyOf[e] THEN RemoveAt(W, j) ELSE entries[k]
  <2>1. entries[k] = OfKey(List(Bucket[k]), k) /\ Bucket[k] \in Buckets
    BY EntriesAre
  <2>2. KeyOf[e] # k => OfKey(Without(L, p), k) = OfKey(L, k)
    BY <1>1, <1>2, OfKeyWithout
  <2>3. CASE Bucket[k] = b
    <3>1. OfKey(List(Bucket[k])', k) = OfKey(Without(L, p), k)
      BY ONLY <1>3, <2>3
    <3> QED BY ONLY <1>1, <1>6, <1>7, <2>1, <2>2, <2>3, <3>1
  <2>4. CASE Bucket[k] # b
    <3>1. OfKey(List(Bucket[k])', k) = OfKey(List(Bucket[k]), k)
      BY ONLY <1>3, <2>1, <2>4
    <3> QED BY ONLY <1>2, <2>1, <2>4, <3>1
  <2> QED BY <2>3, <2>4
<1>9. entries' = [k \in Keys |-> OfKey(List(Bucket[k])', k)]
  BY DEF entries, WithKey, OfKey
<1>10. entries' = [entries EXCEPT ![KeyOf[e]] = RemoveAt(entries[KeyOf[e]], j)]
  <2>1. entries = [k \in Keys |-> entries[k]]
    BY DEF entries
  <2> QED BY ONLY <1>4, <1>5, <1>8, <1>9, <2>1
<1>11. T!Take(e)
  BY ONLY <1>4, <1>5, <1>6, <1>7, <1>10 DEF T!Take, T!RemoveAt, RemoveAt, entries
<1> QED BY ONLY <1>1, <1>2, <1>11

(* As long as the lists stay, so do the entries.                           *)
LEMMA EntriesStay ==
  ASSUME ListsInv, \A b \in Buckets : List(b)' = List(b) PROVE UNCHANGED entries
<1>1. entries' = [k \in Keys |-> OfKey(List(Bucket[k])', k)]
  BY DEF entries, WithKey, OfKey
<1>2. ASSUME NEW k \in Keys PROVE OfKey(List(Bucket[k])', k) = entries[k]
  <2>1. entries[k] = OfKey(List(Bucket[k]), k) /\ List(Bucket[k])' = List(Bucket[k])
    BY EntriesAre
  <2> QED BY ONLY <2>1
<1>3. entries = [k \in Keys |-> entries[k]]
  BY DEF entries
<1> QED BY ONLY <1>1, <1>2, <1>3

LEMMA EmptyClears == ASSUME Types, ListsInv, Empty PROVE T!Clear
<1>1. \A b \in Buckets : List(b)' = <<>>
  BY EmptyLists
<1>2. entries' = [k \in Keys |-> OfKey(List(Bucket[k])', k)]
  BY DEF entries, WithKey, OfKey
<1>3. ASSUME NEW k \in Keys PROVE OfKey(List(Bucket[k])', k) = <<>>
  <2>1. Bucket[k] \in Buckets
    BY TableAssumption DEF Buckets
  <2>2. OfKey(List(Bucket[k])', k) = OfKey(<<>>, k)
    BY ONLY <1>1, <2>1
  <2> QED BY ONLY <2>2, NoneOfKey
<1>4. entries' = [k \in Keys |-> <<>>]
  BY ONLY <1>2, <1>3
<1> QED BY ONLY <1>4, Empty DEF Empty, T!Clear, entries

(* The step of the map that a step of the table is.                        *)
LEMMA TablesRefine ==
  ASSUME TableInv, [TableNext]_tableVars PROVE [T!Next]_<<unique, entries>>
<1>0. Types /\ ListsInv
  BY DEF TableInv
<1>1. ASSUME NEW e \in Elements, Add(e) PROVE T!Next
  BY <1>0, <1>1, AddPuts DEF T!Next
<1>2. ASSUME NEW e \in Members, Unlink(PointerTo(e)) PROVE T!Next
  <2>1. PICK b \in Buckets : \E n \in 1 .. Len(List(b)) :
          e = List(b)[n] /\ PointerTo(e) = Pointer(b, n)
    BY <1>0, PointerIs
  <2>2. PICK n \in 1 .. Len(List(b)) : e = List(b)[n] /\ PointerTo(e) = Pointer(b, n)
    BY <2>1
  <2>3. e \in Elements /\ T!Take(e)
    BY <1>0, <1>2, <2>2, PointerIs, UnlinkTakes
  <2> QED BY <2>3 DEF T!Next
<1>3. ASSUME NEW e \in Elements, Delete(e) PROVE T!Next
  BY <1>2, <1>3 DEF Delete
<1>4. ASSUME NEW k \in Keys, DeleteByKey(k) PROVE T!Next
  BY <1>0, <1>2, <1>4, FoundIsMember DEF DeleteByKey
<1>5. CASE Empty
  BY <1>0, <1>5, EmptyClears DEF T!Next
<1>6. CASE RemoveVisited
  <2>1. PICK b \in Buckets : \E n \in 1 .. Len(List(b)) : VisitedAt(b, n)
    BY <1>6, VisitFrom DEF RemoveVisited
  <2>2. PICK n \in 1 .. Len(List(b)) : eltp = Pointer(b, n)
    BY <2>1 DEF VisitedAt
  <2>3. Unlink(Pointer(b, n)) /\ List(b)[n] \in Elements
    BY <1>0, <1>6, <2>2, ListIs DEF RemoveVisited
  <2>4. T!Take(List(b)[n])
    BY <1>0, <2>3, UnlinkTakes
  <2> QED BY ONLY <2>3, <2>4 DEF T!Next
<1>7. CASE Begin \/ Keep \/ Stop \/ NextBucket \/ UNCHANGED tableVars
  <2>1. UNCHANGED table
    BY <1>7 DEF Begin, Keep, Stop, NextBucket, tableVars
  <2>2. \A b \in Buckets : List(b)' = List(b)
    BY <1>0, <2>1, SameLists
  <2>3. UNCHANGED entries
    BY <1>0, <2>2, EntriesStay
  <2> QED BY <2>1, <2>3 DEF table
<1> QED BY <1>1, <1>3, <1>4, <1>5, <1>6, <1>7 DEF TableNext

(* The pointers implement the map from keys to elements.                   *)
THEOREM TableImplemented == TablesSpec => ImplementsTable
<1>1. TableInit => T!Init
  <2> SUFFICES ASSUME TableInit PROVE T!Init
    OBVIOUS
  <2>1. ListsInv /\ \A b \in Buckets : List(b) = <<>>
    BY TablesBegin
  <2>2. ASSUME NEW k \in Keys PROVE entries[k] = <<>>
    BY <2>1, EntriesAre, NoneOfKey
  <2>3. entries = [k \in Keys |-> <<>>]
    <3>1. entries = [k \in Keys |-> entries[k]]
      BY DEF entries
    <3> QED BY ONLY <2>2, <3>1
  <2> QED BY ONLY <2>3, TableInit DEF TableInit, T!Init, entries
<1>2. TableInv /\ [TableNext]_tableVars => [T!Next]_<<unique, [k \in Keys |-> WithKey(k)]>>
  BY TablesRefine DEF entries
<1> QED BY <1>1, <1>2, TablesSound, PTL DEF TablesSpec, ImplementsTable, T!Spec
===============================================================================
