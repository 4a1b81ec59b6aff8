------------------------------ MODULE Sha2Proofs ------------------------------
(***************************************************************************)
(* Proofs about sha256.c and sha512.c: for a message of any length, in     *)
(* pieces of any size, what is transformed are the blocks of the padded    *)
(* message.                                                                *)
(***************************************************************************)
EXTENDS Sha2, SequenceTheorems, TLAPS

Algs == {SHA256, SHA256D, SHA512}

(* The padding and the whole of a message of l bytes. *)
PadOf(a, l)   == 1 + ((2 * a.block - a.length - (l % a.block) - 1) % a.block)
Whole(a, l)   == l + PadOf(a, l) + a.length

(* Byte p of the padded message of l bytes of the given name. *)
Stream(a, name, l, p) ==
  IF p <= l THEN <<name, p>>
  ELSE IF p = l + 1 THEN One
  ELSE IF p <= l + PadOf(a, l) THEN Zero
  ELSE <<"length", l, p - (l + PadOf(a, l))>>

(* Block n, and the first q blocks. *)
BlockOf(a, name, l, n) == [k \in 1 .. a.block |-> Stream(a, name, l, (n - 1) * a.block + k)]
Blocks(a, name, l, q)  == [n \in 1 .. q |-> BlockOf(a, name, l, n)]

StreamBytes ==
  {<<"message", k>> : k \in Nat} \cup {<<"digest", k>> : k \in Nat} \cup {One, Zero}
    \cup {<<"length", l, k>> : l \in Nat, k \in Nat}

(* What is hashed: the message, or the digest of it. *)
Name == IF once = <<>> THEN "message" ELSE "digest"
Size == IF once = <<>> THEN size ELSE 32

(* How far the pieces that have been added come. *)
Added ==
  CASE stage \in {"message", "again"} -> Size
    [] stage = "padding"              -> Size + PadOf(alg, Size)
    [] OTHER                          -> Whole(alg, Size)

NumbersInv ==
  /\ alg \in Algs /\ bytes \in Nat /\ size \in Nat
  /\ pc \in {"idle", "fill", "chunks"}
  /\ stage \in {"message", "again", "padding", "length", "digest"}

StageInv ==
  /\ stage = "message" => once = <<>>
  /\ stage = "again" => once # <<>>
  /\ stage \in {"padding", "length"} => sizedesc = Size
  /\ stage = "digest" => pc = "idle"
  /\ once # <<>> => once = Blocks(alg, "message", size, Whole(alg, size) \div alg.block)

(* The piece that is being added goes on with the stream. *)
DataInv ==
  /\ data \in Seq(StreamBytes) /\ bytes + Len(data) = Added
  /\ \A k \in 1 .. Len(data) : data[k] = Stream(alg, Name, Size, bytes + k)
  /\ pc = "idle" => data = <<>>
  /\ pc = "chunks" => bufsize = 0 \/ bufsize + Len(data) < alg.block

(* The buffer holds the stream from the last block on. *)
BufferInv ==
  \A k \in 1 .. bufsize :
    k \in DOMAIN buf /\ buf[k] = Stream(alg, Name, Size, bytes - bufsize + k)

BlocksInv == blocks = Blocks(alg, Name, Size, bytes \div alg.block)

Sha2Inv == NumbersInv /\ StageInv /\ DataInv /\ BufferInv /\ BlocksInv
------------------------------------------------------------------------------
LEMMA AlgFacts ==
  ASSUME NEW a \in Algs
  PROVE  \/ a.block = 64 /\ a.length = 8 /\ a.viaEmptyBuffer
         \/ a.block = 128 /\ a.length = 16 /\ ~a.viaEmptyBuffer
BY DEF Algs, SHA256, SHA256D, SHA512

LEMMA Division ==
  ASSUME NEW b \in Nat \ {0}, NEW x \in Nat
  PROVE  x \div b \in Nat /\ x % b \in 0 .. b - 1 /\ x = b * (x \div b) + (x % b)
<1>1. x \div b \in Nat
  OBVIOUS
<1>2. x % b \in 0 .. b - 1
  OBVIOUS
<1>3. x = b * (x \div b) + (x % b)
  OBVIOUS
<1> QED BY <1>1, <1>2, <1>3

LEMMA Quotient ==
  ASSUME NEW b \in Nat \ {0}, NEW x \in Nat, NEW q \in Nat, NEW r \in 0 .. b - 1, x = q * b + r
  PROVE  x \div b = q /\ x % b = r
OBVIOUS

(* The padding makes the whole a number of blocks, and is the least one    *)
(* that does: 1 + (128 - 8 - bytes % 64 - 1) % 64, and                     *)
(* 1 + (239 - bytes % 128) % 128.                                          *)
LEMMA Padding ==
  ASSUME NEW a \in Algs, NEW l \in Nat
  PROVE  /\ PadOf(a, l) \in 1 .. a.block
         /\ Whole(a, l) \in Nat /\ Whole(a, l) % a.block = 0
         /\ \A z \in 0 .. a.block - 1 :
              (l + 1 + z + a.length) % a.block = 0 => z = PadOf(a, l) - 1
<1> DEFINE b == a.block
           c == a.length
           r == l % b
           q == l \div b
           pad == PadOf(a, l)
           whole == Whole(a, l)
<1>1. b \in Nat \ {0} /\ b \in {64, 128} /\ c \in 1 .. b - 1
  BY AlgFacts
<1>2. pad = 1 + ((2 * b - c - r - 1) % b) /\ whole = l + pad + c
  BY DEF PadOf, Whole
<1>3. q \in Nat /\ r \in 0 .. b - 1 /\ l = q * b + r
  <2>1. q \in Nat /\ r \in 0 .. b - 1 /\ l = b * q + r
    BY <1>1, Division
  <2> HIDE DEF b, q, r
  <2> QED BY <1>1, <2>1
<1> HIDE DEF b, c, r, q, pad, whole
<1>4. ASSUME r < b - c
      PROVE  pad \in 1 .. b /\ whole \in Nat /\ whole % b = 0
  <2>1. /\ 2 * b - c - r - 1 \in Nat /\ 2 * b - c - r - 1 = 1 * b + (b - c - r - 1)
        /\ b - c - r - 1 \in 0 .. b - 1 /\ b \in Nat \ {0}
    BY <1>1, <1>3, <1>4
  <2>2. (2 * b - c - r - 1) % b = b - c - r - 1
    BY <2>1, Quotient
  <2>3. pad = b - c - r /\ pad \in 1 .. b
    BY <1>1, <1>2, <1>3, <1>4, <2>2
  <2>4. whole \in Nat /\ whole = (q + 1) * b + 0 /\ 0 \in 0 .. b - 1 /\ q + 1 \in Nat
    BY <1>1, <1>2, <1>3, <2>3
  <2>5. whole % b = 0
    BY <2>1, <2>4, Quotient
  <2> QED BY <2>3, <2>4, <2>5
<1>5. ASSUME ~(r < b - c)
      PROVE  pad \in 1 .. b /\ whole \in Nat /\ whole % b = 0
  <2>1. /\ 2 * b - c - r - 1 \in Nat /\ 2 * b - c - r - 1 = 0 * b + (2 * b - c - r - 1)
        /\ 2 * b - c - r - 1 \in 0 .. b - 1 /\ b \in Nat \ {0}
    BY <1>1, <1>3, <1>5
  <2>2. (2 * b - c - r - 1) % b = 2 * b - c - r - 1
    BY <2>1, Quotient
  <2>3. pad = 2 * b - c - r /\ pad \in 1 .. b
    BY <1>1, <1>2, <1>3, <1>5, <2>2
  <2>4. whole \in Nat /\ whole = (q + 2) * b + 0 /\ 0 \in 0 .. b - 1 /\ q + 2 \in Nat
    BY <1>1, <1>2, <1>3, <2>3
  <2>5. whole % b = 0
    BY <2>1, <2>4, Quotient
  <2> QED BY <2>3, <2>4, <2>5
<1>6. pad \in 1 .. b /\ whole \in Nat /\ whole % b = 0
  BY <1>4, <1>5
<1>7. ASSUME NEW z \in 0 .. b - 1, (l + 1 + z + c) % b = 0 PROVE z = pad - 1
  <2> DEFINE x == l + 1 + z + c
  <2>0. x \in Nat /\ x % b = 0 /\ x = l + 1 + z + c
    BY <1>1, <1>3, <1>7
  <2> HIDE DEF x
  <2>1. /\ x = b * (x \div b) /\ whole = b * (whole \div b)
        /\ x \div b \in Nat /\ whole \div b \in Nat
    <3>1. x \div b \in Nat /\ x = b * (x \div b) + (x % b)
      BY <1>1, <2>0, Division
    <3>2. whole \div b \in Nat /\ whole = b * (whole \div b) + (whole % b)
      BY <1>1, <1>6, Division
    <3> QED BY <1>1, <1>6, <2>0, <3>1, <3>2
  <2>2. PICK d \in Int : z + 1 - pad = d * b
    <3>1. z + 1 - pad = (x \div b - whole \div b) * b
      BY <1>1, <1>2, <1>3, <1>6, <2>0, <2>1
    <3> QED BY <2>1, <3>1
  <2>3. d = 0
    BY <1>1, <1>6, <2>2
  <2> QED BY <1>1, <1>6, <2>2, <2>3
<1> QED BY <1>6, <1>7 DEF b, c, pad, whole

(* Blocks are appended in order. *)
LEMMA AppendsBlock ==
  ASSUME NEW a, NEW name, NEW l, NEW q \in Nat
  PROVE  Append(Blocks(a, name, l, q), BlockOf(a, name, l, q + 1)) = Blocks(a, name, l, q + 1)
<1> DEFINE S == {BlockOf(a, name, l, n) : n \in Nat}
<1>1. \A n \in Nat : BlockOf(a, name, l, n) \in S
  OBVIOUS
<1> HIDE DEF S
<1>2. [n \in 1 .. q |-> BlockOf(a, name, l, n)] \in Seq(S)
  BY <1>1
<1> QED BY <1>1, <1>2 DEF Blocks

(* What is known of the stream does not change when the message goes on. *)
LEMMA GoesOn ==
  ASSUME NEW a \in Algs, NEW name, NEW l \in Nat, NEW m \in Nat, l <= m
  PROVE  /\ \A p : p \in Int /\ p <= l => Stream(a, name, l, p) = Stream(a, name, m, p)
         /\ Blocks(a, name, l, l \div a.block) = Blocks(a, name, m, l \div a.block)
<1>1. \A p : p \in Int /\ p <= l => Stream(a, name, l, p) = Stream(a, name, m, p)
  BY DEF Stream
<1>2. ASSUME NEW n \in 1 .. l \div a.block, NEW k \in 1 .. a.block
      PROVE  (n - 1) * a.block + k \in Int /\ (n - 1) * a.block + k <= l
  <2>1. CASE a.block = 64
    BY <2>1
  <2>2. CASE a.block = 128
    BY <2>2
  <2> QED BY <2>1, <2>2, AlgFacts
<1>3. ASSUME NEW n \in 1 .. l \div a.block PROVE BlockOf(a, name, l, n) = BlockOf(a, name, m, n)
  BY <1>1, <1>2 DEF BlockOf
<1> QED BY <1>1, <1>3 DEF Blocks
------------------------------------------------------------------------------
LEMMA Begins == ASSUME Init PROVE Sha2Inv
<1> USE DEF Init
<1>1. NumbersInv /\ StageInv
  BY DEF NumbersInv, StageInv, Algs
<1>2. alg \in Algs /\ alg.block \in Nat \ {0}
  BY AlgFacts DEF Algs
<1>3. bytes \div alg.block = 0 /\ bytes % alg.block = 0
  BY <1>2
<1>4. DataInv
  BY DEF DataInv, Added, Size
<1>5. BufferInv
  BY <1>3 DEF BufferInv, bufsize, Block
<1>6. BlocksInv
  BY <1>3 DEF BlocksInv, Blocks
<1> QED BY <1>1, <1>4, <1>5, <1>6 DEF Sha2Inv

(* The numbers of every state. *)
LEMMA Sizes ==
  ASSUME Sha2Inv
  PROVE  /\ alg \in Algs /\ Size \in Nat /\ bytes \in Nat /\ Len(data) \in Nat
         /\ alg.block \in {64, 128} /\ alg.length \in {8, 16} /\ Block = alg.block
         /\ PadOf(alg, Size) \in 1 .. alg.block
         /\ bytes \div Block \in Nat /\ bufsize \in 0 .. Block - 1
         /\ bytes = Block * (bytes \div Block) + bufsize
<1>1. alg \in Algs /\ bytes \in Nat /\ Size \in Nat /\ Len(data) \in Nat
  BY DEF Sha2Inv, NumbersInv, DataInv, Size
<1>2. alg.block \in {64, 128} /\ alg.length \in {8, 16}
  BY <1>1, AlgFacts
<1>3. PadOf(alg, Size) \in 1 .. alg.block
  BY <1>1, Padding
<1>4. /\ bytes \div alg.block \in Nat /\ bytes % alg.block \in 0 .. alg.block - 1
      /\ bytes = alg.block * (bytes \div alg.block) + (bytes % alg.block)
  <2>1. alg.block \in Nat \ {0}
    BY <1>2
  <2> QED BY <1>1, <2>1, Division
<1> QED BY <1>1, <1>2, <1>3, <1>4 DEF Block, bufsize

LEMMA UpdateStep ==
  ASSUME PiecesFit, Sha2Inv, NEW s \in Pieces(alg), Update(s)
  PROVE  Sha2Inv'
<1>1. /\ stage = "message" /\ pc = "idle" /\ pc' = "fill" /\ data' = Bytes(size, size + s)
      /\ size' = size + s /\ UNCHANGED <<alg, bytes, buf, blocks, once, sizedesc, stage>>
  BY DEF Update, Add
<1>2. /\ alg \in Algs /\ s \in Nat /\ size \in Nat /\ bytes \in Nat /\ once = <<>> /\ data = <<>>
      /\ bytes = size /\ Name = "message" /\ Size = size /\ Name' = "message" /\ Size' = size + s
  BY <1>1 DEF Sha2Inv, NumbersInv, StageInv, DataInv, Added, PiecesFit, Algs, Name, Size
<1>3. NumbersInv' /\ StageInv'
  BY <1>1, <1>2 DEF Sha2Inv, NumbersInv, StageInv
<1>4. DataInv'
  <2>1. data' = [k \in 1 .. s |-> <<"message", size + k>>]
    BY <1>1, <1>2 DEF Bytes
  <2>2. \A k \in 1 .. s : <<"message", size + k>> \in StreamBytes
    BY <1>2 DEF StreamBytes
  <2>3. data' \in Seq(StreamBytes) /\ Len(data') = s
    <3>1. [k \in 1 .. s |-> <<"message", size + k>>] \in [1 .. s -> StreamBytes]
      BY <2>2
    <3>2. s \in Nat
      BY <1>2
    <3> QED BY <2>1, <3>1, <3>2
  <2>4. \A k \in 1 .. s : data'[k] = Stream(alg, "message", size + s, bytes + k)
    BY <1>2, <2>1 DEF Stream
  <2>5. Added' = size + s
    BY <1>1, <1>2 DEF Added
  <2> QED BY <1>1, <1>2, <2>3, <2>4, <2>5 DEF DataInv
<1>5. BufferInv'
  <2>1. bufsize \in 0 .. Block - 1 /\ bufsize' = bufsize /\ Block \in Nat
    <3>1. bufsize' = bufsize
      BY <1>1 DEF bufsize, Block
    <3>2. bufsize \in 0 .. Block - 1 /\ Block = alg.block /\ alg.block \in {64, 128}
      BY Sizes
    <3>3. Block \in Nat
      BY <3>2
    <3> QED BY <3>1, <3>2, <3>3
  <2>2. ASSUME NEW k \in 1 .. bufsize
        PROVE  Stream(alg, "message", size, bytes - bufsize + k)
                 = Stream(alg, "message", size + s, bytes - bufsize + k)
    <3>1. bytes - bufsize + k \in Int /\ bytes - bufsize + k <= size
      BY <1>2, <2>1
    <3>2. size + s \in Nat /\ size <= size + s
      BY <1>2
    <3> QED BY <1>2, <3>1, <3>2, GoesOn
  <2> QED BY <1>1, <1>2, <2>1, <2>2 DEF Sha2Inv, BufferInv
<1>6. BlocksInv'
  <2>1. size + s \in Nat /\ size <= size + s
    BY <1>2
  <2>2. Blocks(alg, "message", size, size \div alg.block)
          = Blocks(alg, "message", size + s, size \div alg.block)
    BY <1>2, <2>1, GoesOn
  <2> QED BY <1>1, <1>2, <2>2 DEF Sha2Inv, BlocksInv
<1> QED BY <1>3, <1>4, <1>5, <1>6 DEF Sha2Inv

(* What finalize adds goes on with the stream. *)
LEMMA AddStep ==
  ASSUME Sha2Inv, NumbersInv', StageInv', pc' = "fill", Size' = Size,
         UNCHANGED <<alg, bytes, buf, blocks, once, size>>,
         data' \in Seq(StreamBytes), bytes + Len(data') = Added',
         \A k \in 1 .. Len(data') : data'[k] = Stream(alg, Name, Size, bytes + k)
  PROVE  Sha2Inv'
<1>1. Name' = Name
  BY DEF Name
<1>2. DataInv'
  BY <1>1 DEF DataInv
<1>3. bufsize' = bufsize
  BY DEF bufsize, Block
<1>4. BufferInv'
  BY <1>1, <1>3 DEF Sha2Inv, BufferInv
<1>5. BlocksInv'
  BY <1>1 DEF Sha2Inv, BlocksInv
<1> QED BY <1>2, <1>4, <1>5 DEF Sha2Inv

LEMMA FinalizeStep == ASSUME Sha2Inv, Finalize PROVE Sha2Inv'
<1>1. /\ stage \in {"message", "again"} /\ stage' = "padding" /\ sizedesc' = bytes
      /\ pc = "idle" /\ pc' = "fill"
      /\ data' = [k \in 1 .. PadSize |-> IF k = 1 THEN One ELSE Zero]
      /\ UNCHANGED <<alg, bytes, buf, blocks, once, size>>
  BY DEF Finalize, Add
<1>2. Size \in Nat /\ bytes = Size /\ Size' = Size
  BY <1>1 DEF Sha2Inv, NumbersInv, DataInv, Added, Size
<1>3. NumbersInv' /\ StageInv'
  BY <1>1, <1>2 DEF Sha2Inv, NumbersInv, StageInv
<1>4. PadSize = PadOf(alg, Size) /\ PadSize \in Nat \ {0}
  <2>1. PadSize = PadOf(alg, Size)
    BY <1>2 DEF PadSize, PadOf, bufsize, Block, LenBytes
  <2>2. PadOf(alg, Size) \in 1 .. alg.block /\ alg.block \in {64, 128}
    BY Sizes
  <2> QED BY <2>1, <2>2
<1>5. data' \in Seq(StreamBytes) /\ Len(data') = PadSize
  <2>1. One \in StreamBytes /\ Zero \in StreamBytes
    BY DEF StreamBytes
  <2>2. [k \in 1 .. PadSize |-> IF k = 1 THEN One ELSE Zero] \in [1 .. PadSize -> StreamBytes]
    BY <2>1
  <2> QED BY <1>1, <1>4, <2>2
<1>6. \A k \in 1 .. Len(data') : data'[k] = Stream(alg, Name, Size, bytes + k)
  <2> SUFFICES ASSUME NEW k \in 1 .. PadSize
               PROVE  data'[k] = Stream(alg, Name, Size, bytes + k)
    BY <1>5
  <2>1. data'[k] = IF k = 1 THEN One ELSE Zero
    BY <1>1
  <2>2. /\ ~(bytes + k <= Size) /\ (bytes + k = Size + 1 <=> k = 1)
        /\ bytes + k <= Size + PadOf(alg, Size)
    BY <1>2, <1>4
  <2> QED BY <2>1, <2>2 DEF Stream
<1>7. bytes + Len(data') = Added'
  BY <1>1, <1>2, <1>4, <1>5 DEF Added
<1> QED BY <1>1, <1>2, <1>3, <1>5, <1>6, <1>7, AddStep

LEMMA AddLengthStep == ASSUME Sha2Inv, AddLength PROVE Sha2Inv'
<1>1. /\ stage = "padding" /\ stage' = "length" /\ pc = "idle" /\ pc' = "fill"
      /\ data' = Length(sizedesc)
      /\ UNCHANGED <<alg, bytes, buf, blocks, once, sizedesc, size>>
  BY DEF AddLength, Add
<1>2. /\ Size \in Nat /\ sizedesc = Size /\ bytes = Size + PadOf(alg, Size) /\ Size' = Size
      /\ PadOf(alg, Size) \in Nat \ {0}
  <2>1. /\ sizedesc = Size /\ data = <<>> /\ Size' = Size
        /\ bytes + Len(data) = Size + PadOf(alg, Size)
    BY <1>1 DEF Sha2Inv, StageInv, DataInv, Added, Size
  <2>2. /\ Size \in Nat /\ bytes \in Nat /\ PadOf(alg, Size) \in 1 .. alg.block
        /\ alg.block \in {64, 128}
    BY Sizes
  <2>3. PadOf(alg, Size) \in Nat \ {0}
    BY <2>2
  <2>4. bytes = Size + PadOf(alg, Size)
    BY <2>1, <2>2
  <2> QED BY <2>1, <2>2, <2>3, <2>4
<1>3. NumbersInv' /\ StageInv'
  BY <1>1, <1>2 DEF Sha2Inv, NumbersInv, StageInv
<1>4. LenBytes = alg.length /\ LenBytes \in Nat
  <2>1. alg.length \in {8, 16}
    BY Sizes
  <2> QED BY <2>1 DEF LenBytes
<1>5. data' \in Seq(StreamBytes) /\ Len(data') = LenBytes
  <2>1. \A k \in 1 .. LenBytes : <<"length", Size, k>> \in StreamBytes
    BY <1>2, <1>4 DEF StreamBytes
  <2>2. [k \in 1 .. LenBytes |-> <<"length", Size, k>>] \in [1 .. LenBytes -> StreamBytes]
    BY <2>1
  <2> QED BY <1>1, <1>2, <1>4, <2>2 DEF Length
<1>6. \A k \in 1 .. Len(data') : data'[k] = Stream(alg, Name, Size, bytes + k)
  <2> SUFFICES ASSUME NEW k \in 1 .. LenBytes
               PROVE  data'[k] = Stream(alg, Name, Size, bytes + k)
    BY <1>5
  <2>1. data'[k] = <<"length", Size, k>>
    BY <1>1, <1>2 DEF Length
  <2>2. /\ ~(bytes + k <= Size) /\ bytes + k # Size + 1 /\ ~(bytes + k <= Size + PadOf(alg, Size))
        /\ bytes + k - (Size + PadOf(alg, Size)) = k
    BY <1>2, <1>4
  <2>3. PICK p : p = bytes + k
    OBVIOUS
  <2>4. Stream(alg, Name, Size, p) = <<"length", Size, p - (Size + PadOf(alg, Size))>>
    BY <2>2, <2>3 DEF Stream
  <2>5. p - (Size + PadOf(alg, Size)) = k
    BY <1>2, <1>4, <2>2, <2>3
  <2> QED BY <2>1, <2>3, <2>4, <2>5
<1>7. bytes + Len(data') = Added'
  BY <1>1, <1>2, <1>4, <1>5 DEF Added, Whole
<1> QED BY <1>1, <1>2, <1>3, <1>5, <1>6, <1>7, AddStep

LEMMA DigestStep == ASSUME Sha2Inv, Digest PROVE Sha2Inv'
<1>1. /\ pc = "idle" /\ stage = "length" /\ stage' = "digest"
      /\ UNCHANGED <<alg, bytes, buf, blocks, data, once, sizedesc, size, pc>>
  BY DEF Digest
<1>2. Size' = Size /\ Name' = Name /\ bufsize' = bufsize
  BY <1>1 DEF Size, Name, bufsize, Block
<1>3. NumbersInv' /\ StageInv'
  BY <1>1, <1>2 DEF Sha2Inv, NumbersInv, StageInv
<1>4. DataInv'
  <2>1. Added' = Added
    BY <1>1, <1>2 DEF Added
  <2> QED BY <1>1, <1>2, <2>1 DEF Sha2Inv, DataInv
<1>5. BufferInv'
  BY <1>1, <1>2 DEF Sha2Inv, BufferInv
<1>6. BlocksInv'
  BY <1>1, <1>2 DEF Sha2Inv, BlocksInv
<1> QED BY <1>3, <1>4, <1>5, <1>6 DEF Sha2Inv

(* A digest has been made of at least one block. *)
LEMMA SomeBlock ==
  ASSUME NEW a \in Algs, NEW l \in Nat, NEW name
  PROVE  Blocks(a, name, l, Whole(a, l) \div a.block) # <<>>
<1> DEFINE w == Whole(a, l)
           q == w \div a.block
<1>1. a.block \in Nat \ {0} /\ a.length \in Nat \ {0}
  BY AlgFacts
<1>2. w \in Nat /\ w # 0 /\ w % a.block = 0
  <2>1. PadOf(a, l) \in 1 .. a.block /\ w \in Nat /\ w % a.block = 0
    BY Padding
  <2>2. w # 0
    BY <1>1, <2>1 DEF Whole
  <2> QED BY <2>1, <2>2
<1>3. q \in Nat /\ q # 0
  <2> HIDE DEF w
  <2>1. w \div a.block \in Nat /\ w = a.block * (w \div a.block) + (w % a.block)
    BY <1>1, <1>2, Division
  <2>2. q # 0
    BY <1>1, <1>2, <2>1
  <2> QED BY <2>1, <2>2
<1> HIDE DEF q
<1>4. 1 \in DOMAIN Blocks(a, name, l, q)
  BY <1>3 DEF Blocks
<1> QED BY <1>4 DEF q

LEMMA AgainStep == ASSUME Sha2Inv, Again PROVE Sha2Inv'
<1>1. /\ pc = "idle" /\ stage = "digest" /\ once = <<>>
      /\ once' = blocks /\ blocks' = <<>> /\ bytes' = 0 /\ stage' = "again"
      /\ pc' = "fill" /\ data' = DigestBytes /\ UNCHANGED <<alg, sizedesc, size>>
  BY DEF Again, Add
<1>2. /\ alg \in Algs /\ size \in Nat /\ Name = "message" /\ Size = size
      /\ bytes = Whole(alg, size)
  <2>1. alg \in Algs /\ size \in Nat /\ Name = "message" /\ Size = size /\ bytes \in Nat
    BY <1>1 DEF Sha2Inv, NumbersInv, Name, Size
  <2>2. data = <<>> /\ bytes + Len(data) = Whole(alg, size)
    BY <1>1, <2>1 DEF Sha2Inv, DataInv, Added
  <2> QED BY <2>1, <2>2
<1>3. /\ once' = Blocks(alg, "message", size, Whole(alg, size) \div alg.block)
      /\ once' # <<>> /\ Name' = "digest" /\ Size' = 32
  <2>1. once' = Blocks(alg, "message", size, Whole(alg, size) \div alg.block)
    BY <1>1, <1>2 DEF Sha2Inv, BlocksInv
  <2>2. once' # <<>>
    BY <1>2, <2>1, SomeBlock
  <2> QED BY <2>1, <2>2 DEF Name, Size
<1>4. NumbersInv' /\ StageInv'
  BY <1>1, <1>2, <1>3 DEF Sha2Inv, NumbersInv, StageInv
<1>5. DataInv'
  <2>1. \A k \in 1 .. 32 : <<"digest", k>> \in StreamBytes
    BY DEF StreamBytes
  <2>2. [k \in 1 .. 32 |-> <<"digest", k>>] \in [1 .. 32 -> StreamBytes]
    BY <2>1
  <2>3. /\ data' \in Seq(StreamBytes) /\ Len(data') = 32
        /\ \A k \in 1 .. 32 : data'[k] = <<"digest", k>>
    BY <1>1, <2>2 DEF DigestBytes
  <2>4. \A k \in 1 .. 32 : data'[k] = Stream(alg, "digest", 32, 0 + k)
    <3> SUFFICES ASSUME NEW k \in 1 .. 32 PROVE data'[k] = Stream(alg, "digest", 32, 0 + k)
      OBVIOUS
    <3>1. 0 + k = k /\ k <= 32
      OBVIOUS
    <3>2. Stream(alg, "digest", 32, k) = <<"digest", k>>
      BY <3>1 DEF Stream
    <3> QED BY <2>3, <3>1, <3>2
  <2>5. Added' = 32
    BY <1>1, <1>3 DEF Added
  <2> QED BY <1>1, <1>3, <2>3, <2>4, <2>5 DEF DataInv
<1>6. alg' = alg /\ alg.block \in Nat \ {0} /\ bytes' \div alg.block = 0 /\ bytes' % alg.block = 0
  BY <1>1, <1>2, AlgFacts
<1>7. BufferInv'
  <2>1. bufsize' = 0
    BY <1>6 DEF bufsize, Block
  <2> QED BY <2>1 DEF BufferInv
<1>8. BlocksInv'
  BY <1>1, <1>6 DEF BlocksInv, Blocks
<1> QED BY <1>4, <1>5, <1>7, <1>8 DEF Sha2Inv
------------------------------------------------------------------------------
(* While add() works, the message and what has been added stay as they are. *)
LEMMA Working ==
  ASSUME Sha2Inv, pc \in {"fill", "chunks"}, UNCHANGED <<alg, once, sizedesc, size, stage>>,
         pc' \in {"idle", "chunks"}, bytes' \in Nat
  PROVE  /\ NumbersInv' /\ StageInv'
         /\ Name' = Name /\ Size' = Size /\ Added' = Added /\ Block' = Block
<1>1. Name' = Name /\ Size' = Size /\ Block' = Block
  BY DEF Name, Size, Block
<1>2. Added' = Added
  BY <1>1 DEF Added
<1>3. NumbersInv'
  BY DEF Sha2Inv, NumbersInv
<1>4. StageInv'
  BY <1>1 DEF Sha2Inv, StageInv
<1> QED BY <1>1, <1>2, <1>3, <1>4

(* The next block of the stream, when it is transformed. *)
LEMMA TransformStep ==
  ASSUME Sha2Inv, NEW block, NEW n \in Nat, Transform(block), UNCHANGED <<alg, once, size>>,
         bytes' = bytes + n, bufsize + n = Block,
         \A k \in 1 .. Block : block[k] = Stream(alg, Name, Size, bytes - bufsize + k)
  PROVE  BlocksInv' /\ BufferInv' /\ bufsize' = 0
<1> DEFINE q == bytes \div Block
<1>1. /\ alg \in Algs /\ Block \in Nat \ {0} /\ Block = alg.block /\ bytes \in Nat
      /\ bufsize \in 0 .. Block - 1 /\ q \in Nat /\ bytes = Block * q + bufsize
  <2>1. Block \in Nat \ {0}
    <3>1. Block = alg.block /\ alg.block \in {64, 128}
      BY Sizes
    <3> QED BY <3>1
  <2> QED BY <2>1, Sizes
<1> HIDE DEF q
<1>2. bytes' \div Block = q + 1 /\ bytes' % Block = 0
  <2>1. /\ q + 1 \in Nat /\ 0 \in 0 .. Block - 1
        /\ bytes + n \in Nat /\ bytes + n = (q + 1) * Block + 0
    BY <1>1
  <2>2. (bytes + n) \div Block = q + 1 /\ (bytes + n) % Block = 0
    BY <1>1, <2>1, Quotient
  <2> QED BY <2>2
<1>3. [k \in 1 .. Block |-> block[k]] = BlockOf(alg, Name, Size, q + 1)
  <2>1. ASSUME NEW k \in 1 .. Block
        PROVE  block[k] = Stream(alg, Name, Size, (q + 1 - 1) * Block + k)
    <3>1. (q + 1 - 1) * Block + k = bytes - bufsize + k
      BY <1>1
    <3> QED BY <3>1
  <2> QED BY <1>1, <2>1 DEF BlockOf
<1>4. Name' = Name /\ Size' = Size /\ Block' = Block
  BY DEF Name, Size, Block
<1>5. bufsize' = 0
  BY <1>2, <1>4 DEF bufsize
<1>6. BufferInv'
  BY <1>5 DEF BufferInv
<1>7. BlocksInv'
  <2>1. blocks = Blocks(alg, Name, Size, q)
    BY <1>1 DEF Sha2Inv, BlocksInv, q
  <2>2. blocks' = Append(blocks, BlockOf(alg, Name, Size, q + 1))
    BY <1>3 DEF Transform
  <2>3. blocks' = Blocks(alg, Name, Size, q + 1)
    BY <1>1, <2>1, <2>2, AppendsBlock
  <2>4. bytes' \div alg'.block = q + 1
    BY <1>1, <1>2
  <2> QED BY <1>4, <2>3, <2>4 DEF BlocksInv
<1> QED BY <1>5, <1>6, <1>7

(* The rest of a piece, when n bytes of it have been taken. *)
LEMMA Rest ==
  ASSUME Sha2Inv, NEW n \in 0 .. Len(data)
  PROVE  LET rest == SubSeq(data, n + 1, Len(data)) IN
         /\ rest \in Seq(StreamBytes) /\ bytes + n + Len(rest) = Added
         /\ \A k \in 1 .. Len(rest) : rest[k] = Stream(alg, Name, Size, bytes + n + k)
<1> DEFINE rest == SubSeq(data, n + 1, Len(data))
<1>1. /\ data \in Seq(StreamBytes) /\ bytes + Len(data) = Added /\ bytes \in Nat
      /\ \A k \in 1 .. Len(data) : data[k] = Stream(alg, Name, Size, bytes + k)
  BY DEF Sha2Inv, NumbersInv, DataInv
<1>2. /\ rest \in Seq(StreamBytes) /\ Len(rest) = Len(data) - n
      /\ \A k \in 1 .. Len(data) - n : rest[k] = data[n + k]
  BY <1>1
<1>3. ASSUME NEW k \in 1 .. Len(data) - n PROVE rest[k] = Stream(alg, Name, Size, bytes + n + k)
  <2>1. n + k \in 1 .. Len(data) /\ bytes + (n + k) = bytes + n + k
    BY <1>1
  <2>2. data[n + k] = Stream(alg, Name, Size, bytes + (n + k))
    BY <1>1, <2>1
  <2> QED BY <1>2, <2>1, <2>2
<1> HIDE DEF rest
<1>4. bytes + n + Len(rest) = Added
  BY <1>1, <1>2
<1> QED BY <1>2, <1>3, <1>4 DEF rest

LEMMA FillStep == ASSUME Sha2Inv, Fill PROVE Sha2Inv'
<1>1. /\ pc = "fill" /\ pc' = "chunks" /\ UNCHANGED <<alg, once, sizedesc, size, stage>>
  BY DEF Fill
<1>2. /\ alg \in Algs /\ Block \in Nat \ {0} /\ bytes \in Nat /\ bufsize \in 0 .. Block - 1
      /\ Len(data) \in Nat
  <2>1. Block = alg.block /\ alg.block \in {64, 128}
    BY Sizes
  <2>2. Block \in Nat \ {0}
    BY <2>1
  <2> QED BY <2>2, Sizes
<1>3. CASE BufferFills
  <2> DEFINE room == Block - bufsize
             rest == SubSeq(data, room + 1, Len(data))
  <2>1. /\ buf' = Copied(SubSeq(data, 1, room)) /\ Transform(buf')
        /\ bytes' = bytes + room /\ data' = rest
    BY <1>3 DEF Fill
  <2>2. /\ room \in Nat /\ bufsize + room = Block /\ room \in 0 .. Len(data) /\ bytes + room \in Nat
    BY <1>2, <1>3 DEF BufferFills
  <2>3. /\ rest \in Seq(StreamBytes) /\ bytes + room + Len(rest) = Added
        /\ \A k \in 1 .. Len(rest) : rest[k] = Stream(alg, Name, Size, bytes + room + k)
    <3> HIDE DEF room
    <3> QED BY <2>2, Rest
  <2> HIDE DEF rest
  <2>4. PICK block : block = buf'
    OBVIOUS
  <2>5. ASSUME NEW k \in 1 .. Block PROVE block[k] = Stream(alg, Name, Size, bytes - bufsize + k)
    <3> DEFINE piece == SubSeq(data, 1, room)
    <3>1. /\ data \in Seq(StreamBytes)
          /\ \A j \in 1 .. Len(data) : data[j] = Stream(alg, Name, Size, bytes + j)
      BY DEF Sha2Inv, DataInv
    <3>2. Len(piece) = room /\ \A j \in 1 .. room : piece[j] = data[j]
      BY <2>2, <3>1
    <3>3. CASE k <= bufsize
      <4>1. k \in 1 .. bufsize /\ k \notin bufsize + 1 .. bufsize + Len(piece)
        BY <1>2, <3>3
      <4>2. k \in DOMAIN buf /\ buf[k] = Stream(alg, Name, Size, bytes - bufsize + k)
        BY <4>1 DEF Sha2Inv, BufferInv
      <4> HIDE DEF piece
      <4>3. Copied(piece)[k] = buf[k]
        BY <4>1, <4>2 DEF Copied
      <4> QED BY <2>1, <2>4, <4>2, <4>3 DEF piece
    <3>4. CASE ~(k <= bufsize)
      <4> DEFINE j == k - bufsize
      <4>1. /\ k \in bufsize + 1 .. bufsize + Len(piece) /\ j \in 1 .. room /\ j \in 1 .. Len(data)
            /\ bytes + j = bytes - bufsize + k
        BY <1>2, <2>2, <3>2, <3>4
      <4>2. piece[j] = Stream(alg, Name, Size, bytes + j)
        <5> HIDE DEF j, piece
        <5> QED BY <3>1, <3>2, <4>1
      <4> HIDE DEF piece
      <4>3. Copied(piece)[k] = piece[j]
        BY <4>1 DEF Copied
      <4> QED BY <2>1, <2>4, <4>1, <4>2, <4>3 DEF piece
    <3> QED BY <3>3, <3>4
  <2>6. BlocksInv' /\ BufferInv' /\ bufsize' = 0
    <3>1. Transform(block)
      BY <2>1, <2>4
    <3> HIDE DEF room
    <3> QED BY <1>1, <2>1, <2>2, <2>5, <3>1, TransformStep
  <2>7. NumbersInv' /\ StageInv' /\ Name' = Name /\ Size' = Size /\ Added' = Added
    BY <1>1, <2>1, <2>2, Working
  <2>8. DataInv'
    BY <1>1, <2>1, <2>3, <2>6, <2>7 DEF DataInv
  <2> QED BY <2>6, <2>7, <2>8 DEF Sha2Inv
<1>4. CASE ~BufferFills
  <2>1. UNCHANGED <<bytes, buf, blocks, data>>
    BY <1>4 DEF Fill
  <2>2. bufsize = 0 \/ bufsize + Len(data) < alg.block
    <3>1. Block = alg.block
      BY DEF Block
    <3> QED BY <1>2, <1>4, <3>1 DEF BufferFills
  <2>3. /\ NumbersInv' /\ StageInv' /\ Name' = Name /\ Size' = Size /\ Added' = Added
        /\ bufsize' = bufsize
    <3>1. bufsize' = bufsize
      BY <1>1, <2>1 DEF bufsize, Block
    <3> QED BY <1>1, <1>2, <2>1, <3>1, Working
  <2>4. DataInv'
    BY <1>1, <2>1, <2>2, <2>3 DEF Sha2Inv, DataInv
  <2>5. BufferInv'
    BY <1>1, <2>1, <2>3 DEF Sha2Inv, BufferInv
  <2>6. BlocksInv'
    BY <1>1, <2>1, <2>3 DEF Sha2Inv, BlocksInv
  <2> QED BY <2>3, <2>4, <2>5, <2>6 DEF Sha2Inv
<1> QED BY <1>3, <1>4

LEMMA ChunkStep == ASSUME Sha2Inv, Chunk PROVE Sha2Inv'
<1>1. /\ pc = "chunks" /\ Len(data) >= Block /\ Transform(data) /\ bytes' = bytes + Block
      /\ data' = SubSeq(data, Block + 1, Len(data))
      /\ UNCHANGED <<alg, buf, once, sizedesc, size, pc, stage>>
  BY DEF Chunk
<1>2. /\ Block \in Nat \ {0} /\ Block = alg.block /\ bytes \in Nat /\ bufsize \in 0 .. Block - 1
      /\ Len(data) \in Nat
  <2>1. Block = alg.block /\ alg.block \in {64, 128}
    BY Sizes
  <2>2. Block \in Nat \ {0}
    BY <2>1
  <2> QED BY <2>1, <2>2, Sizes
<1>3. bufsize = 0 /\ Block \in 0 .. Len(data)
  <2>1. bufsize = 0 \/ bufsize + Len(data) < Block
    BY <1>1, <1>2 DEF Sha2Inv, DataInv
  <2> QED BY <1>1, <1>2, <2>1
<1>4. /\ data' \in Seq(StreamBytes) /\ bytes + Block + Len(data') = Added
      /\ \A k \in 1 .. Len(data') : data'[k] = Stream(alg, Name, Size, bytes + Block + k)
  BY <1>1, <1>3, Rest
<1>5. \A k \in 1 .. Block : data[k] = Stream(alg, Name, Size, bytes - bufsize + k)
  <2>1. \A k \in 1 .. Len(data) : data[k] = Stream(alg, Name, Size, bytes + k)
    BY DEF Sha2Inv, DataInv
  <2>2. \A k \in 1 .. Block : k \in 1 .. Len(data) /\ bytes - bufsize + k = bytes + k
    BY <1>1, <1>2, <1>3
  <2> QED BY <2>1, <2>2
<1>6. BlocksInv' /\ BufferInv' /\ bufsize' = 0
  <2>1. PICK block : block = data
    OBVIOUS
  <2>2. /\ Transform(block)
        /\ \A k \in 1 .. Block : block[k] = Stream(alg, Name, Size, bytes - bufsize + k)
    BY <1>1, <1>5, <2>1
  <2>3. bufsize + Block = Block /\ Block \in Nat
    BY <1>2, <1>3
  <2> QED BY <1>1, <2>2, <2>3, TransformStep
<1>7. NumbersInv' /\ StageInv' /\ Name' = Name /\ Size' = Size /\ Added' = Added
  <2>1. bytes' \in Nat
    <3>1. bytes' = bytes + Block
      BY <1>1
    <3>2. bytes \in Nat /\ Block \in Nat
      BY <1>2
    <3> QED BY ONLY <3>1, <3>2
  <2> QED BY <1>1, <2>1, Working
<1>8. DataInv'
  BY <1>1, <1>4, <1>6, <1>7 DEF DataInv
<1> QED BY <1>6, <1>7, <1>8 DEF Sha2Inv

LEMMA RemainderStep == ASSUME Sha2Inv, Remainder PROVE Sha2Inv'
<1> DEFINE q == bytes \div Block
<1>1. /\ pc = "chunks" /\ pc' = "idle" /\ Len(data) < Block /\ buf' = Copied(data)
      /\ bytes' = bytes + Len(data) /\ data' = <<>>
      /\ UNCHANGED <<alg, blocks, once, sizedesc, size, stage>>
  BY DEF Remainder
<1>2. /\ Block \in Nat \ {0} /\ Block = alg.block /\ bytes \in Nat /\ bufsize \in 0 .. Block - 1
      /\ Len(data) \in Nat /\ q \in Nat /\ bytes = Block * q + bufsize
  <2>1. Block = alg.block /\ alg.block \in {64, 128}
    BY Sizes
  <2>2. Block \in Nat \ {0}
    BY <2>1
  <2> QED BY <2>1, <2>2, Sizes
<1> HIDE DEF q
<1>3. bufsize + Len(data) \in 0 .. Block - 1
  <2>1. bufsize = 0 \/ bufsize + Len(data) < Block
    BY <1>1, <1>2 DEF Sha2Inv, DataInv
  <2>2. bufsize + Len(data) < Block
    <3>1. bufsize \in Nat /\ Len(data) \in Nat /\ Block \in Nat /\ Len(data) < Block
      BY <1>1, <1>2
    <3> QED BY <2>1, <3>1
  <2> QED BY <1>2, <2>2
<1>4. NumbersInv' /\ StageInv' /\ Name' = Name /\ Size' = Size /\ Added' = Added /\ Block' = Block
  <2>1. bytes' \in Nat
    <3>1. bytes' = bytes + Len(data)
      BY <1>1
    <3>2. bytes \in Nat /\ Len(data) \in Nat
      BY <1>2
    <3> QED BY ONLY <3>1, <3>2
  <2> QED BY <1>1, <2>1, Working
<1>5. bytes' \div Block = q /\ bufsize' = bufsize + Len(data)
  <2>1. PICK x \in Nat : x = bytes + Len(data)
    BY <1>2
  <2>2. PICK rest \in 0 .. Block - 1 : rest = bufsize + Len(data)
    BY <1>3
  <2>3. x = q * Block + rest
    <3>1. /\ Block \in Nat /\ bytes \in Nat /\ bufsize \in Nat /\ Len(data) \in Nat /\ q \in Nat
          /\ bytes = Block * q + bufsize /\ x = bytes + Len(data) /\ rest = bufsize + Len(data)
      BY <1>2, <2>1, <2>2
    <3> QED BY ONLY <3>1
  <2>4. x \div Block = q /\ x % Block = rest
    BY <1>2, <2>3, Quotient
  <2> QED BY <1>1, <1>4, <2>1, <2>2, <2>4 DEF bufsize
<1>6. DataInv'
  <2>1. bytes + Len(data) = Added
    BY DEF Sha2Inv, DataInv
  <2>2. <<>> \in Seq(StreamBytes) /\ Len(<<>>) = 0
    OBVIOUS
  <2> QED BY <1>1, <1>2, <1>4, <2>1, <2>2 DEF DataInv
<1>7. BufferInv'
  <2> SUFFICES ASSUME NEW k \in 1 .. bufsize'
               PROVE  k \in DOMAIN buf' /\ buf'[k] = Stream(alg, Name, Size, bytes' - bufsize' + k)
    BY <1>1, <1>4 DEF BufferInv
  <2>1. bytes' - bufsize' + k = bytes - bufsize + k
    BY <1>1, <1>2, <1>5
  <2>2. CASE k <= bufsize
    <3>1. k \in 1 .. bufsize /\ k \notin bufsize + 1 .. bufsize + Len(data)
      BY <1>2, <1>5, <2>2
    <3>2. k \in DOMAIN buf /\ buf[k] = Stream(alg, Name, Size, bytes - bufsize + k)
      BY <3>1 DEF Sha2Inv, BufferInv
    <3> QED BY <1>1, <2>1, <3>1, <3>2 DEF Copied
  <2>3. CASE ~(k <= bufsize)
    <3> DEFINE j == k - bufsize
    <3>1. /\ k \in bufsize + 1 .. bufsize + Len(data) /\ j \in 1 .. Len(data)
          /\ bytes + j = bytes - bufsize + k
      BY <1>2, <1>5, <2>3
    <3>2. buf'[k] = data[j] /\ k \in DOMAIN buf'
      BY <1>1, <3>1 DEF Copied
    <3> HIDE DEF j
    <3>3. data[j] = Stream(alg, Name, Size, bytes + j)
      BY <3>1 DEF Sha2Inv, DataInv
    <3> QED BY <2>1, <3>1, <3>2, <3>3
  <2> QED BY <2>2, <2>3
<1>8. BlocksInv'
  BY <1>1, <1>2, <1>4, <1>5 DEF Sha2Inv, BlocksInv, q
<1> QED BY <1>4, <1>6, <1>7, <1>8 DEF Sha2Inv

LEMMA Stutters == ASSUME Sha2Inv, UNCHANGED vars PROVE Sha2Inv'
<1>1. UNCHANGED <<alg, bytes, buf, blocks, data, once, sizedesc, size, pc, stage>>
  BY DEF vars
<1>2. Name' = Name /\ Size' = Size /\ bufsize' = bufsize
  BY <1>1 DEF Name, Size, bufsize, Block
<1>3. Added' = Added
  BY <1>1, <1>2 DEF Added
<1>4. NumbersInv' /\ StageInv'
  BY <1>1, <1>2 DEF Sha2Inv, NumbersInv, StageInv
<1>5. DataInv'
  BY <1>1, <1>2, <1>3 DEF Sha2Inv, DataInv
<1>6. BufferInv' /\ BlocksInv'
  BY <1>1, <1>2 DEF Sha2Inv, BufferInv, BlocksInv
<1> QED BY <1>4, <1>5, <1>6 DEF Sha2Inv

LEMMA EveryStep == ASSUME PiecesFit, Sha2Inv, [Next]_vars PROVE Sha2Inv'
BY UpdateStep, FillStep, ChunkStep, RemainderStep, FinalizeStep, AddLengthStep, DigestStep,
   AgainStep, Stutters DEF Next

(* What has been transformed, what is in the buffer and what is left of a  *)
(* piece are the stream of the padded message, in every state of add().    *)
THEOREM Sha2Invariant == ASSUME PiecesFit PROVE Spec => []Sha2Inv
<1>1. Init => Sha2Inv
  BY Begins
<1>2. Sha2Inv /\ [Next]_vars => Sha2Inv'
  BY EveryStep
<1> QED BY <1>1, <1>2, PTL DEF Spec
------------------------------------------------------------------------------
(* The stream is the padded message of FIPS 180-4. *)
LEMMA PaddedIsStream ==
  ASSUME alg \in Algs, NEW name \in {"message", "digest"}, NEW l \in Nat,
         NEW m, m = [k \in 1 .. l |-> <<name, k>>]
  PROVE  /\ Padded(m) \in Seq(StreamBytes) /\ Len(Padded(m)) = Whole(alg, l)
         /\ \A p \in 1 .. Whole(alg, l) : Padded(m)[p] = Stream(alg, name, l, p)
<1> DEFINE pad == PadOf(alg, l)
           zeros == [k \in 1 .. pad - 1 |-> Zero]
           len == Length(l)
<1>1. /\ Block \in Nat \ {0} /\ LenBytes \in Nat \ {0} /\ pad \in 1 .. Block
      /\ Block = alg.block /\ LenBytes = alg.length
  <2>1. \/ alg.block = 64 /\ alg.length = 8
        \/ alg.block = 128 /\ alg.length = 16
    BY AlgFacts
  <2>2. PadOf(alg, l) \in 1 .. alg.block
    BY Padding
  <2> QED BY <2>1, <2>2 DEF Block, LenBytes
<1>2. \A k \in 1 .. l : <<name, k>> \in StreamBytes
  BY DEF StreamBytes
<1>3. m \in Seq(StreamBytes) /\ Len(m) = l /\ \A k \in 1 .. l : m[k] = <<name, k>>
  <2>1. [k \in 1 .. l |-> <<name, k>>] \in [1 .. l -> StreamBytes]
    BY <1>2
  <2> QED BY <2>1
<1>4. (CHOOSE z \in 0 .. Block - 1 : (Len(m) + 1 + z + LenBytes) % Block = 0) = pad - 1
  <2>1. pad - 1 \in 0 .. Block - 1 /\ (l + 1 + (pad - 1) + LenBytes) % Block = 0
    <3>1. pad - 1 \in 0 .. Block - 1 /\ l + 1 + (pad - 1) + LenBytes = Whole(alg, l)
      BY <1>1 DEF Whole
    <3>2. Whole(alg, l) % alg.block = 0
      BY Padding
    <3> QED BY <1>1, <3>1, <3>2
  <2>2. \A z \in 0 .. Block - 1 : (l + 1 + z + LenBytes) % Block = 0 => z = pad - 1
    <3>1. \A z \in 0 .. alg.block - 1 : (l + 1 + z + alg.length) % alg.block = 0 => z = pad - 1
      BY Padding
    <3> QED BY <1>1, <3>1
  <2> HIDE DEF pad
  <2> QED BY <1>3, <2>1, <2>2
<1>5. Padded(m) = ((m \o <<One>>) \o zeros) \o len
  BY <1>3, <1>4 DEF Padded
<1>6. zeros \in Seq(StreamBytes) /\ Len(zeros) = pad - 1 /\ \A k \in 1 .. pad - 1 : zeros[k] = Zero
  <2>1. Zero \in StreamBytes /\ pad - 1 \in Nat
    BY <1>1 DEF StreamBytes
  <2> HIDE DEF pad
  <2>2. [k \in 1 .. pad - 1 |-> Zero] \in [1 .. pad - 1 -> StreamBytes]
    BY <2>1
  <2> QED BY <2>1, <2>2
<1>7. /\ len \in Seq(StreamBytes) /\ Len(len) = LenBytes
      /\ \A k \in 1 .. LenBytes : len[k] = <<"length", l, k>>
  <2>1. \A k \in 1 .. LenBytes : <<"length", l, k>> \in StreamBytes
    BY <1>1 DEF StreamBytes
  <2>2. [k \in 1 .. LenBytes |-> <<"length", l, k>>] \in [1 .. LenBytes -> StreamBytes]
    BY <2>1
  <2>3. LenBytes \in Nat
    BY <1>1
  <2>4. len = [k \in 1 .. LenBytes |-> <<"length", l, k>>]
    BY DEF Length
  <2> HIDE DEF len
  <2> QED BY <2>2, <2>3, <2>4
<1>8. <<One>> \in Seq(StreamBytes) /\ Len(<<One>>) = 1 /\ <<One>>[1] = One
  BY DEF StreamBytes
<1> HIDE DEF pad, zeros, len
<1>9. /\ m \o <<One>> \in Seq(StreamBytes) /\ Len(m \o <<One>>) = l + 1
      /\ \A p \in 1 .. l + 1 : (m \o <<One>>)[p] = IF p <= l THEN <<name, p>> ELSE One
  BY <1>3, <1>8
<1>10. PICK u : u = m \o <<One>>
  OBVIOUS
<1>11. /\ u \o zeros \in Seq(StreamBytes) /\ Len(u \o zeros) = l + pad
       /\ \A p \in 1 .. l + pad :
            (u \o zeros)[p] = IF p <= l THEN <<name, p>> ELSE IF p = l + 1 THEN One ELSE Zero
  <2>1. /\ u \in Seq(StreamBytes) /\ Len(u) = l + 1
        /\ \A p \in 1 .. l + 1 : u[p] = IF p <= l THEN <<name, p>> ELSE One
    BY <1>9, <1>10
  <2>2. /\ u \o zeros \in Seq(StreamBytes) /\ Len(u \o zeros) = Len(u) + Len(zeros)
        /\ \A p \in 1 .. Len(u) + Len(zeros) :
             (u \o zeros)[p] = IF p <= Len(u) THEN u[p] ELSE zeros[p - Len(u)]
    BY <1>6, <2>1, ConcatProperties
  <2>3. Len(u) + Len(zeros) = l + pad /\ pad \in Nat \ {0}
    BY <1>1, <1>6, <2>1
  <2>4. ASSUME NEW p \in 1 .. l + pad
        PROVE  (u \o zeros)[p] = IF p <= l THEN <<name, p>> ELSE IF p = l + 1 THEN One ELSE Zero
    <3>1. (u \o zeros)[p] = IF p <= l + 1 THEN u[p] ELSE zeros[p - (l + 1)]
      BY <2>1, <2>2, <2>3
    <3>2. CASE p <= l + 1
      <4>1. p \in 1 .. l + 1 /\ (p = l + 1 <=> ~(p <= l))
        BY <3>2
      <4> QED BY <2>1, <3>1, <3>2, <4>1
    <3>3. CASE ~(p <= l + 1)
      <4>1. p - (l + 1) \in 1 .. pad - 1 /\ ~(p <= l) /\ p # l + 1
        BY <2>3, <3>3
      <4> QED BY <1>6, <3>1, <3>3, <4>1
    <3> QED BY <3>2, <3>3
  <2> QED BY <2>2, <2>3, <2>4
<1>12. PICK v : v = u \o zeros
  OBVIOUS
<1>13. /\ v \o len \in Seq(StreamBytes) /\ Len(v \o len) = Whole(alg, l)
       /\ \A p \in 1 .. Whole(alg, l) : (v \o len)[p] = Stream(alg, name, l, p)
  <2>1. /\ v \in Seq(StreamBytes) /\ Len(v) = l + pad
        /\ \A p \in 1 .. l + pad :
             v[p] = IF p <= l THEN <<name, p>> ELSE IF p = l + 1 THEN One ELSE Zero
    BY <1>11, <1>12
  <2>5. /\ v \o len \in Seq(StreamBytes) /\ Len(v \o len) = Len(v) + Len(len)
        /\ \A p \in 1 .. Len(v) + Len(len) :
             (v \o len)[p] = IF p <= Len(v) THEN v[p] ELSE len[p - Len(v)]
    BY <1>7, <2>1, ConcatProperties
  <2>2. /\ v \o len \in Seq(StreamBytes) /\ Len(v \o len) = l + pad + LenBytes
        /\ \A p \in 1 .. l + pad + LenBytes :
             (v \o len)[p] = IF p <= l + pad THEN v[p] ELSE len[p - (l + pad)]
    BY <1>1, <1>7, <2>1, <2>5
  <2>3. Whole(alg, l) = l + pad + LenBytes
    BY <1>1 DEF Whole, pad
  <2>4. ASSUME NEW p \in 1 .. l + pad + LenBytes PROVE (v \o len)[p] = Stream(alg, name, l, p)
    <3>1. CASE p <= l + pad
      <4>1. (v \o len)[p] = IF p <= l THEN <<name, p>> ELSE IF p = l + 1 THEN One ELSE Zero
        <5>1. p \in 1 .. l + pad /\ (v \o len)[p] = v[p]
          BY <1>1, <2>2, <3>1
        <5> QED BY <2>1, <5>1
      <4> QED BY <3>1, <4>1 DEF Stream, pad
    <3>2. CASE ~(p <= l + pad)
      <4>1. p - (l + pad) \in 1 .. LenBytes /\ ~(p <= l) /\ p # l + 1
        BY <1>1, <3>2
      <4>2. (v \o len)[p] = <<"length", l, p - (l + pad)>>
        BY <1>7, <2>2, <3>2, <4>1
      <4> QED BY <3>2, <4>1, <4>2 DEF Stream, pad
    <3> QED BY <3>1, <3>2
  <2> QED BY <2>2, <2>3, <2>4
<1> QED BY <1>5, <1>10, <1>12, <1>13

(* The last byte of a block is in the message that has the block. *)
LEMMA BlockEnds ==
  ASSUME NEW a \in Algs, NEW w \in Nat, NEW n \in 1 .. w \div a.block
  PROVE  /\ n * a.block \in 1 .. w /\ (n - 1) * a.block + 1 \in 1 .. w
         /\ n * a.block = (n - 1) * a.block + a.block
<1>1. CASE a.block = 64
  BY <1>1
<1>2. CASE a.block = 128
  BY <1>2
<1> QED BY <1>1, <1>2, AlgFacts

LEMMA Cut ==
  ASSUME NEW S, NEW p \in Seq(S), NEW o \in Nat, NEW b \in Nat, o + b <= Len(p)
  PROVE  SubSeq(p, o + 1, o + b) = [k \in 1 .. b |-> p[o + k]]
OBVIOUS

LEMMA ParsedIsBlocks ==
  ASSUME alg \in Algs, NEW name \in {"message", "digest"}, NEW l \in Nat,
         NEW m, m = [k \in 1 .. l |-> <<name, k>>]
  PROVE  Parsed(Padded(m)) = Blocks(alg, name, l, Whole(alg, l) \div alg.block)
<1>1. PICK p : p = Padded(m)
  OBVIOUS
<1>2. PICK w \in Nat : w = Whole(alg, l)
  BY Padding
<1>3. /\ p \in Seq(StreamBytes) /\ Len(p) = w
      /\ \A k \in 1 .. w : p[k] = Stream(alg, name, l, k)
  BY <1>1, <1>2, PaddedIsStream
<1>4. PICK b \in Nat \ {0} : b = alg.block
  BY AlgFacts
<1>5. ASSUME NEW n \in 1 .. w \div b
      PROVE  SubSeq(p, (n - 1) * b + 1, n * b) = BlockOf(alg, name, l, n)
  <2>1. n * b \in 1 .. w /\ (n - 1) * b + 1 \in 1 .. w /\ n * b = (n - 1) * b + b
    BY <1>4, BlockEnds
  <2>2. PICK o \in Nat : o = (n - 1) * b /\ o + b = n * b
    BY <2>1
  <2>3. SubSeq(p, o + 1, o + b) = [k \in 1 .. b |-> p[o + k]]
    <3>1. o + b <= Len(p)
      BY <1>3, <2>1, <2>2
    <3> QED BY <1>3, <3>1, Cut
  <2>4. \A k \in 1 .. b : p[o + k] = Stream(alg, name, l, o + k)
    <3>1. o + b <= w
      BY <2>1, <2>2
    <3>2. \A k \in 1 .. b : o + k \in 1 .. w
      BY ONLY <3>1, o \in Nat, b \in Nat, w \in Nat
    <3> QED BY <1>3, <3>2
  <2>5. [k \in 1 .. b |-> p[o + k]] = [k \in 1 .. b |-> Stream(alg, name, l, o + k)]
    BY <2>4
  <2> QED BY <1>4, <2>2, <2>3, <2>5 DEF BlockOf
<1>6. Parsed(p) = [n \in 1 .. w \div b |-> SubSeq(p, (n - 1) * b + 1, n * b)]
  BY <1>3, <1>4 DEF Parsed, Block
<1> QED BY <1>1, <1>2, <1>4, <1>5, <1>6 DEF Blocks

LEMMA ThenIsPadded == ASSUME Sha2Inv PROVE DigestOfMessage
<1> SUFFICES ASSUME stage = "digest"
             PROVE  LET message == Parsed(Padded(Bytes(0, size))) IN
                    IF once = <<>> THEN blocks = message
                                   ELSE once = message /\ blocks = Parsed(Padded(DigestBytes))
  BY DEF DigestOfMessage
<1>1. alg \in Algs /\ size \in Nat /\ bytes \in Nat
  BY DEF Sha2Inv, NumbersInv
<1>2. bytes = Whole(alg, Size)
  <2>1. data = <<>> /\ bytes + Len(data) = Whole(alg, Size)
    BY DEF Sha2Inv, StageInv, DataInv, Added
  <2> QED BY <1>1, <2>1
<1>3. blocks = Blocks(alg, Name, Size, Whole(alg, Size) \div alg.block)
  BY <1>2 DEF Sha2Inv, BlocksInv
<1>4. Parsed(Padded(Bytes(0, size)))
        = Blocks(alg, "message", size, Whole(alg, size) \div alg.block)
  <2>1. Bytes(0, size) = [k \in 1 .. size |-> <<"message", k>>]
    <3>1. size - 0 = size /\ \A k \in 1 .. size : 0 + k = k
      BY <1>1
    <3> QED BY <3>1 DEF Bytes
  <2> QED BY <1>1, <2>1, ParsedIsBlocks
<1>5. Parsed(Padded(DigestBytes)) = Blocks(alg, "digest", 32, Whole(alg, 32) \div alg.block)
  BY <1>1, ParsedIsBlocks DEF DigestBytes
<1>6. CASE once = <<>>
  BY <1>3, <1>4, <1>6 DEF Name, Size
<1>7. CASE once # <<>>
  <2>1. once = Blocks(alg, "message", size, Whole(alg, size) \div alg.block)
    BY <1>7 DEF Sha2Inv, StageInv
  <2> QED BY <1>3, <1>4, <1>5, <1>7, <2>1 DEF Name, Size
<1> QED BY <1>6, <1>7

(* For a message of any length, in pieces of any sizes, the digest is that *)
(* of the blocks of the padded message (sha256.c:159-216,                  *)
(* sha512.c:168-219), and of SHA256D, that of the padded digest of it.     *)
THEOREM BlocksArePadded == ASSUME PiecesFit PROVE Spec => []DigestOfMessage
<1>1. Sha2Inv => DigestOfMessage
  BY ThenIsPadded
<1> QED BY <1>1, Sha2Invariant, PTL
===============================================================================
