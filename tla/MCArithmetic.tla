---------------------------- MODULE MCArithmetic ----------------------------
(***************************************************************************)
(* The arithmetic of shares, checked against reference definitions: bytes  *)
(* as elements of GF(256), all of them; numbers of two and three limbs of  *)
(* two bits, all of them, with every divisor and with digits enough to     *)
(* overflow them; and the words of a mnemonic, header and checksum, and    *)
(* those of a master secret, with the limbs of the code.  There are more   *)
(* jobs than those of Numbers, and i counts the turns of two loops.        *)
(***************************************************************************)
EXTENDS GF256, Numbers

VARIABLE i

(* Any function of the bytes does for the hash. *)
MCHash(bytes) == FoldLeft(LAMBDA h, b : (5 * h + b + 77) % 256, 0, bytes)

H == INSTANCE Header WITH LimbBits <- 8
K == INSTANCE Codec WITH LimbBits <- 8, Hash <- MCHash
RS == INSTANCE Rs1024
W == INSTANCE Wordlist
C == INSTANCE Compression
F == INSTANCE Fips180

MCPol == {0, 1, 3, 4}

MCValues == {2, 3, 4, 6, 7, 11, 13, 15}
MCCounts == [m \in MCValues |-> CASE m = 2       -> 1 .. 7
                                  [] m \in {3, 4} -> 1 .. 5
                                  [] OTHER       -> 1 .. 3]

(* Headers with every field at one of its limits, shares of every size,    *)
(* with every pattern of fixnum_set_pattern.                               *)
Low     == [id |-> 0, e |-> 0, GI |-> 0, GT |-> 1, G |-> 1, I |-> 0, T |-> 1]
High    == [id |-> 32767, e |-> 31, GI |-> 15, GT |-> 16, G |-> 16, I |-> 15, T |-> 16]
Headers == {[k \in DOMAIN Low |-> IF k \in A THEN High[k] ELSE Low[k]] : A \in SUBSET DOMAIN Low}
ShareSizes == {2 * k : k \in 8 .. 32}

Zero(n)  == [k \in 1 .. n |-> 0]
Ones(n)  == [k \in 1 .. n |-> 255]
Add11(n) == [k \in 1 .. n |-> (1 + 17 * (k - 1)) % 256]

Patterns(sizes) == UNION {{Zero(n), Ones(n), Add11(n)} : n \in sizes}

(* The bits in front of a share of n bytes that only fill its first word.  *)
Padding(n) == 10 * ((8 * n + 9) \div 10) - 8 * n

(* SHA-2: words of 32 and of 64 bits; the padded message "abc" and chunks  *)
(* of other patterns, as bytes; words in memory as they are read on the    *)
(* machine, and as the standard reads them.                                *)
Alg(bits)       == IF bits = 32 THEN C!SHA256 ELSE C!SHA512
Abc(n)          == <<97, 98, 99, 128>> \o [k \in 1 .. n - 5 |-> 0] \o <<24>>
Chunks(n)       == {Abc(n)} \cup Patterns({n})
ByteOf(bytes, k) == {b \in 0 .. 7 : (bytes[k] \div 2^b) % 2 = 1}
BigEndian(bits, bytes, k) ==
  LET l == bits \div 8 IN {b \in 0 .. bits - 1 : b % 8 \in ByteOf(bytes, l * (k + 1) - b \div 8)}
InMemory(bits, bytes, k) ==
  LET l == bits \div 8 IN {b \in 0 .. bits - 1 : b % 8 \in ByteOf(bytes, l * k + 1 + b \div 8)}
States(bits) == {C!FirstState(Alg(bits)), [k \in 0 .. 7 |-> 0 .. bits - 1]}

(* Wordlists of two characters, with words that are the beginning of other *)
(* words; lines of them and of spaces.                                     *)
Letters   == UNION {[1 .. k -> {97, 98}] : k \in 1 .. 2}
Wordlists == {w \in UNION {[0 .. k -> Letters] : k \in 1 .. 2} : IsInjective(w)}
TextLines == UNION {[1 .. k -> {W!SPC, 97, 98}] : k \in 0 .. 4}

MCInit ==
  /\ \/ job \in Jobs
     \/ job \in [op : {"mul"}, a : Byte, b : Byte]
     \/ job \in [op : {"inv"}, a : Byte \ {{}}]
     \/ job \in [op : {"errors"}, p : 1 .. 57, q : 2 .. 58] /\ job.p < job.q
     \/ job \in [op : {"line"}, h : Headers, share : {Add11(16)}, pad : {0, 1}]
     \/ job \in [op : {"line"}, h : {Low},
                 share : Patterns(ShareSizes), pad : {0, 1}]
     \/ job \in [op : {"base16"}, secret : Patterns(ShareSizes)]
     \/ job \in [op : {"bip39"}, secret : Patterns({16, 20, 24, 28, 32}), wrong : 0 .. 7]
     \/ \E bits \in {32, 64} :
          \/ job \in [op : {"transform"}, bits : {bits}, s : States(bits), chunk : Chunks(2 * bits)]
          \/ job \in [op : {"constant"}, bits : {bits}, k : 0 .. Alg(bits).rounds - 1]
          \/ job \in [op : {"first"}, bits : {bits}, k : 0 .. 7]
     \/ job \in [op : {"text"}, w : Wordlists, line : TextLines]
     \/ \E w \in Wordlists :
          job \in [op : {"words"}, w : {w}, space : BOOLEAN,
                  words : UNION {[1 .. k -> DOMAIN w] : k \in 0 .. 3}]
  /\ result = {} /\ done = FALSE
  /\ i = 0

Mul == job.op = "mul" /\ Returns("mul", gf256_mul(job.a, job.b))

(* gf256_inv, one iteration of gf256_pow at a time. *)
Inv == Returns("inv", One)
Pow == /\ job.op = "inv" /\ i \in 1 .. InvExponent
       /\ result' = PowStep(result, job.a)
       /\ i' = i + 1 /\ UNCHANGED <<job, done>>

(* The checksum is linear: a wrong bit in a word p words before the end    *)
(* changes chk by Effect[p, bit], whatever the words are.                  *)
Effect == [p \in 0 .. 58, bit \in RS!WordBits |->
             RS!AddArray({}, <<{bit}>> \o [k \in 1 .. p |-> {}])]

(* The rank of a set of vectors, by elimination of one bit after another.  *)
Rank(vectors) ==
  FoldLeft(LAMBDA s, k :
             IF \E v \in s.left : k \in v
               THEN LET v == CHOOSE v \in s.left : k \in v
                    IN  [left |-> {IF k \in w THEN SymDiff(v, w) ELSE w : w \in s.left \ {v}},
                         rank |-> s.rank + 1]
               ELSE s,
           [left |-> vectors, rank |-> 0], [k \in 1 .. 30 |-> k - 1]).rank

(* How many of the errors in the last word, p and q words before it are    *)
(* independent of each other.                                              *)
Errors == /\ job.op = "errors"
          /\ Returns("errors", Rank({Effect[p, bit] : p \in {0, job.p, job.q},
                                                      bit \in RS!WordBits}))

(* Prints a line over a header buffer that is still full, and reads it     *)
(* again; or a line with a bit set in front of the share.                  *)
LineAgain == /\ job.op = "line"
             /\ job.pad = 0 \/ Padding(Len(job.share)) > 0
             /\ Returns("line",
                  LET words == H!Data(H!WriteHeader(Ones(5), job.h), job.share)
                      pad   == job.pad * 2^(10 - Padding(Len(job.share)))
                  IN  H!ReadLine(H!Line([words EXCEPT ![5] = @ + pad])))

Base16Again == /\ job.op = "base16"
               /\ Returns("base16", K!base16_encode(K!base16_decode(job.secret)))

(* The last word with a wrong bit that belongs to the checksum, or none.   *)
Bip39Again == /\ job.op = "bip39"
              /\ job.wrong <= Len(job.secret) \div 4
              /\ Returns("bip39",
                   LET words == K!bip39_decode(job.secret)
                       last  == IF job.wrong = 0 THEN {} ELSE {job.wrong - 1}
                   IN  K!bip39_encode([words EXCEPT ![Len(words)] =
                         SumSet({2^b : b \in SymDiff(RS!BitsOf(@), last)})]))

(* Transform, round by round, next to that of the standard. *)
Transform == /\ job.op = "transform"
             /\ Returns("transform",
                  [x |-> C!Loaded(Alg(job.bits), job.s,
                                  [k \in 0 .. 15 |-> InMemory(job.bits, job.chunk, k)]),
                   v |-> [k \in 1 .. 8 |-> job.s[k - 1]],
                   words |-> [k \in 1 .. 16 |-> BigEndian(job.bits, job.chunk, k - 1)]])
Round     == /\ job.op = "transform" /\ i \in 1 .. Alg(job.bits).rounds
             /\ LET words == F!Schedule(job.bits, result.words, i - 1)
                    k     == C!WordOf(Alg(job.bits), Alg(job.bits).K, i - 1)
                IN  result' = [x |-> C!Rounded(Alg(job.bits), result.x, i - 1),
                               v |-> F!Step(job.bits, result.v, k, words[i]),
                               words |-> words]
             /\ i' = i + 1 /\ UNCHANGED <<job, done>>

Constant  == /\ job.op = "constant"
             /\ Returns("constant", C!WordOf(Alg(job.bits), Alg(job.bits).K, job.k))
First     == /\ job.op = "first"
             /\ Returns("first", C!FirstState(Alg(job.bits))[job.k])

TextRead == /\ job.op = "text"
            /\ Returns("text", W!Words(job.w, job.line))

(* Printed words are typed again, perhaps with a space behind them. *)
WordsAgain == /\ job.op = "words"
              /\ job.space => W!ReqTerminator(job.w) /\ job.words # <<>>
              /\ Returns("words", LET line == W!Printed(job.w, job.words) IN
                   W!Words(job.w, IF job.space THEN Append(line, W!SPC) ELSE line))

MCNext == \/ /\ Next \/ Mul \/ Inv \/ Transform \/ Constant \/ First \/ Errors \/ LineAgain
                \/ Base16Again \/ Bip39Again \/ TextRead \/ WordsAgain
             /\ i' = 1
          \/ Pow \/ Round

MCSpec == MCInit /\ [][MCNext]_<<vars, i>>
------------------------------------------------------------------------------
(* The coefficients of the product of two polynomials over GF(2). *)
Product(p, q) ==
  {k \in 0 .. 2 * Width - 2 :
     Cardinality({t \in p : k - t \in q}) % 2 = 1}

(* The remainder of p in the division by x^Width + Pol: the leading terms  *)
(* are cancelled one by one, from the highest possible degree down.        *)
Remainder(p) ==
  LET rest[k \in Width - 1 .. 2 * Width - 2] ==
        IF k = 2 * Width - 2 THEN p
        ELSE LET r == rest[k + 1] IN
             IF k + 1 \in r
               THEN SymDiff(r, {t + (k + 1 - Width) : t \in Pol \cup {Width}})
               ELSE r
  IN  rest[Width - 1]

(* The shift-and-add loop of gf256.c:37-62 computes the product in the     *)
(* field: its branch-free conditions and its entry in mid-loop lose and    *)
(* repeat nothing.                                                         *)
MulIsFieldProduct == Returned("mul") => result = Remainder(Product(job.a, job.b))

(* gf256_inv (gf256.c:70-73) returns the inverse of every byte but zero,   *)
(* which is what lets lagrange divide by differences of x-coordinates.     *)
InverseIsInverse ==
  job.op = "inv" /\ i = InvExponent + 1 => Remainder(Product(job.a, result)) = One

(* rs1024.c:24-63 detects every change of up to three words of a line, as  *)
(* doc/slip-0039.md promises: errors in three words are independent, so    *)
(* together they never cancel out.  The last of the words may be taken as  *)
(* the last of the line, because a step with no error is invertible.       *)
DetectsThreeErrors ==
  Returned("errors") =>
    /\ result = 30
    /\ Rank({RS!AddValue({k}, {}) : k \in 0 .. 29}) = 30

(* What slip0039_print_mnemonics writes (slip0039.c:281-310) is what       *)
(* slip0039_add_mnemonic reads (338-416): header fields at their limits do *)
(* not run into one another, also when the buffer still holds another      *)
(* header, every size has its number of words, and a share with a bit in   *)
(* front of its first byte is refused.                                     *)
LineRoundTrip ==
  Returned("line") =>
    result = IF job.pad = 1 THEN H!Unreadable
             ELSE [ok |-> TRUE, header |-> job.h, share |-> job.share]

(* codec.c:28-122: what base16 and bip39 have stored comes back as it was  *)
(* typed in, at every size; and a bip39 mnemonic with a wrong bit in its   *)
(* checksum is refused, however many bits that has.                        *)
CodecsInvert ==
  /\ Returned("base16") => result = K!Stores(job.secret)
  /\ Returned("bip39") =>
       result = IF job.wrong = 0 THEN K!Stores(job.secret) ELSE K!Refused

(* Transform (sha256.c:76-157, sha512.c:56-154), with variables that take  *)
(* turns instead of being shifted, a schedule in place, and Ch and Maj in  *)
(* other words, is the compression function of FIPS 180-4, round by round; *)
(* and bytes are put in order where words are read and written, so that    *)
(* the digest of "abc" begins as in the standard's example.                *)
TransformIsStandard ==
  job.op = "transform" /\ i > 0 =>
    /\ \A k \in 0 .. 7 : result.x.v[(k - (i - 1)) % 8] = result.v[k + 1]
    /\ i = Alg(job.bits).rounds + 1 =>
         LET hash == C!Stored(Alg(job.bits), C!Added(Alg(job.bits), job.s, result.x))
             l    == job.bits \div 8
             byte(m) == {b \in 0 .. 7 : b + 8 * (m % l) \in hash[m \div l]}
             v(k) == F!Add(job.bits, job.s[k], result.v[k + 1])
         IN  /\ \A m \in 0 .. job.bits - 1 :
                  byte(m) = {b \in 0 .. 7 : b + 8 * ((l - 1) - (m % l)) \in v(m \div l)}
             /\ job.chunk = Abc(2 * job.bits) /\ job.s = C!FirstState(Alg(job.bits)) =>
                  \A m \in 0 .. 3 : byte(m) = ByteOf(IF job.bits = 32 THEN <<186, 120, 22, 191>>
                                                    ELSE <<221, 175, 53, 161>>, m + 1)

(* The constants of the rounds and of the first state (sha256.h:90-93,     *)
(* sha256.c:81-147, sha512.c:61-144, 158-165) are what they are said to    *)
(* be, roots of primes: a wrong digit would only show with the mnemonics   *)
(* of other programs.                                                      *)
ConstantsAreRoots ==
  /\ Returned("constant") => F!IsFractionOfRoot(job.bits, result, F!Prime[job.k + 1], 3)
  /\ Returned("first")    => F!IsFractionOfRoot(job.bits, result, F!Prime[job.k + 1], 2)

(* wordeq and wordlist_search (utils.c:54-136): what is printed is read as *)
(* the same words, also when one word begins with another; and a line that *)
(* is read is what the words are printed as, but for a space at its end.   *)
(* Combining matches with & and | is right as long as no word is twice in  *)
(* the list.                                                               *)
WordsReadBack ==
  /\ Returned("words") => result.ok /\ result.words = job.words
  /\ Returned("text") /\ result.ok =>
       LET printed == W!Printed(job.w, result.words) IN
         \/ job.line = printed
         \/ W!ReqTerminator(job.w) /\ job.line = Append(printed, W!SPC)
=============================================================================
