----------------------------- MODULE Compression -----------------------------
(***************************************************************************)
(* The compression functions of sha256.c and sha512.c, with endian.h as it *)
(* is on a little-endian machine.  A word is the set of its one bits, bit  *)
(* 0 the lowest.  The two files are the same program with two sets of      *)
(* parameters, a record `alg':                                             *)
(*   bits     of a word                                                    *)
(*   rounds   of Round                                                     *)
(*   Sigma0, Sigma1, sigma0, sigma1   their shifts: right and left,        *)
(*            alternating, and a last one to the right in sigma0, sigma1   *)
(*   swap     how far BSWAP_32 or BSWAP_64 moves each byte to the left     *)
(*   K, H     constants and first state, in pieces of 16 bits              *)
(***************************************************************************)
EXTENDS Integers, SequencesExt

K256 == <<
    \h428a, \h2f98, \h7137, \h4491, \hb5c0, \hfbcf, \he9b5, \hdba5,
    \h3956, \hc25b, \h59f1, \h11f1, \h923f, \h82a4, \hab1c, \h5ed5,
    \hd807, \haa98, \h1283, \h5b01, \h2431, \h85be, \h550c, \h7dc3,
    \h72be, \h5d74, \h80de, \hb1fe, \h9bdc, \h06a7, \hc19b, \hf174,
    \he49b, \h69c1, \hefbe, \h4786, \h0fc1, \h9dc6, \h240c, \ha1cc,
    \h2de9, \h2c6f, \h4a74, \h84aa, \h5cb0, \ha9dc, \h76f9, \h88da,
    \h983e, \h5152, \ha831, \hc66d, \hb003, \h27c8, \hbf59, \h7fc7,
    \hc6e0, \h0bf3, \hd5a7, \h9147, \h06ca, \h6351, \h1429, \h2967,
    \h27b7, \h0a85, \h2e1b, \h2138, \h4d2c, \h6dfc, \h5338, \h0d13,
    \h650a, \h7354, \h766a, \h0abb, \h81c2, \hc92e, \h9272, \h2c85,
    \ha2bf, \he8a1, \ha81a, \h664b, \hc24b, \h8b70, \hc76c, \h51a3,
    \hd192, \he819, \hd699, \h0624, \hf40e, \h3585, \h106a, \ha070,
    \h19a4, \hc116, \h1e37, \h6c08, \h2748, \h774c, \h34b0, \hbcb5,
    \h391c, \h0cb3, \h4ed8, \haa4a, \h5b9c, \hca4f, \h682e, \h6ff3,
    \h748f, \h82ee, \h78a5, \h636f, \h84c8, \h7814, \h8cc7, \h0208,
    \h90be, \hfffa, \ha450, \h6ceb, \hbef9, \ha3f7, \hc671, \h78f2 >>

K512 == <<
    \h428a, \h2f98, \hd728, \hae22, \h7137, \h4491, \h23ef, \h65cd,
    \hb5c0, \hfbcf, \hec4d, \h3b2f, \he9b5, \hdba5, \h8189, \hdbbc,
    \h3956, \hc25b, \hf348, \hb538, \h59f1, \h11f1, \hb605, \hd019,
    \h923f, \h82a4, \haf19, \h4f9b, \hab1c, \h5ed5, \hda6d, \h8118,
    \hd807, \haa98, \ha303, \h0242, \h1283, \h5b01, \h4570, \h6fbe,
    \h2431, \h85be, \h4ee4, \hb28c, \h550c, \h7dc3, \hd5ff, \hb4e2,
    \h72be, \h5d74, \hf27b, \h896f, \h80de, \hb1fe, \h3b16, \h96b1,
    \h9bdc, \h06a7, \h25c7, \h1235, \hc19b, \hf174, \hcf69, \h2694,
    \he49b, \h69c1, \h9ef1, \h4ad2, \hefbe, \h4786, \h384f, \h25e3,
    \h0fc1, \h9dc6, \h8b8c, \hd5b5, \h240c, \ha1cc, \h77ac, \h9c65,
    \h2de9, \h2c6f, \h592b, \h0275, \h4a74, \h84aa, \h6ea6, \he483,
    \h5cb0, \ha9dc, \hbd41, \hfbd4, \h76f9, \h88da, \h8311, \h53b5,
    \h983e, \h5152, \hee66, \hdfab, \ha831, \hc66d, \h2db4, \h3210,
    \hb003, \h27c8, \h98fb, \h213f, \hbf59, \h7fc7, \hbeef, \h0ee4,
    \hc6e0, \h0bf3, \h3da8, \h8fc2, \hd5a7, \h9147, \h930a, \ha725,
    \h06ca, \h6351, \he003, \h826f, \h1429, \h2967, \h0a0e, \h6e70,
    \h27b7, \h0a85, \h46d2, \h2ffc, \h2e1b, \h2138, \h5c26, \hc926,
    \h4d2c, \h6dfc, \h5ac4, \h2aed, \h5338, \h0d13, \h9d95, \hb3df,
    \h650a, \h7354, \h8baf, \h63de, \h766a, \h0abb, \h3c77, \hb2a8,
    \h81c2, \hc92e, \h47ed, \haee6, \h9272, \h2c85, \h1482, \h353b,
    \ha2bf, \he8a1, \h4cf1, \h0364, \ha81a, \h664b, \hbc42, \h3001,
    \hc24b, \h8b70, \hd0f8, \h9791, \hc76c, \h51a3, \h0654, \hbe30,
    \hd192, \he819, \hd6ef, \h5218, \hd699, \h0624, \h5565, \ha910,
    \hf40e, \h3585, \h5771, \h202a, \h106a, \ha070, \h32bb, \hd1b8,
    \h19a4, \hc116, \hb8d2, \hd0c8, \h1e37, \h6c08, \h5141, \hab53,
    \h2748, \h774c, \hdf8e, \heb99, \h34b0, \hbcb5, \he19b, \h48a8,
    \h391c, \h0cb3, \hc5c9, \h5a63, \h4ed8, \haa4a, \he341, \h8acb,
    \h5b9c, \hca4f, \h7763, \he373, \h682e, \h6ff3, \hd6b2, \hb8a3,
    \h748f, \h82ee, \h5def, \hb2fc, \h78a5, \h636f, \h4317, \h2f60,
    \h84c8, \h7814, \ha1f0, \hab72, \h8cc7, \h0208, \h1a64, \h39ec,
    \h90be, \hfffa, \h2363, \h1e28, \ha450, \h6ceb, \hde82, \hbde9,
    \hbef9, \ha3f7, \hb2c6, \h7915, \hc671, \h78f2, \he372, \h532b,
    \hca27, \h3ece, \hea26, \h619c, \hd186, \hb8c7, \h21c0, \hc207,
    \heada, \h7dd6, \hcde0, \heb1e, \hf57d, \h4f7f, \hee6e, \hd178,
    \h06f0, \h67aa, \h7217, \h6fba, \h0a63, \h7dc5, \ha2c8, \h98a6,
    \h113f, \h9804, \hbef9, \h0dae, \h1b71, \h0b35, \h131c, \h471b,
    \h28db, \h77f5, \h2304, \h7d84, \h32ca, \hab7b, \h40c7, \h2493,
    \h3c9e, \hbe0a, \h15c9, \hbebc, \h431d, \h67c4, \h9c10, \h0d4c,
    \h4cc5, \hd4be, \hcb3e, \h42b6, \h597f, \h299c, \hfc65, \h7e2a,
    \h5fcb, \h6fab, \h3ad6, \hfaec, \h6c44, \h198c, \h4a47, \h5817 >>

(* Mutant: the first state of SHA-224. *)
H256_Sha224 == <<
    \hc105, \h9ed8, \h367c, \hd507, \h3070, \hdd17, \hf70e, \h5939,
    \hffc0, \h0b31, \h6858, \h1511, \h64f9, \h8fa7, \hbefa, \h4fa4 >>

H256 == <<
    \h6a09, \he667, \hbb67, \hae85, \h3c6e, \hf372, \ha54f, \hf53a,
    \h510e, \h527f, \h9b05, \h688c, \h1f83, \hd9ab, \h5be0, \hcd19 >>

H512 == <<
    \h6a09, \he667, \hf3bc, \hc908, \hbb67, \hae85, \h84ca, \ha73b,
    \h3c6e, \hf372, \hfe94, \hf82b, \ha54f, \hf53a, \h5f1d, \h36f1,
    \h510e, \h527f, \hade6, \h82d1, \h9b05, \h688c, \h2b3e, \h6c1f,
    \h1f83, \hd9ab, \hfb41, \hbd6b, \h5be0, \hcd19, \h137e, \h2179 >>

SHA256 ==
  [bits |-> 32, rounds |-> 64, K |-> K256, H |-> H256, swap |-> <<24, 8, -8, -24>>,
   Sigma0 |-> <<2, 30, 13, 19, 22, 10>>, Sigma1 |-> <<6, 26, 11, 21, 25, 7>>,
   sigma0 |-> <<7, 25, 18, 14, 3>>,      sigma1 |-> <<17, 15, 19, 13, 10>>]

SHA512 ==
  [bits |-> 64, rounds |-> 80, K |-> K512, H |-> H512,
   swap |-> <<56, 40, 24, 8, -8, -24, -40, -56>>,
   Sigma0 |-> <<28, 36, 34, 30, 39, 25>>, Sigma1 |-> <<14, 50, 18, 46, 41, 23>>,
   sigma0 |-> <<1, 63, 8, 56, 7>>,        sigma1 |-> <<19, 45, 61, 3, 6>>]

(* Word k of a table, from 0 on: its bits from the left. *)
WordOf(alg, table, k) ==
  {b \in 0 .. alg.bits - 1 :
     (table[(k + 1) * (alg.bits \div 16) - b \div 16] \div 2^(b % 16)) % 2 = 1}
------------------------------------------------------------------------------
(* x << n in a word, x >> n for a negative n. *)
Moved(alg, x, n) == {b + n : b \in x} \cap 0 .. alg.bits - 1

(* The sum in alg.bits bits: carries are added until there are none. *)
RECURSIVE Plus(_, _, _)
Plus(alg, x, y) ==
  IF y = {} THEN x ELSE Plus(alg, SymDiff(x, y), Moved(alg, x \cap y, 1))

Total(alg, words) == FoldLeft(LAMBDA x, y : Plus(alg, x, y), {}, words)

Ch(x, y, z) == SymDiff(z, x \cap SymDiff(y, z))

(* Mutant: and in the place of the second or. *)
Maj_And(x, y, z) == (x \cap y) \cup (z \cap (x \cap y))

Maj(x, y, z) == (x \cap y) \cup (z \cap (x \cup y))

(* x >> r | x << l *)
Rotated(alg, x, r, l) == Moved(alg, x, -r) \cup Moved(alg, x, l)

(* The four functions of one word: Sigma with six shifts, sigma with five. *)
Sigma(alg, s, x) ==
  SymDiff(Rotated(alg, x, s[1], s[2]),
          SymDiff(Rotated(alg, x, s[3], s[4]),
                  IF Len(s) = 6 THEN Rotated(alg, x, s[5], s[6]) ELSE Moved(alg, x, -s[5])))

(* BSWAP_32 and BSWAP_64, which is what be32_to_cpu and be64_to_cpu are. *)
BSWAP(alg, val) ==
  UNION {Moved(alg, val \cap (8 * (k - 1) .. 8 * k - 1), alg.swap[k]) : k \in DOMAIN alg.swap}

(* Round t: the variables a .. h, v[0] .. v[7], take turns as arguments,   *)
(* and only the ones that are d and h in this round change.                *)
Round(alg, v, t, w) ==
  LET arg(k) == (k - t) % 8
      t1 == Total(alg, <<v[arg(7)], Sigma(alg, alg.Sigma1, v[arg(4)]),
                         Ch(v[arg(4)], v[arg(5)], v[arg(6)]), WordOf(alg, alg.K, t), w>>)
      t2 == Plus(alg, Sigma(alg, alg.Sigma0, v[arg(0)]), Maj(v[arg(0)], v[arg(1)], v[arg(2)]))
  IN  [v EXCEPT ![arg(3)] = Plus(alg, @, t1), ![arg(7)] = Plus(alg, t1, t2)]

(* What is done to w0 .. w15 before round t. *)
Scheduled(alg, w, t) ==
  IF t < 16 THEN w
  ELSE [w EXCEPT ![t % 16] =
          Total(alg, <<@, Sigma(alg, alg.sigma1, w[(t + 14) % 16]), w[(t + 9) % 16],
                       Sigma(alg, alg.sigma0, w[(t + 1) % 16])>>)]

(* Transform, for a chunk of 16 words in memory and a state s, functions   *)
(* from 0 on: a .. h and w0 .. w15 in the beginning, after round t, and    *)
(* the state at the end.                                                   *)
Loaded(alg, s, chunk) ==
  [v |-> s, w |-> [k \in 0 .. 15 |-> BSWAP(alg, chunk[k])]]

Rounded(alg, x, t) ==
  LET w == Scheduled(alg, x.w, t) IN [v |-> Round(alg, x.v, t, w[t % 16]), w |-> w]

Added(alg, s, x) == [k \in 0 .. 7 |-> Plus(alg, s[k], x.v[k])]

(* cpu_to_be32 and cpu_to_be64 in the finalize functions: the hash as      *)
(* words in memory.                                                        *)
Stored(alg, s) == [k \in 0 .. 7 |-> BSWAP(alg, s[k])]

(* sha256_init, sha512_init *)
FirstState(alg) == [k \in 0 .. 7 |-> WordOf(alg, alg.H, k)]
==============================================================================
