------------------------------ MODULE Lagrange ------------------------------
(***************************************************************************)
(* lagrange.c and digest.c.  A share value is a function from byte offsets *)
(* to bytes; offset 1 stands for the DIGEST_LEN bytes in front, offset 2   *)
(* for the rest.                                                           *)
(***************************************************************************)
EXTENDS GF256

CONSTANT Mac(_, _)   \* HMAC-SHA256 of key, data, cut to DIGEST_LEN bytes

(* What makes gf256.c a field: the polynomial is irreducible. *)
ASSUME InverseAssumption ==
  \A a \in Byte \ {{}} : gf256_inv(a) \in Byte /\ gf256_mul(a, gf256_inv(a)) = One

DigestX == 254       \* (uint8_t)-2
SecretX == 255       \* (uint8_t)-1

Offsets == {1, 2}
Value   == [Offsets -> Byte]

ASSUME MacAssumption == \A key \in Byte, data \in Value : Mac(key, data) \in Byte

(* Mutant: the numerator forgets the point itself. *)
Weight_NoX(ps, p, x) ==
  FoldSet(LAMBDA q, w : gf256_mul(w, gf256_div(ToByte(q), gf256_add(ToByte(p), ToByte(q)))),
          One, ps \ {p})

(* The weight of point p when the points in ps are interpolated at x. *)
Weight(ps, p, x) ==
  FoldSet(LAMBDA q, w : gf256_mul(w, gf256_div(gf256_add(ToByte(x), ToByte(q)),
                                               gf256_add(ToByte(p), ToByte(q)))),
          One, ps \ {p})

(* helper() of lagrange.c for one byte offset: pts maps indices to bytes. *)
InterpolateByte(pts, x) ==
  FoldSet(LAMBDA p, sum : gf256_add(sum, gf256_mul(pts[p], Weight(DOMAIN pts, p, x))),
          {}, DOMAIN pts)

(* lagrange(): the value at x of the polynomial through pts. *)
Interpolate(pts, x) ==
  [o \in Offsets |-> InterpolateByte([k \in DOMAIN pts |-> pts[k][o]], x)]

(* digest_compute and digest_verify; the key is the rest of the digest. *)
DigestOf(rest, secret) == [o \in Offsets |-> IF o = 1 THEN Mac(rest, secret) ELSE rest]
DigestOK(digest, secret) == digest[1] = Mac(digest[2], secret)
=============================================================================
